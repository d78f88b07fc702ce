-------------------------------- MODULE Parts --------------------------------
(***************************************************************************)
(* Four parts that have no state in common, checked in one run: Init       *)
(* chooses the part there is; their product would only add interleavings   *)
(* of steps that do not see each other.                                    *)
(***************************************************************************)
EXTENDS Naturals

CONSTANTS
  Request, User, File, Key, sender, file_of, key_of,              \* Omnichannel
  capacity, Unit, refill_per_second, MaxTime, MaxRestarts,
  Page, Start, Root, Walker, MaxPages,                            \* Pagination
  Process, Url, Body, Encoding, MaxFollowed, MaxRedirects,        \* Cassette
  MaxAttempts, MaxTape,
  Run, Text, Inputs, Second, NoJob                                \* OpsHistory

VARIABLES
  part,
  now, in_memory, counters, conversation, at, existing, routed, crowded, restarts,
  link, malformed, form, max_pages, cur, seen, out, result,
  file, run, overlapped, disturbed,
  text, pc, hashed, job, loaded, edited, earlier, listed, index,
  artifact, temps, run_doc, results_doc, reader

gateway == <<now, in_memory, counters, conversation, at, existing, routed, crowded, restarts>>
walks == <<link, malformed, form, max_pages, cur, seen, out, result>>
tapes == <<file, run, overlapped, disturbed>>
history == <<text, pc, hashed, job, loaded, edited, earlier, listed, index,
             artifact, temps, run_doc, results_doc, reader>>
vars == <<part, gateway, walks, tapes, history>>

Gateway == INSTANCE Omnichannel WITH pc <- at, overlapped <- crowded

Walks == INSTANCE Pagination

Tapes == INSTANCE Cassette WITH MaxPages <- MaxFollowed

History == INSTANCE OpsHistory

ASSUME ConstantsAssumption ==
  Gateway!ConstantsOK /\ Walks!ConstantsOK /\ Tapes!ConstantsOK /\ History!ConstantsOK

(* The variables of a part that does not move. *)
Off == "off"

GatewayOff ==
  /\ now = Off /\ in_memory = Off /\ counters = Off /\ conversation = Off /\ at = Off
  /\ existing = Off /\ routed = Off /\ crowded = Off /\ restarts = Off

WalksOff ==
  /\ link = Off /\ malformed = Off /\ form = Off /\ max_pages = Off /\ cur = Off
  /\ seen = Off /\ out = Off /\ result = Off

TapesOff ==
  /\ file = Off /\ run = Off /\ overlapped = Off /\ disturbed = Off

HistoryOff ==
  /\ text = Off /\ pc = Off /\ hashed = Off /\ job = Off /\ loaded = Off
  /\ edited = Off /\ earlier = Off /\ listed = Off /\ index = Off
  /\ artifact = Off /\ temps = Off /\ run_doc = Off /\ results_doc = Off /\ reader = Off

Init ==
  \/ part = "gateway" /\ Gateway!Init /\ WalksOff /\ TapesOff /\ HistoryOff
  \/ part = "walks" /\ Walks!Init /\ GatewayOff /\ TapesOff /\ HistoryOff
  \/ part = "tapes" /\ Tapes!Init /\ GatewayOff /\ WalksOff /\ HistoryOff
  \/ part = "history" /\ History!Init /\ GatewayOff /\ WalksOff /\ TapesOff

Next ==
  /\ UNCHANGED part
  /\ \/ part = "gateway" /\ Gateway!Next /\ UNCHANGED <<walks, tapes, history>>
     \/ part = "walks" /\ Walks!Next /\ UNCHANGED <<gateway, tapes, history>>
     \/ part = "tapes" /\ Tapes!Next /\ UNCHANGED <<gateway, walks, history>>
     \/ part = "history" /\ History!Next /\ UNCHANGED <<gateway, walks, tapes>>

Spec == Init /\ [][Next]_vars

-----------------------------------------------------------------------------
(* Rate limiter of agent/omnichannel.py: see Omnichannel. *)
BurstsAreBounded == part = "gateway" => Gateway!BurstsAreBounded
PatienceIsServed == part = "gateway" => Gateway!PatienceIsServed

(* Conversation files of agent/omnichannel.py: see Omnichannel. *)
RowsLostByOverlapOnly == part = "gateway" => Gateway!RowsLostByOverlapOnly

(* Paginated calls of netclient.py: see Pagination. *)
EndsAsTheSite == part = "walks" => Walks!EndsAsTheSite

(* Replays of cassette.py: see Cassette. *)
ReplayIsSound == part = "tapes" => Tapes!ReplayIsSound
ReplayReproduces == part = "tapes" => Tapes!ReplayReproduces

(* Run directories of ops/ops.py: see OpsHistory. *)
SameWork == part = "history" => History!SameWork
LastRunIsKept == part = "history" => History!LastRunIsKept
=============================================================================
