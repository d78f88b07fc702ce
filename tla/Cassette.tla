------------------------------ MODULE Cassette ------------------------------
(***************************************************************************)
(* Recording and replaying HTTP exchanges: src/sdetkit/cassette.py, as the *)
(* two commands use it, `sdetkit apiget` with SDETKIT_CASSETTE             *)
(* (src/sdetkit/apiget.py) and `sdetkit cassette-get`                      *)
(* (src/sdetkit/cassette_get.py).                                          *)
(*                                                                         *)
(* A process runs one command after the other against one cassette file; a *)
(* command is a sequence of attempts on the pages of a URL, answered by    *)
(* the network (and recorded) or by the cassette.  apiget saves in place   *)
(* when its client is closed, whatever happened before; cassette-get       *)
(* replaces the file, and only after a success.                            *)
(***************************************************************************)
EXTENDS Naturals, Sequences

CONSTANTS Process,
          Url,
          Body,         \* what a page may hold; the server changes it at will
          Encoding,     \* subset of BOOLEAN: TRUE is a compressed answer
          MaxPages,     \* --max-pages
          MaxRedirects, \* httpx follows no more in one attempt
          MaxAttempts,  \* bound: values of --retries
          MaxTape       \* bound: exchanges on the cassette and recorded anew

ConstantsOK ==
  /\ Encoding \subseteq BOOLEAN /\ MaxPages \in Nat \ {0} /\ MaxAttempts \in Nat \ {0}
  /\ MaxRedirects \in Nat /\ MaxTape \in Nat

VARIABLES file,      \* the cassette: Absent, Torn or a recording
          run,       \* per process, the command it runs
          overlapped,\* history: two commands ran at once
          disturbed  \* history: an apiget was killed saving, or could not

vars == <<file, run, overlapped, disturbed>>

(* --retry-429 is given; `follow` is --paginate, `redirects` is            *)
(* --follow-redirects.                                                     *)
Command ==
  [tool : {"apiget"}, mode : {"auto", "record", "replay"}, url : Url,
   follow : BOOLEAN, redirects : BOOLEAN, retries : 1..MaxAttempts]
  \cup
  [tool : {"cassette-get"}, mode : {"record", "record --force", "replay"},
   url : Url, follow : {FALSE}, redirects : BOOLEAN, retries : {1}]

(* What makes two commands send the same requests.                         *)
Requests == [url : Url, follow : BOOLEAN, redirects : BOOLEAN, retries : 1..MaxAttempts]

RequestOf(c) ==
  [url |-> c.url, follow |-> c.follow, redirects |-> c.redirects, retries |-> c.retries]

(* A page is asked for at its own URL, or where a redirect led, which may  *)
(* be its own URL again.                                                   *)
Place == {"start", "elsewhere"}

(* What an answer other than 2xx holds is not looked at.                   *)
Response ==
  [status : {"ok"}, body : Body, last : BOOLEAN, zip : Encoding]
  \cup [status : {"busy", "bad"}, zip : Encoding]
  \cup [status : {"redirect"}, to : Place, zip : Encoding]

Interaction == [url : Url, page : 1..MaxPages, place : Place, resp : Response]

(* A recording is its interactions; the other fields are history, of the   *)
(* command that made it: what it asked for, whether it succeeded, with     *)
(* what, and whether it tried again after a request error that followed a  *)
(* redirect.                                                               *)
Recording ==
  [tape : Seq(Interaction), by : Requests, ok : BOOLEAN, got : Seq(Body),
   interrupted : BOOLEAN]

Absent == [is |-> "absent"]
Torn == [is |-> "torn"]
Saved == file \notin {Absent, Torn}
OnFile == IF Saved THEN Len(file.tape) ELSE 0

Idle == [at |-> "idle"]

Runs ==
  [at : {"record", "replay", "close", "saving", "done"},
   recording : BOOLEAN,
   cmd : Command,
   tape : Seq(Interaction),  \* recorded so far, or loaded
   i : Nat,                  \* the replay cursor _i
   attempt : 0..MaxAttempts - 1,
   hops : 0..MaxRedirects,   \* redirects followed in this attempt
   place : Place,
   got : Seq(Body),          \* pages received
   ok : BOOLEAN,
   interrupted : BOOLEAN,    \* history
   source : Recording \cup {Absent}, \* history: what was loaded
   found : BOOLEAN]          \* history: there was a file when it started

Init ==
  /\ file = Absent
  /\ run = [p \in Process |-> Idle]
  /\ overlapped = FALSE
  /\ disturbed = FALSE

PageNo(r) == Len(r.got) + 1

(***************************************************************************)
(* The client (netclient.py), for one attempt.                             *)
(***************************************************************************)
Ended(r, ok) == [r EXCEPT !.at = "close", !.ok = ok]

FirstHop(r) == [r EXCEPT !.hops = 0, !.place = "start"]

(* A request error, or a 429: another attempt if one is left.              *)
AgainOrFail(r) ==
  IF r.attempt + 1 < r.cmd.retries THEN [FirstHop(r) EXCEPT !.attempt = @ + 1]
  ELSE Ended(r, FALSE)

(* Too many redirects are a request error.                                 *)
Redirected(r, place) ==
  IF r.hops < MaxRedirects THEN [r EXCEPT !.hops = @ + 1, !.place = place]
  ELSE AgainOrFail(r)

WithPage(r, body) == [FirstHop(r) EXCEPT !.got = Append(@, body), !.attempt = 0]

Received(r, resp) ==
  CASE resp.status = "busy" -> AgainOrFail(r)
    [] resp.status = "redirect" /\ r.cmd.redirects -> Redirected(r, resp.to)
    [] resp.status = "bad" \/ (resp.status = "redirect" /\ ~r.cmd.redirects) ->
         Ended(r, FALSE)
    [] resp.status = "ok" /\ (resp.last \/ ~r.cmd.follow) ->
         Ended(WithPage(r, resp.body), TRUE)
    [] resp.status = "ok" /\ ~resp.last /\ r.cmd.follow /\ PageNo(r) = MaxPages ->
         Ended(WithPage(r, resp.body), FALSE)   \* pagination limit exceeded
    [] OTHER -> WithPage(r, resp.body)

(***************************************************************************)
(* Opening: open_transport, and the two branches of cassette_get.          *)
(***************************************************************************)
Replays(c) == c.mode = "replay" \/ (c.mode = "auto" /\ file # Absent)

(* auto becomes one of the others. *)
Resolved(c) ==
  IF c.mode # "auto" THEN c
  ELSE [c EXCEPT !.mode = IF Replays(c) THEN "replay" ELSE "record"]

Opened(c, at, tape, source) ==
  [at |-> at, recording |-> ~Replays(c), cmd |-> Resolved(c), tape |-> tape, i |-> 0,
   attempt |-> 0, hops |-> 0, place |-> "start", got |-> <<>>, ok |-> FALSE,
   interrupted |-> FALSE, source |-> source,
   found |-> file # Absent]

Refuses(c) ==
  \/ Replays(c) /\ ~Saved          \* not found, or JSON that does not parse
  \/ c.tool = "cassette-get" /\ c.mode = "record" /\ file # Absent

Open(p, c) ==
  /\ run[p] = Idle
  /\ Refuses(c) \/ Replays(c) \/ OnFile < MaxTape
  /\ run' = [run EXCEPT ![p] =
       IF Refuses(c) THEN Opened(c, "done", <<>>, Absent)
       ELSE IF Replays(c) THEN Opened(c, "replay", file.tape, file)
       ELSE Opened(c, "record", <<>>, Absent)]
  /\ overlapped' = (overlapped \/ \E q \in Process : run[q] # Idle)
  /\ UNCHANGED <<file, disturbed>>

(***************************************************************************)
(* Recording: CassetteRecordTransport.handle_request.                      *)
(***************************************************************************)
Set(p, r) ==
  /\ run' = [run EXCEPT ![p] = r]
  /\ UNCHANGED <<file, overlapped, disturbed>>

(* The client asks for a page, or for what a redirect led to.              *)
Taped(r, resp) ==
  [r EXCEPT !.tape = Append(@, [url |-> r.cmd.url, page |-> PageNo(r), place |-> r.place,
                                resp |-> resp])]

Answered(p, resp) ==
  /\ run[p].at = "record"
  /\ OnFile + Len(run[p].tape) < MaxTape
  /\ Set(p, Received(Taped(run[p], resp), resp))

(* Another attempt starts from the page's own URL, while what was answered *)
(* before the error stays on the tape.                                     *)
Interrupted(r) == r.hops > 0 /\ r.attempt + 1 < r.cmd.retries

RequestError(p) ==
  /\ run[p].at = "record"
  /\ Set(p, [AgainOrFail(run[p]) EXCEPT !.interrupted = @ \/ Interrupted(run[p])])

TimedOut(p) ==
  /\ run[p].at = "record"
  /\ Set(p, Ended(run[p], FALSE))

(***************************************************************************)
(* Replaying: CassetteReplayTransport.handle_request.                      *)
(***************************************************************************)
Exhausted(r) == r.i = Len(r.tape)
Next1(r) == r.tape[r.i + 1]
Matches(r) ==
  /\ ~Exhausted(r)
  /\ Next1(r).url = r.cmd.url /\ Next1(r).page = PageNo(r) /\ Next1(r).place = r.place

(* Mutant: the cursor stays. *)
PlayedAgain(r) == r

Played(r) == [r EXCEPT !.i = @ + 1]

(* The RuntimeErrors "cassette mismatch" end the command.                  *)
Mismatch(p) ==
  /\ run[p].at = "replay"
  /\ ~Matches(run[p])
  /\ Set(p, Ended(IF Exhausted(run[p]) THEN run[p] ELSE Played(run[p]), FALSE))

Replay(p) ==
  /\ run[p].at = "replay"
  /\ Matches(run[p])
  /\ ~Next1(run[p]).resp.zip
  /\ Set(p, Received(Played(run[p]), Next1(run[p]).resp))

(* append keeps the decoded body with the headers as they came, so httpx,  *)
(* building the answer, decodes it again: a DecodingError, which the       *)
(* client takes for a request error.                                       *)
Undecodable(p) ==
  /\ run[p].at = "replay"
  /\ Matches(run[p])
  /\ Next1(run[p]).resp.zip
  /\ Set(p, AgainOrFail(Played(run[p])))

(***************************************************************************)
(* Closing the client, and what follows.                                   *)
(***************************************************************************)
Recorded(r) ==
  [tape |-> r.tape, by |-> RequestOf(r.cmd), ok |-> r.ok, got |-> r.got,
   interrupted |-> r.interrupted]

(* Mutant: without assert_exhausted. *)
CloseQuietly(p) ==
  /\ run[p].at = "close"
  /\ ~run[p].recording
  /\ Set(p, [run[p] EXCEPT !.at = "done"])

(* assert_exhausted, also when the command already failed.                 *)
CloseReplay(p) ==
  /\ run[p].at = "close"
  /\ ~run[p].recording
  /\ Set(p, [run[p] EXCEPT !.at = "done", !.ok = @ /\ Exhausted(run[p])])

CloseUnsaved(p) ==
  /\ run[p].at = "close"
  /\ run[p].recording
  /\ run[p].tape = <<>> \/ (run[p].cmd.tool = "cassette-get" /\ ~run[p].ok)
  /\ Set(p, [run[p] EXCEPT !.at = "done"])

(* cassette-get: atomic_write_text.                                        *)
ReplaceFile(p) ==
  /\ run[p].at = "close"
  /\ run[p].recording
  /\ run[p].ok
  /\ run[p].cmd.tool = "cassette-get"
  /\ file' = Recorded(run[p])
  /\ run' = [run EXCEPT ![p].at = "done"]
  /\ UNCHANGED <<overlapped, disturbed>>

(* The file, or its directory, cannot be written: it is as it was, or, if   *)
(* only the directory cannot be synced, replaced all the same.              *)
ReplaceFails(p) ==
  /\ run[p].at = "close"
  /\ run[p].recording
  /\ run[p].ok
  /\ run[p].cmd.tool = "cassette-get"
  /\ file' \in {file, Recorded(run[p])}
  /\ run' = [run EXCEPT ![p].at = "done", ![p].ok = FALSE]
  /\ UNCHANGED <<overlapped, disturbed>>

(* apiget: the directory cannot be made, or the file not opened.           *)
SaveRefused(p) ==
  /\ run[p].at = "close"
  /\ run[p].recording
  /\ run[p].tape # <<>>
  /\ run[p].cmd.tool = "apiget"
  /\ Set(p, [run[p] EXCEPT !.at = "done", !.ok = FALSE])

(* apiget: Cassette.save writes in place, first truncating the file.       *)
SaveBegins(p) ==
  /\ run[p].at = "close"
  /\ run[p].recording
  /\ run[p].tape # <<>>
  /\ run[p].cmd.tool = "apiget"
  /\ file' = Torn
  /\ run' = [run EXCEPT ![p].at = "saving"]
  /\ UNCHANGED <<overlapped, disturbed>>

(* If another command wrote since, the two writes may mix, or go to a file *)
(* that has been replaced.                                                 *)
SaveEnds(p) ==
  /\ run[p].at = "saving"
  /\ file' \in IF file = Torn THEN {Recorded(run[p])}
              ELSE {Recorded(run[p]), Torn, file}
  /\ run' = [run EXCEPT ![p].at = "done"]
  /\ UNCHANGED <<overlapped, disturbed>>

(* The write fails after the truncation. *)
SaveFails(p) ==
  /\ run[p].at = "saving"
  /\ run' = [run EXCEPT ![p].at = "done", ![p].ok = FALSE]
  /\ disturbed' = TRUE
  /\ UNCHANGED <<file, overlapped>>

Exit(p) ==
  /\ run[p].at = "done"
  /\ Set(p, Idle)

Kill(p) ==
  /\ run[p] # Idle
  /\ run' = [run EXCEPT ![p] = Idle]
  /\ disturbed' =
       (disturbed \/ (run[p].at = "saving" /\ run[p].cmd.tool = "apiget"))
  /\ UNCHANGED <<file, overlapped>>

(* Somebody removes the cassette to record anew.                           *)
Remove ==
  /\ file # Absent
  /\ \A p \in Process : run[p] = Idle
  /\ file' = Absent
  /\ disturbed' = FALSE
  /\ UNCHANGED <<run, overlapped>>

Next ==
  \/ \E p \in Process :
       \/ \E c \in Command : Open(p, c)
       \/ \E resp \in Response : Answered(p, resp)
       \/ RequestError(p) \/ TimedOut(p)
       \/ Mismatch(p) \/ Replay(p) \/ Undecodable(p)
       \/ CloseReplay(p) \/ CloseUnsaved(p) \/ ReplaceFile(p)
       \/ ReplaceFails(p) \/ SaveRefused(p)
       \/ SaveBegins(p) \/ SaveEnds(p) \/ SaveFails(p)
       \/ Exit(p) \/ Kill(p)
  \/ Remove

Spec == Init /\ [][Next]_vars
-----------------------------------------------------------------------------
TypeOK ==
  /\ file \in {Absent, Torn} \cup Recording
  /\ run \in [Process -> {Idle} \cup Runs]
  /\ overlapped \in BOOLEAN
  /\ disturbed \in BOOLEAN

ReplayOf(p) ==
  run[p] # Idle /\ run[p].at = "done" /\ ~run[p].recording /\ run[p].source # Absent

(* A replay that succeeds returns exactly the pages that the recording     *)
(* command received, of the same URL: none of another request, none left   *)
(* out, none twice, whatever was retried in between.  This is what the     *)
(* keys compared in handle_request and assert_exhausted in close are for.  *)
ReplayIsSound ==
  \A p \in Process : ReplayOf(p) /\ run[p].ok =>
    /\ run[p].source.by.url = run[p].cmd.url
    /\ run[p].source.got = run[p].got

(* A replay of the same requests ends as the recording did, request errors *)
(* and retries, which are not recorded as such, included, if no answer was *)
(* compressed and no request error behind a redirect made the recording    *)
(* ask for the page's own URL once more.  In particular a recording that   *)
(* failed, if only for a moment's trouble, is replayed as a failure until  *)
(* the file is removed.                                                    *)
ReplayReproduces ==
  \A p \in Process :
    /\ ReplayOf(p) /\ RequestOf(run[p].cmd) = run[p].source.by
    /\ \A i \in DOMAIN run[p].source.tape : ~run[p].source.tape[i].resp.zip
    /\ ~run[p].source.interrupted
    => run[p].ok = run[p].source.ok

(* src/sdetkit/sdet_package.py:44, "cassette-based API replay to remove    *)
(* flakiness": the same, whatever the answers were.                        *)
ReplayAlwaysReproduces ==
  \A p \in Process :
    ReplayOf(p) /\ RequestOf(run[p].cmd) = run[p].source.by =>
      run[p].ok = run[p].source.ok

(* An unreadable cassette is the work of an apiget killed while saving, of *)
(* a save that failed, or of two commands at once; cassette-get, which     *)
(* replaces the file, leaves none.                                         *)
TornBySavingInPlace ==
  file = Torn =>
    \/ disturbed \/ overlapped
    \/ \E p \in Process : run[p] # Idle /\ run[p].at = "saving"

(* A command in auto mode, or a cassette-get --record without --force,     *)
(* that found a cassette, readable or not, never changes it.               *)
Protective(c) ==
  c.mode = "replay" \/ (c.tool = "cassette-get" /\ c.mode = "record")

FoundIsKept ==
  [][\A p \in Process :
       run[p] # Idle /\ run'[p] # run[p] /\ run[p].found /\ Protective(run[p].cmd)
         => file' = file]_vars
=============================================================================
