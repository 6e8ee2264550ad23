-------------------------- MODULE SessionRecording --------------------------
(***************************************************************************)
(* The channels of one recorded session, its .cast file and its upload.    *)
(*                                                                         *)
(* handleConn opens the recording, proxies session channels one after the  *)
(* other, ends the session row, hands the file to a detached upload        *)
(* goroutine and closes the recording last.  proxySession runs one         *)
(* goroutine per direction and stream; it waits for the stdin and stdout   *)
(* copies and for the target's requests, but not for the stderr copy.  The *)
(* upload goroutine stores the playback URL and may delete the local file. *)
(*                                                                         *)
(* Output is written to the user and then to the recording                 *)
(* (io.MultiWriter).  A write to the user can take as long as the user's   *)
(* window is full, and when the user's side goes away meanwhile, part of   *)
(* the chunk may have arrived and none of it is recorded.  A user may      *)
(* close one channel and keep the connection.  Any database call, the      *)
(* upload and each write to the file may fail, and the broker may die at   *)
(* any moment.                                                             *)
(*                                                                         *)
(* Abstracted: a chunk of output is its position in its stream; the bytes  *)
(* of stdin, channel requests that start nothing, and file names.          *)
(***************************************************************************)
EXTENDS Naturals, FiniteSets

CONSTANTS
  MaxChannels,       \* bound: session channels opened on the connection
  MaxChunks,         \* bound: chunks the target sends on the connection
  Caps,              \* what the Decision allows: of "shell", "exec", "sftp"
  UploadEnabled,     \* an asciinema server is configured
  DeleteAfterUpload  \* the local file is deleted after a successful upload

ASSUME BoundsAssumption == MaxChannels \in Nat /\ MaxChunks \in Nat
ASSUME UploadAssumption == UploadEnabled \in BOOLEAN /\ DeleteAfterUpload \in BOOLEAN

Chs == 1..MaxChannels
Streams == {"stdout", "stderr"}
Chunks == Chs \X Streams \X (0..MaxChunks)

\* What a user may ask a channel to start; only sftp is a known subsystem.
Programs == {"shell", "exec", "sftp", "other subsystem"}

ASSUME CapsAssumption == Caps \subseteq {"shell", "exec", "sftp"}

VARIABLES
  h,         \* where the handler is
  ch,        \* channels opened so far; the last one is being proxied
  conn,      \* the user connection is up
  userCh,    \* the user side of each channel: "none" (not opened), "open",
             \* "left" (by the user or with the connection) or "closed" by the broker
  launched,  \* the program each channel's target was asked to start
  stdin,     \* the stdin copy of each channel
  copier,    \* the stdout and stderr copies
  sent,      \* chunks the target has sent
  shown,     \* chunks whose write to the user was begun
  target,    \* the target side of each channel: "open", "eof" (no more data) or "closed"
  exit,      \* the exit-status request of each channel
  rec,       \* the recording: "none" (not opened), "open" or "closed"
  cast,      \* chunks written to the .cast file
  local,     \* the recording's file is in its directory
  uploaded,  \* what the uploader read from the file
  up,        \* where the upload goroutine is
  ref, url,  \* sessions.recording_ref and recording_url are set
  damage     \* history: faults among "disk", "db", "crash"

chanVars == <<userCh, launched, stdin, copier, sent, shown, target, exit>>
fileVars == <<cast, local>>
upVars == <<uploaded, up, url>>
vars == <<h, ch, conn, chanVars, rec, fileVars, upVars, ref, damage>>

TypeOK ==
  /\ h \in {"open", "loop", "proxying", "draining", "end", "ref", "close", "done", "gone"}
  /\ ch \in 0..MaxChannels
  /\ conn \in BOOLEAN
  /\ userCh \in [Chs -> {"none", "open", "left", "closed"}]
  /\ target \in [Chs -> {"open", "eof", "closed"}]
  /\ launched \in [Chs -> Programs \cup {"none"}]
  /\ stdin \in [Chs -> {"off", "copy", "done"}]
  /\ copier \in [Chs -> [Streams -> {"off", "read", "write", "record", "done", "cut"}]]
  /\ sent \in [Chs -> [Streams -> 0..MaxChunks]]
  /\ shown \in [Chs -> [Streams -> 0..MaxChunks]]
  /\ exit \in [Chs -> {"none", "sent", "forwarded", "dropped"}]
  /\ rec \in {"none", "open", "closed"}
  /\ cast \subseteq Chunks /\ uploaded \subseteq Chunks
  /\ up \in {"off", "upload", "store", "remove", "done"}
  /\ local \in BOOLEAN /\ ref \in BOOLEAN /\ url \in BOOLEAN
  /\ damage \subseteq {"disk", "db", "crash"}

Everywhere(v) == [c \in Chs |-> v]
OnStreams(v) == [s \in Streams |-> v]

Init ==
  /\ h = "open" /\ ch = 0 /\ conn = TRUE
  /\ userCh = Everywhere("none") /\ target = Everywhere("open")
  /\ launched = Everywhere("none")
  /\ stdin = Everywhere("off")
  /\ copier = Everywhere(OnStreams("off"))
  /\ sent = Everywhere(OnStreams(0)) /\ shown = Everywhere(OnStreams(0))
  /\ exit = Everywhere("none")
  /\ rec = "none" /\ cast = {} /\ local = FALSE
  /\ uploaded = {} /\ up = "off" /\ ref = FALSE /\ url = FALSE
  /\ damage = {}

\* The stdout copy of a channel has returned, and has sent the user EOF.
CopyOver(c) == copier[c]["stdout"] \in {"done", "cut"}

\* The user's side goes, unless the broker has closed it before.
Left(st) == IF st = "open" THEN "left" ELSE st

-----------------------------------------------------------------------------
(* The handler *)

\* FileRecorder.Open; on an error the session goes on unrecorded, and nothing
\* ever refers to a file that was created before its header failed.
OpenRecording ==
  /\ h = "open"
  /\ h' = "loop"
  /\ \/ rec' = "open" /\ local' = TRUE /\ UNCHANGED damage
     \/ UNCHANGED <<rec, local>> /\ damage' = damage \cup {"disk"}
  /\ UNCHANGED <<ch, conn, chanVars, cast, upVars, ref>>

\* handleSession accepted a session channel and opened one on the target;
\* proxySession starts its goroutines.
OpenChannel ==
  /\ h = "loop" /\ conn
  /\ ch < MaxChannels
  /\ h' = "proxying"
  /\ ch' = ch + 1
  /\ userCh' = [userCh EXCEPT ![ch'] = "open"]
  /\ stdin' = [stdin EXCEPT ![ch'] = "copy"]
  /\ copier' = [copier EXCEPT ![ch'] = OnStreams("read")]
  /\ UNCHANGED <<conn, launched, sent, shown, target, exit, rec, fileVars, upVars, ref, damage>>

\* Mutant: the stdout copy is left out of the wait group as well.
CopiesDone_StdinOnly ==
  /\ h = "proxying"
  /\ stdin[ch] = "done"
  /\ h' = "draining"
  /\ UNCHANGED <<ch, conn, chanVars, rec, fileVars, upVars, ref, damage>>

\* wg.Wait returned (the stderr copy is not in the group): target.Close.
CopiesDone ==
  /\ h = "proxying"
  /\ stdin[ch] = "done" /\ CopyOver(ch)
  /\ h' = "draining"
  /\ UNCHANGED <<ch, conn, chanVars, rec, fileVars, upVars, ref, damage>>

\* Mutant: user.Close without waiting for the target's requests.
CloseChannel_NoDrain ==
  /\ h = "draining"
  /\ h' = "loop"
  /\ userCh' = [userCh EXCEPT ![ch] = IF @ = "open" THEN "closed" ELSE @]
  /\ UNCHANGED <<ch, conn, launched, stdin, copier, sent, shown, target, exit, rec, fileVars,
                 upVars, ref, damage>>

\* targetDone: every request of the target is handled.  user.Close.
CloseChannel ==
  /\ h = "draining"
  /\ target[ch] = "closed" /\ exit[ch] # "sent"
  /\ h' = "loop"
  /\ userCh' = [userCh EXCEPT ![ch] = IF @ = "open" THEN "closed" ELSE @]
  /\ UNCHANGED <<ch, conn, launched, stdin, copier, sent, shown, target, exit, rec, fileVars,
                 upVars, ref, damage>>

LeaveLoop ==
  /\ h = "loop" /\ ~conn
  /\ h' = "end"
  /\ UNCHANGED <<ch, conn, chanVars, rec, fileVars, upVars, ref, damage>>

\* EndSession ends the row.  Without a recording there is nothing to refer to;
\* after an error it returns at once, with no reference and no upload.
EndRow ==
  /\ h = "end"
  /\ \/ h' = (IF rec = "none" THEN "close" ELSE "ref") /\ UNCHANGED damage
     \/ h' = "close" /\ damage' = damage \cup {"db"}
  /\ UNCHANGED <<ch, conn, chanVars, rec, fileVars, upVars, ref>>

\* Mutant: a configured upload takes the place of the reference.
SetRefAndUpload_Instead ==
  /\ h = "ref"
  /\ h' = "close"
  /\ ref' = (ref \/ ~UploadEnabled)
  /\ up' = IF UploadEnabled THEN "upload" ELSE up
  /\ UNCHANGED <<ch, conn, chanVars, rec, fileVars, uploaded, url, damage>>

\* SetSessionRecordingRef, whose error is only logged, and the upload starts.
SetRefAndUpload ==
  /\ h = "ref"
  /\ h' = "close"
  /\ \/ ref' = TRUE /\ UNCHANGED damage
     \/ ref' \in {ref, TRUE} /\ damage' = damage \cup {"db"}
  /\ up' = IF UploadEnabled THEN "upload" ELSE up
  /\ UNCHANGED <<ch, conn, chanVars, rec, fileVars, uploaded, url>>

\* The deferred recording.Close.
CloseRecording ==
  /\ h = "close"
  /\ h' = "done"
  /\ rec' = IF rec = "open" THEN "closed" ELSE rec
  /\ UNCHANGED <<ch, conn, chanVars, fileVars, upVars, ref, damage>>

-----------------------------------------------------------------------------
(* The goroutines of a channel *)

\* Requests that start a program are gated by the Decision.
Permitted(program) == program \in Caps

ForwardUserRequest(c, program) ==
  /\ h = "proxying" /\ c = ch
  /\ launched[c] = "none" /\ target[c] = "open"
  /\ Permitted(program)
  /\ launched' = [launched EXCEPT ![c] = program]
  /\ UNCHANGED <<h, ch, conn, userCh, stdin, copier, sent, shown, target, exit, rec, fileVars,
                 upVars, ref, damage>>

\* The user sent EOF or is gone.
StdinDone(c) ==
  /\ stdin[c] = "copy"
  /\ stdin' = [stdin EXCEPT ![c] = "done"]
  /\ UNCHANGED <<h, ch, conn, userCh, launched, copier, sent, shown, target, exit, rec, fileVars,
                 upVars, ref, damage>>

\* A write to a user who is gone, or after the EOF that follows the last of
\* standard output, fails without a byte.
Writable(c) == userCh[c] = "open" /\ ~CopyOver(c)

\* One read from the target; the write to the user begins, or fails at once and
\* ends the copy.
CopyToUser(c, s) ==
  /\ copier[c][s] = "read"
  /\ shown[c][s] < sent[c][s]
  /\ IF Writable(c)
       THEN /\ shown' = [shown EXCEPT ![c][s] = @ + 1]
            /\ copier' = [copier EXCEPT ![c][s] = "write"]
       ELSE copier' = [copier EXCEPT ![c][s] = "done"] /\ UNCHANGED shown
  /\ UNCHANGED <<h, ch, conn, userCh, launched, stdin, sent, target, exit, rec, fileVars, upVars,
                 ref, damage>>

\* The write to the user returned: the whole chunk is out, or the user's side
\* went away with part of it and the copy ends without recording any.
WriteReturns(c, s, to) ==
  /\ copier[c][s] = "write"
  /\ to = "cut" => userCh[c] # "open"
  /\ copier' = [copier EXCEPT ![c][s] = to]
  /\ UNCHANGED <<h, ch, conn, userCh, launched, stdin, sent, shown, target, exit, rec, fileVars,
                 upVars, ref, damage>>

\* castRecording.Output: nothing once closed; an encoding error is ignored.
Output(c, s) ==
  /\ copier[c][s] = "record"
  /\ copier' = [copier EXCEPT ![c][s] = "read"]
  /\ \/ rec = "open" /\ cast' = cast \cup {<<c, s, shown[c][s]>>} /\ UNCHANGED damage
     \/ rec = "open" /\ UNCHANGED cast /\ damage' = damage \cup {"disk"}
     \/ rec # "open" /\ UNCHANGED <<cast, damage>>
  /\ UNCHANGED <<h, ch, conn, userCh, launched, stdin, sent, shown, target, exit, rec, local,
                 upVars, ref>>

\* Mutant: the end of output is noticed only while the user is there.
CopyEOF_UserThere(c, s) ==
  /\ copier[c][s] = "read"
  /\ shown[c][s] = sent[c][s] /\ target[c] # "open" /\ userCh[c] = "open"
  /\ copier' = [copier EXCEPT ![c][s] = "done"]
  /\ UNCHANGED <<h, ch, conn, userCh, launched, stdin, sent, shown, target, exit, rec, fileVars,
                 upVars, ref, damage>>

CopyEOF(c, s) ==
  /\ copier[c][s] = "read"
  /\ shown[c][s] = sent[c][s] /\ target[c] # "open"
  /\ copier' = [copier EXCEPT ![c][s] = "done"]
  /\ UNCHANGED <<h, ch, conn, userCh, launched, stdin, sent, shown, target, exit, rec, fileVars,
                 upVars, ref, damage>>

\* The target's exit-status, passed on to the user channel.
ForwardExit(c) ==
  /\ exit[c] = "sent"
  /\ exit' = [exit EXCEPT ![c] = IF userCh[c] = "open" THEN "forwarded" ELSE "dropped"]
  /\ UNCHANGED <<h, ch, conn, userCh, launched, stdin, copier, sent, shown, target, rec, fileVars,
                 upVars, ref, damage>>

-----------------------------------------------------------------------------
(* The peers *)

AllSent == {x \in Chunks : x[3] > 0 /\ x[3] <= sent[x[1]][x[2]]}

TargetSends(c, s) ==
  /\ launched[c] # "none" /\ target[c] = "open"
  /\ sent[c][s] < MaxChunks /\ Cardinality(AllSent) < MaxChunks
  /\ sent' = [sent EXCEPT ![c][s] = @ + 1]
  /\ UNCHANGED <<h, ch, conn, userCh, launched, stdin, copier, shown, target, exit, rec, fileVars,
                 upVars, ref, damage>>

TargetExits(c) ==
  /\ launched[c] # "none" /\ target[c] # "closed" /\ exit[c] = "none"
  /\ exit' = [exit EXCEPT ![c] = "sent"]
  /\ UNCHANGED <<h, ch, conn, userCh, launched, stdin, copier, sent, shown, target, rec, fileVars,
                 upVars, ref, damage>>

\* The target ends its output (which an exit-status may still follow), closes
\* the channel, or its connection is lost or closed.
TargetEnds(c, how) ==
  /\ c <= ch
  /\ \/ target[c] = "open"
     \/ target[c] = "eof" /\ how = "closed"
  /\ target' = [target EXCEPT ![c] = how]
  /\ UNCHANGED <<h, ch, conn, userCh, launched, stdin, copier, sent, shown, exit, rec, fileVars,
                 upVars, ref, damage>>

\* The user closes one channel and keeps the connection.
UserClosesChannel(c) ==
  /\ userCh[c] = "open"
  /\ userCh' = [userCh EXCEPT ![c] = "left"]
  /\ UNCHANGED <<h, ch, conn, launched, stdin, copier, sent, shown, target, exit, rec, fileVars,
                 upVars, ref, damage>>

\* The user's connection ends, by the user, the network or a kill.
UserGone ==
  /\ conn
  /\ conn' = FALSE
  /\ userCh' = [c \in Chs |-> Left(userCh[c])]
  /\ UNCHANGED <<h, ch, launched, stdin, copier, sent, shown, target, exit, rec, fileVars, upVars,
                 ref, damage>>

-----------------------------------------------------------------------------
(* The upload goroutine *)

\* asciinema reads the file as it is now and reports a URL, or fails.
Upload ==
  /\ up = "upload"
  /\ \/ up' = "store" /\ uploaded' = cast
     \/ up' = "done" /\ UNCHANGED uploaded
  /\ UNCHANGED <<h, ch, conn, chanVars, rec, fileVars, url, ref, damage>>

\* Mutant: the file is deleted although its URL could not be stored.
StoreURL_DeleteAnyway ==
  /\ up = "store"
  /\ url' \in {url, TRUE}
  /\ up' = IF DeleteAfterUpload THEN "remove" ELSE "done"
  /\ UNCHANGED <<h, ch, conn, chanVars, rec, fileVars, uploaded, ref, damage>>

\* SetSessionRecordingURL; on an error (its UPDATE may be committed) the file stays.
StoreURL ==
  /\ up = "store"
  /\ \/ url' = TRUE /\ up' = (IF DeleteAfterUpload THEN "remove" ELSE "done")
     \/ url' \in {url, TRUE} /\ up' = "done"
  /\ UNCHANGED <<h, ch, conn, chanVars, rec, fileVars, uploaded, ref, damage>>

RemoveLocal ==
  /\ up = "remove"
  /\ up' = "done"
  /\ local' \in {FALSE, local}
  /\ UNCHANGED <<h, ch, conn, chanVars, rec, cast, uploaded, url, ref, damage>>

-----------------------------------------------------------------------------

\* The broker dies: goroutines, connections and the open file handle go.
Crash ==
  /\ h # "gone"
  /\ h' = "gone"
  /\ conn' = FALSE /\ userCh' = [c \in Chs |-> Left(userCh[c])]
  /\ target' = Everywhere("closed")
  /\ stdin' = Everywhere("off") /\ copier' = Everywhere(OnStreams("off"))
  /\ exit' = [c \in Chs |-> IF exit[c] = "sent" THEN "dropped" ELSE exit[c]]
  /\ rec' = IF rec = "open" THEN "closed" ELSE rec
  /\ up' = "done"
  /\ damage' = damage \cup {"crash"}
  /\ UNCHANGED <<ch, launched, sent, shown, fileVars, uploaded, url, ref>>

Handler ==
  \/ OpenRecording \/ CopiesDone \/ CloseChannel \/ LeaveLoop
  \/ EndRow \/ SetRefAndUpload \/ CloseRecording

Goroutine(c) ==
  \E s \in Streams : CopyToUser(c, s) \/ Output(c, s) \/ CopyEOF(c, s)

\* What takes as long as the user does not read.
ToUser(c) ==
  \/ \E s \in Streams, to \in {"record", "cut"} : WriteReturns(c, s, to)
  \/ ForwardExit(c)

Peers(c) ==
  \/ \E p \in Programs : ForwardUserRequest(c, p)
  \/ StdinDone(c) \/ UserClosesChannel(c)
  \/ \E s \in Streams : TargetSends(c, s)
  \/ TargetExits(c) \/ \E how \in {"eof", "closed"} : TargetEnds(c, how)

Uploader == Upload \/ StoreURL \/ RemoveLocal

Next ==
  \/ Handler \/ OpenChannel
  \/ \E c \in Chs : Goroutine(c) \/ ToUser(c) \/ Peers(c)
  \/ UserGone
  \/ Uploader
  \/ Crash

Spec == Init /\ [][Next]_vars

\* The handler and its goroutines run; writing to a user who is gone returns, and
\* so does the stdin copy between two sides that are gone.  Some goroutine that
\* can go on does; users, targets, the upload and crashes owe nothing.
Progress ==
  \/ Handler
  \/ \E c \in Chs :
       \/ Goroutine(c)
       \/ (userCh[c] = "left" \/ ~conn) /\ ToUser(c)
       \/ (userCh[c] = "left" \/ ~conn) /\ target[c] = "closed" /\ StdinDone(c)

FairSpec == Spec /\ WF_vars(Progress)

-----------------------------------------------------------------------------
(* Safety *)

Opened == rec # "none"

\* The chunks of standard output that the copy is done with: all it has begun to
\* write but the last one while that is on its way, or was cut short.
InFlight == {"write", "record", "cut"}
Passed(c) ==
  1..(IF copier[c]["stdout"] \in InFlight THEN shown[c]["stdout"] - 1 ELSE shown[c]["stdout"])

\* What somebody can still play: the local file, and the upload once its URL
\* is stored.
Playable == (IF local THEN cast ELSE {}) \cup (IF url THEN uploaded ELSE {})

\* Full recording: every chunk of standard output the user has seen can be
\* played back, also after the local file has been deleted, unless the disk
\* failed or the broker died.  The one exception is the last chunk of a channel
\* whose user side went away, before the broker closed it, in mid-write: what
\* arrived of it is not recorded.
StdoutIsKept ==
  Opened /\ damage \cap {"disk", "crash"} = {} =>
    \A c \in Chs :
      /\ \A n \in Passed(c) : <<c, "stdout", n>> \in Playable
      /\ copier[c]["stdout"] = "cut" => userCh[c] = "left"

\* Deletion fails closed: whatever failed, a recording whose local file is gone
\* has a stored URL, and all the standard output it held was uploaded.
RemovedIsUploaded ==
  Opened /\ ~local => url /\ \A x \in cast : x[2] = "stdout" => x \in uploaded

\* A finished recording can be found from its session row unless the database
\* failed: by its reference while the file is there, by its URL otherwise.
FinishedIsReachable ==
  h = "done" /\ Opened /\ "db" \notin damage => (ref /\ local) \/ url

\* The exit status a target has sent reaches the user before the user channel
\* is closed, in whatever order end of output, status and close arrive; it is
\* lost only when the user's side of the channel went away first, with the
\* connection or by itself.
ExitStatusDelivered ==
  \A c \in Chs :
    /\ exit[c] = "dropped" => userCh[c] = "left"
    /\ exit[c] = "sent" => userCh[c] # "closed"

\* Nothing comes back from a target but the output of a program that the grant
\* allows.
OutputIsPermitted ==
  \A c \in Chs, s \in Streams : sent[c][s] > 0 => launched[c] \in Caps

\* "uploads a finished .cast": what was uploaded is the whole recording.
UploadIsFinished == url => cast \subseteq uploaded

-----------------------------------------------------------------------------
(* The inductive invariant behind the safety properties *)

\* The handler waits for the stdout copy: it runs only for the current channel,
\* while that is being proxied, when the recording is not closed yet.
StdoutIsAwaited ==
  /\ \A c \in Chs :
       copier[c]["stdout"] \in {"read", "write", "record"} => h = "proxying" /\ c = ch
  /\ h \in {"loop", "proxying", "draining", "end", "ref", "close"} => rec # "closed"
  /\ h = "open" => rec = "none" /\ \A c \in Chs : shown[c]["stdout"] = 0

\* Nothing shown is missing from the file, wherever the file is.
StdoutIsRecorded ==
  Opened /\ damage \cap {"disk", "crash"} = {} =>
    \A c \in Chs : \A n \in Passed(c) : <<c, "stdout", n>> \in cast

\* The upload starts after the last channel, so it misses no standard output;
\* the URL follows the upload and the deletion follows the URL.
UploadInOrder ==
  /\ up # "off" => h \in {"close", "done", "gone"}
  /\ up \in {"store", "remove"} \/ url =>
       \A x \in cast : x[2] = "stdout" => x \in uploaded
  /\ up = "remove" => url
  /\ url => up # "off"
  /\ Opened /\ ~local => url

\* A channel that the broker has closed was closed by the target first, with its
\* exit status handled and its standard output copied; the broker closes none it
\* is still proxying.  One that was never opened runs nothing.
ChannelsSettled == \A c \in Chs :
  /\ c > ch => launched[c] = "none" /\ exit[c] = "none"
  /\ userCh[c] = "none" <=> c > ch
  /\ userCh[c] = "closed" => target[c] = "closed" /\ exit[c] # "sent"
  /\ c = ch /\ h \in {"proxying", "draining"} => userCh[c] # "closed"
  /\ exit[c] = "dropped" \/ copier[c]["stdout"] = "cut" => userCh[c] = "left"
  /\ launched[c] \in Caps \cup {"none"}
  /\ launched[c] = "none" => exit[c] = "none" /\ \A s \in Streams : sent[c][s] = 0

RefIsStored ==
  h \in {"close", "done"} /\ Opened /\ "db" \notin damage => ref

\* What the handler, its goroutines and the upload know of each other.
IndInv ==
  /\ TypeOK /\ StdoutIsAwaited /\ StdoutIsRecorded /\ UploadInOrder
  /\ ChannelsSettled /\ RefIsStored

-----------------------------------------------------------------------------
(* Liveness, under FairSpec *)

\* Once both connections are closed, as a kill does, the copy loops unwind and
\* the handler ends the session and closes the recording (or the broker dies).
KilledUnwinds ==
  (~conn /\ \A c \in 1..ch : target[c] = "closed") ~> h \in {"done", "gone"}
=============================================================================
