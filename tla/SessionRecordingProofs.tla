----------------------- MODULE SessionRecordingProofs -----------------------
(***************************************************************************)
(* What a full recording keeps, for any number of channels and any amount  *)
(* of output.                                                              *)
(*                                                                         *)
(* The argument: proxySession waits for the stdout copy, so that copy runs *)
(* only while its channel is proxied; the upload starts after the channel  *)
(* loop and the recording is closed after that, so neither can miss        *)
(* standard output; the file is deleted only once the URL is stored.  The  *)
(* broker closes a user's channel only after the target has closed its     *)
(* side and its exit status was handled, so whatever was cut short or      *)
(* dropped was lost to a user's side that went away first.                 *)
(***************************************************************************)
EXTENDS SessionRecording, TLAPS

\* An update of one entry of a function of functions.
LEMMA Nested ==
  ASSUME NEW A, NEW B, NEW T, NEW f \in [A -> [B -> T]], NEW a \in A, NEW b \in B, NEW v \in T
  PROVE  LET g == [f EXCEPT ![a][b] = v] IN
         /\ g \in [A -> [B -> T]]
         /\ g[a][b] = v
         /\ \A x \in A, y \in B : x # a \/ y # b => g[x][y] = f[x][y]
  OBVIOUS

\* What a step of a copy does to the copies: only its own changes.
CopyStates == {"off", "read", "write", "record", "done", "cut"}
LEMMA CopierStep ==
  ASSUME TypeOK, NEW c \in Chs, NEW s \in Streams, NEW v \in CopyStates,
         copier' = [copier EXCEPT ![c][s] = v]
  PROVE  /\ copier' \in [Chs -> [Streams -> CopyStates]]
         /\ copier'[c][s] = v
         /\ \A x \in Chs, y \in Streams : x # c \/ y # s => copier'[x][y] = copier[x][y]
<1>1. copier \in [Chs -> [Streams -> CopyStates]]
  BY DEF TypeOK, CopyStates
<1> HIDE DEF CopyStates
<1> QED
  BY <1>1, Nested

\* What the write of a chunk to the user does to the counts.
LEMMA ShownStep ==
  ASSUME TypeOK, NEW c \in Chs, NEW s \in Streams, shown[c][s] + 1 \in 0..MaxChunks,
         shown' = [shown EXCEPT ![c][s] = @ + 1]
  PROVE  /\ shown' \in [Chs -> [Streams -> 0..MaxChunks]]
         /\ shown'[c][s] = shown[c][s] + 1
         /\ \A x \in Chs, y \in Streams : x # c \/ y # s => shown'[x][y] = shown[x][y]
<1>1. shown \in [Chs -> [Streams -> 0..MaxChunks]]
  BY DEF TypeOK
<1>2. shown' = [shown EXCEPT ![c][s] = shown[c][s] + 1]
  OBVIOUS
<1> DEFINE Count == 0..MaxChunks  v == shown[c][s] + 1
<1>3. shown \in [Chs -> [Streams -> Count]] /\ v \in Count /\ shown' = [shown EXCEPT ![c][s] = v]
  BY <1>1, <1>2
<1> HIDE DEF Count, v
<1>4. /\ shown' \in [Chs -> [Streams -> Count]]
      /\ shown'[c][s] = v
      /\ \A x \in Chs, y \in Streams : x # c \/ y # s => shown'[x][y] = shown[x][y]
  BY <1>3, Nested
<1> QED
  BY <1>4 DEF Count, v

\* The invariant holds before the recording is opened.
LEMMA InitHolds == Init => IndInv
<1> SUFFICES ASSUME Init PROVE IndInv
  OBVIOUS
<1> USE DEF Init, Everywhere, OnStreams
<1>1. 0 \in 0..MaxChannels /\ 0 \in 0..MaxChunks
  BY BoundsAssumption
<1>2. TypeOK
  BY <1>1 DEF TypeOK
<1>3. StdoutIsAwaited /\ UploadInOrder /\ RefIsStored /\ StdoutIsRecorded
  BY DEF StdoutIsAwaited, UploadInOrder, RefIsStored, StdoutIsRecorded, Opened, Streams
<1>4. ChannelsSettled
  <2> SUFFICES ASSUME NEW c \in Chs
               PROVE  /\ launched[c] = "none" /\ exit[c] = "none" /\ userCh[c] = "none"
                      /\ copier[c]["stdout"] = "off" /\ c > ch
                      /\ \A s \in Streams : sent[c][s] = 0
    BY DEF ChannelsSettled
  <2>1. c > 0
    BY BoundsAssumption DEF Chs
  <2>2. "stdout" \in Streams
    BY DEF Streams
  <2> QED
    BY <2>1, <2>2
<1> QED
  BY <1>2, <1>3, <1>4 DEF IndInv

\* Every step keeps the types.
LEMMA TypeNext == TypeOK /\ [Next]_vars => TypeOK'
<1> SUFFICES ASSUME TypeOK, [Next]_vars PROVE TypeOK'
  OBVIOUS
<1> USE BoundsAssumption DEF TypeOK, chanVars, fileVars, upVars
<1>1. CASE UNCHANGED vars
  BY <1>1 DEF vars
<1>2. CASE Handler
  <2>1. CASE OpenRecording
    BY <2>1 DEF OpenRecording
  <2>2. CASE CopiesDone
    BY <2>2 DEF CopiesDone
  <2>3. CASE CloseChannel
    BY <2>3 DEF CloseChannel
  <2>4. CASE LeaveLoop
    BY <2>4 DEF LeaveLoop
  <2>5. CASE EndRow
    BY <2>5 DEF EndRow
  <2>6. CASE SetRefAndUpload
    BY <2>6 DEF SetRefAndUpload
  <2>7. CASE CloseRecording
    BY <2>7 DEF CloseRecording
  <2> QED
    BY <1>2, <2>1, <2>2, <2>3, <2>4, <2>5, <2>6, <2>7 DEF Handler
<1>3. CASE OpenChannel
  <2>1. ch' \in Chs /\ ch' \in 0..MaxChannels
    BY <1>3 DEF OpenChannel, Chs
  <2>2. OnStreams("read") \in [Streams -> {"off", "read", "write", "record", "done", "cut"}]
    BY DEF OnStreams
  <2> QED
    BY <1>3, <2>1, <2>2 DEF OpenChannel
<1>4. ASSUME NEW c \in Chs, Goroutine(c) PROVE TypeOK'
  <2>1. ASSUME NEW s \in Streams, CopyToUser(c, s) PROVE TypeOK'
    <3>1. shown[c][s] + 1 \in 0..MaxChunks
      BY <2>1 DEF CopyToUser
    <3>2. shown' \in [Chs -> [Streams -> 0..MaxChunks]]
      BY <2>1, <3>1, ShownStep DEF CopyToUser
    <3>3. copier' \in [Chs -> [Streams -> CopyStates]]
      BY <2>1, CopierStep DEF CopyToUser, CopyStates
    <3> QED
      BY <2>1, <3>2, <3>3 DEF CopyToUser, CopyStates
  <2>2. ASSUME NEW s \in Streams, Output(c, s) PROVE TypeOK'
    <3>1. <<c, s, shown[c][s]>> \in Chunks
      BY DEF Chunks
    <3>2. cast' \subseteq Chunks
      BY <2>2, <3>1 DEF Output
    <3>3. copier' \in [Chs -> [Streams -> CopyStates]]
      BY <2>2, CopierStep DEF Output, CopyStates
    <3>4. damage' \subseteq {"disk", "db", "crash"}
      BY <2>2 DEF Output
    <3> QED
      BY <2>2, <3>2, <3>3, <3>4 DEF Output, CopyStates
  <2>3. ASSUME NEW s \in Streams, CopyEOF(c, s) PROVE TypeOK'
    <3>1. copier' \in [Chs -> [Streams -> CopyStates]]
      BY <2>3, CopierStep DEF CopyEOF, CopyStates
    <3> QED
      BY <2>3, <3>1 DEF CopyEOF, CopyStates
  <2> QED
    BY <1>4, <2>1, <2>2, <2>3 DEF Goroutine
<1>9. ASSUME NEW c \in Chs, ToUser(c) PROVE TypeOK'
  <2>1. ASSUME NEW s \in Streams, NEW to \in {"record", "cut"}, WriteReturns(c, s, to)
        PROVE  TypeOK'
    <3>1. copier' \in [Chs -> [Streams -> CopyStates]]
      BY <2>1, CopierStep DEF WriteReturns, CopyStates
    <3> QED
      BY <2>1, <3>1 DEF WriteReturns, CopyStates
  <2>2. CASE ForwardExit(c)
    BY <2>2 DEF ForwardExit
  <2> HIDE DEF TypeOK
  <2> QED
    BY <1>9, <2>1, <2>2, Zenon DEF ToUser
<1>5. ASSUME NEW c \in Chs, Peers(c) PROVE TypeOK'
  <2>1. ASSUME NEW p \in Programs, ForwardUserRequest(c, p) PROVE TypeOK'
    BY <2>1 DEF ForwardUserRequest
  <2>2. CASE StdinDone(c)
    BY <2>2 DEF StdinDone
  <2>6. CASE UserClosesChannel(c)
    BY <2>6 DEF UserClosesChannel
  <2>3. ASSUME NEW s \in Streams, TargetSends(c, s) PROVE TypeOK'
    <3>1. sent[c][s] + 1 \in 0..MaxChunks
      BY <2>3 DEF TargetSends
    <3> QED
      BY <2>3, <3>1 DEF TargetSends
  <2>4. CASE TargetExits(c)
    BY <2>4 DEF TargetExits
  <2>5. ASSUME NEW how \in {"eof", "closed"}, TargetEnds(c, how) PROVE TypeOK'
    BY <2>5 DEF TargetEnds
  <2> QED
    BY <1>5, <2>1, <2>2, <2>3, <2>4, <2>5, <2>6 DEF Peers
<1>6. CASE UserGone
  BY <1>6 DEF UserGone, Left
<1>7. CASE Uploader
  <2>1. CASE StoreURL
    <3>1. url' \in BOOLEAN
      BY <2>1, Zenon DEF StoreURL
    <3> QED
      BY <2>1, <3>1 DEF StoreURL
  <2>2. CASE Upload
    BY <2>2 DEF Upload
  <2>3. CASE RemoveLocal
    <3>1. local' \in BOOLEAN
      BY <2>3, Zenon DEF RemoveLocal
    <3> QED
      BY <2>3, <3>1 DEF RemoveLocal
  <2> QED
    BY <1>7, <2>1, <2>2, <2>3 DEF Uploader
<1>8. CASE Crash
  BY <1>8 DEF Crash, Everywhere, OnStreams, Left
<1> HIDE DEF TypeOK
<1> QED
  BY <1>1, <1>2, <1>3, <1>4, <1>5, <1>6, <1>7, <1>8, <1>9, Zenon DEF Next

\* Where the handler is, what it has closed and what the stdout copy is doing.
LEMMA AwaitNext == IndInv /\ [Next]_vars => StdoutIsAwaited'
<1> SUFFICES ASSUME IndInv, [Next]_vars PROVE StdoutIsAwaited'
  OBVIOUS
<1> USE DEF IndInv, TypeOK, StdoutIsAwaited, chanVars, Streams
<1>1. CASE UNCHANGED vars
  BY <1>1 DEF vars
<1>2. CASE Handler
  <2>1. UNCHANGED <<ch, shown, copier>> /\ h' # "open"
    BY <1>2 DEF Handler, OpenRecording, CopiesDone, CloseChannel, LeaveLoop, EndRow,
       SetRefAndUpload, CloseRecording
  <2>2. ASSUME NEW c \in Chs, copier[c]["stdout"] \in {"read", "write", "record"}
        PROVE  h' = "proxying"
    <3>1. h = "proxying" /\ c = ch
      BY <2>2
    <3>2. ~CopyOver(ch)
      BY <2>2, <3>1 DEF CopyOver
    <3> QED
      BY <1>2, <3>1, <3>2 DEF Handler, OpenRecording, CopiesDone, CloseChannel, LeaveLoop, EndRow,
         SetRefAndUpload, CloseRecording
  <2>3. h' \in {"loop", "proxying", "draining", "end", "ref", "close"} => rec' # "closed"
    BY <1>2 DEF Handler, OpenRecording, CopiesDone, CloseChannel, LeaveLoop, EndRow,
       SetRefAndUpload, CloseRecording
  <2> QED
    BY <2>1, <2>2, <2>3
<1>3. CASE OpenChannel
  <2>1. ch' \in Chs
    BY <1>3, BoundsAssumption DEF OpenChannel, Chs
  <2>2. \A c \in Chs : c # ch' => copier'[c] = copier[c]
    BY <1>3, <2>1 DEF OpenChannel
  <2> QED
    BY <1>3, <2>1, <2>2 DEF OpenChannel
<1>4. ASSUME NEW c \in Chs, Goroutine(c) \/ ToUser(c) PROVE StdoutIsAwaited'
  <2>1. UNCHANGED <<h, ch, rec>>
    BY <1>4 DEF Goroutine, ToUser, CopyToUser, WriteReturns, Output, CopyEOF, ForwardExit
  <2>3. ASSUME h = "open", NEW d \in Chs PROVE shown'[d]["stdout"] = shown[d]["stdout"]
    <3>1. UNCHANGED shown \/ \E s \in Streams : CopyToUser(c, s) /\ Writable(c)
      BY <1>4 DEF Goroutine, ToUser, CopyToUser, WriteReturns, Output, CopyEOF, ForwardExit
    <3>2. ASSUME NEW s \in Streams, CopyToUser(c, s), Writable(c)
          PROVE  shown'[d]["stdout"] = shown[d]["stdout"]
      <4>1. s # "stdout"
        BY <2>3, <3>2 DEF CopyToUser
      <4>2. shown[c][s] + 1 \in 0..MaxChunks
        BY <3>2, BoundsAssumption DEF CopyToUser
      <4> QED
        BY <3>2, <4>1, <4>2, ShownStep DEF CopyToUser
    <3> QED
      BY <3>1, <3>2
  <2>2. ASSUME NEW d \in Chs, copier'[d]["stdout"] \in {"read", "write", "record"}
        PROVE  copier[d]["stdout"] \in {"read", "write", "record"}
    <3>1. \/ UNCHANGED copier
          \/ \E s \in Streams, v \in CopyStates :
               copier[c][s] \in {"read", "write", "record"} /\ copier' = [copier EXCEPT ![c][s] = v]
      BY <1>4 DEF Goroutine, ToUser, CopyToUser, WriteReturns, Output, CopyEOF, ForwardExit,
         CopyStates
    <3>2. ASSUME NEW s \in Streams, NEW v \in CopyStates,
                 copier[c][s] \in {"read", "write", "record"}, copier' = [copier EXCEPT ![c][s] = v]
          PROVE  copier[d]["stdout"] \in {"read", "write", "record"}
      <4>1. \A x \in Chs, y \in Streams : x # c \/ y # s => copier'[x][y] = copier[x][y]
        BY <3>2, CopierStep
      <4> QED
        BY <2>2, <3>2, <4>1
    <3> QED
      BY <2>2, <3>1, <3>2
  <2> QED
    BY <2>1, <2>2, <2>3
<1>5. ASSUME NEW c \in Chs, Peers(c) PROVE StdoutIsAwaited'
  BY <1>5 DEF Peers, ForwardUserRequest, StdinDone, UserClosesChannel, TargetSends,
     TargetExits, TargetEnds
<1>6. CASE UserGone
  BY <1>6 DEF UserGone
<1>7. CASE Uploader
  BY <1>7 DEF Uploader, Upload, StoreURL, RemoveLocal
<1>8. CASE Crash
  BY <1>8 DEF Crash, Everywhere, OnStreams
<1> QED
  BY <1>1, <1>2, <1>3, <1>4, <1>5, <1>6, <1>7, <1>8 DEF Next

\* Every chunk of standard output that is shown is recorded, unless a fault strikes.
LEMMA RecordNext == IndInv /\ [Next]_vars => StdoutIsRecorded'
<1> SUFFICES ASSUME IndInv, [Next]_vars, Opened', damage' \cap {"disk", "crash"} = {},
                    NEW d \in Chs, NEW n \in Passed(d)'
             PROVE  <<d, "stdout", n>> \in cast'
  BY DEF StdoutIsRecorded
<1>1. "disk" \notin damage' /\ "crash" \notin damage'
  OBVIOUS
<1>2. TypeOK /\ "stdout" \in Streams
  BY DEF IndInv, Streams
<1>3. ASSUME "disk" \notin damage, "crash" \notin damage, Opened, n \in Passed(d),
             cast \subseteq cast'
      PROVE  <<d, "stdout", n>> \in cast'
  BY <1>3 DEF IndInv, StdoutIsRecorded
<1>4. ASSUME UNCHANGED <<shown, copier, cast, damage, rec>> PROVE <<d, "stdout", n>> \in cast'
  BY <1>1, <1>3, <1>4 DEF Passed, Opened
<1>5. CASE UNCHANGED vars
  BY <1>4, <1>5 DEF vars, chanVars, fileVars
<1>6. CASE Handler
  <2>1. CASE OpenRecording
    <3>1. shown'[d]["stdout"] = 0 /\ UNCHANGED copier
      BY <2>1 DEF OpenRecording, chanVars, IndInv, StdoutIsAwaited
    <3> QED
      BY <3>1 DEF Passed
  <2>2. CASE ~OpenRecording
    <3>1. UNCHANGED <<shown, copier, cast>> /\ damage \subseteq damage' /\ (rec' # "none" => rec # "none")
      BY <1>6, <2>2 DEF Handler, CopiesDone, CloseChannel, LeaveLoop, EndRow, SetRefAndUpload,
         CloseRecording, chanVars, fileVars
    <3> QED
      BY <1>1, <1>3, <3>1 DEF Passed, Opened
  <2> QED
    BY <2>1, <2>2
<1>7. CASE OpenChannel
  <2>1. ch' \in Chs /\ UNCHANGED <<shown, cast, damage, rec>>
    BY <1>7, <1>2, BoundsAssumption DEF OpenChannel, Chs, TypeOK, fileVars
  <2>2. d = ch' => Passed(d)' = Passed(d)
    <3> SUFFICES ASSUME d = ch' PROVE Passed(d)' = Passed(d)
      OBVIOUS
    <3>1. userCh[d] = "none" /\ copier[d]["stdout"] \notin InFlight
      BY <1>2, <1>7, <2>1 DEF OpenChannel, IndInv, StdoutIsAwaited, ChannelsSettled, InFlight,
         TypeOK
    <3>2. copier'[d]["stdout"] = "read"
      BY <1>2, <1>7, <2>1 DEF OpenChannel, OnStreams, Streams, TypeOK
    <3> QED
      BY <2>1, <3>1, <3>2 DEF Passed, InFlight
  <2>3. d # ch' => Passed(d)' = Passed(d)
    BY <1>2, <1>7, <2>1 DEF OpenChannel, TypeOK, Passed
  <2> QED
    BY <1>1, <1>3, <2>1, <2>2, <2>3 DEF Opened
<1>8. ASSUME NEW c \in Chs, NEW s \in Streams, CopyToUser(c, s)
      PROVE  <<d, "stdout", n>> \in cast'
  <2>1. UNCHANGED <<cast, damage, rec>>
    BY <1>8 DEF CopyToUser, fileVars
  <2>2. shown[c][s] + 1 \in 0..MaxChunks /\ shown[c][s] \in Nat
    BY <1>2, <1>8, BoundsAssumption DEF CopyToUser, TypeOK
  <2>3. Passed(d)' = Passed(d)
    <3>1. CASE Writable(c)
      <4>1. /\ shown'[c][s] = shown[c][s] + 1 /\ copier'[c][s] = "write"
            /\ \A x \in Chs, y \in Streams : x # c \/ y # s =>
                 shown'[x][y] = shown[x][y] /\ copier'[x][y] = copier[x][y]
        BY <1>2, <1>8, <2>2, <3>1, CopierStep, ShownStep DEF CopyToUser, CopyStates
      <4>2. CASE d = c /\ s = "stdout"
        BY <1>8, <2>2, <4>1, <4>2 DEF Passed, InFlight, CopyToUser
      <4>3. CASE d # c \/ s # "stdout"
        BY <1>2, <4>1, <4>3 DEF Passed
      <4> QED
        BY <4>2, <4>3
    <3>2. CASE ~Writable(c)
      <4>1. /\ UNCHANGED shown /\ copier'[c][s] = "done"
            /\ \A x \in Chs, y \in Streams : x # c \/ y # s => copier'[x][y] = copier[x][y]
        BY <1>2, <1>8, <3>2, CopierStep DEF CopyToUser, CopyStates
      <4>2. CASE d = c /\ s = "stdout"
        BY <1>8, <4>1, <4>2 DEF Passed, InFlight, CopyToUser
      <4>3. CASE d # c \/ s # "stdout"
        BY <1>2, <4>1, <4>3 DEF Passed
      <4> QED
        BY <4>2, <4>3
    <3> QED
      BY <3>1, <3>2
  <2> QED
    BY <1>1, <1>3, <2>1, <2>3 DEF Opened
<1>9. ASSUME NEW c \in Chs, NEW s \in Streams, Output(c, s)
      PROVE  <<d, "stdout", n>> \in cast'
  <2>1. /\ UNCHANGED <<shown, rec>> /\ damage \subseteq damage' /\ cast \subseteq cast'
        /\ copier[c][s] = "record" /\ copier'[c][s] = "read"
        /\ \A x \in Chs, y \in Streams : x # c \/ y # s => copier'[x][y] = copier[x][y]
    BY <1>2, <1>9, CopierStep DEF Output, CopyStates
  <2>2. CASE n \in Passed(d)
    BY <1>1, <1>3, <2>1, <2>2 DEF Opened
  <2>3. CASE n \notin Passed(d)
    <3>1. d = c /\ s = "stdout"
      BY <1>2, <2>1, <2>3 DEF Passed
    <3>2. shown[c][s] \in Nat
      BY <1>2, BoundsAssumption DEF TypeOK
    <3>3. n = shown[c][s]
      BY <2>1, <2>3, <3>1, <3>2 DEF Passed, InFlight
    <3>4. rec = "open"
      BY <2>1, <3>1 DEF IndInv, StdoutIsAwaited, TypeOK, Opened
    <3> QED
      BY <1>1, <1>9, <3>1, <3>3, <3>4 DEF Output
  <2> QED
    BY <2>2, <2>3
<1>10. ASSUME NEW c \in Chs, NEW s \in Streams, CopyEOF(c, s)
       PROVE  <<d, "stdout", n>> \in cast'
  <2>1. /\ UNCHANGED <<shown, cast, damage, rec>>
        /\ copier[c][s] = "read" /\ copier'[c][s] = "done"
        /\ \A x \in Chs, y \in Streams : x # c \/ y # s => copier'[x][y] = copier[x][y]
    BY <1>2, <1>10, CopierStep DEF CopyEOF, CopyStates, fileVars
  <2>2. Passed(d)' = Passed(d)
    <3>1. CASE d = c /\ s = "stdout"
      BY <2>1, <3>1 DEF Passed, InFlight
    <3>2. CASE d # c \/ s # "stdout"
      BY <1>2, <2>1, <3>2 DEF Passed
    <3> QED
      BY <3>1, <3>2
  <2> QED
    BY <1>1, <1>3, <2>1, <2>2 DEF Opened
<1>11. ASSUME NEW c \in Chs, ForwardExit(c) \/ Peers(c) PROVE <<d, "stdout", n>> \in cast'
  BY <1>4, <1>11 DEF ForwardExit, Peers, ForwardUserRequest, StdinDone, UserClosesChannel,
     TargetSends, TargetExits, TargetEnds, fileVars
<1>15. ASSUME NEW c \in Chs, NEW s \in Streams, NEW to \in {"record", "cut"},
              WriteReturns(c, s, to)
       PROVE  <<d, "stdout", n>> \in cast'
  <2>1. /\ UNCHANGED <<shown, cast, damage, rec>>
        /\ copier[c][s] = "write" /\ copier'[c][s] = to
        /\ \A x \in Chs, y \in Streams : x # c \/ y # s => copier'[x][y] = copier[x][y]
    BY <1>2, <1>15, CopierStep DEF WriteReturns, CopyStates, fileVars
  <2>2. Passed(d)' = Passed(d)
    <3>1. CASE d = c /\ s = "stdout"
      BY <2>1, <3>1 DEF Passed, InFlight
    <3>2. CASE d # c \/ s # "stdout"
      BY <1>2, <2>1, <3>2 DEF Passed
    <3> QED
      BY <3>1, <3>2
  <2> QED
    BY <1>1, <1>3, <2>1, <2>2 DEF Opened
<1>12. CASE UserGone
  BY <1>4, <1>12 DEF UserGone, fileVars
<1>13. CASE Uploader
  BY <1>4, <1>13 DEF Uploader, Upload, StoreURL, RemoveLocal, chanVars, fileVars
<1>14. CASE Crash
  BY <1>1, <1>14 DEF Crash
<1> QED
  BY <1>5, <1>6, <1>7, <1>8, <1>9, <1>10, <1>11, <1>12, <1>13, <1>14, <1>15
     DEF Next, Goroutine, ToUser

\* The upload comes after the last standard output, the URL after the upload and
\* the deletion after the URL.
LEMMA UploadNext == IndInv /\ [Next]_vars => UploadInOrder'
<1> SUFFICES ASSUME IndInv, [Next]_vars PROVE UploadInOrder'
  OBVIOUS
<1> USE DEF IndInv, UploadInOrder, Opened, upVars, fileVars
<1>1. CASE UNCHANGED vars
  BY <1>1 DEF vars
<1>2. CASE Handler
  <2>1. CASE OpenRecording
    BY <2>1 DEF OpenRecording
  <2>2. CASE SetRefAndUpload
    BY <2>2 DEF SetRefAndUpload
  <2>3. CASE CopiesDone \/ CloseChannel \/ LeaveLoop \/ EndRow \/ CloseRecording
    BY <2>3 DEF CopiesDone, CloseChannel, LeaveLoop, EndRow, CloseRecording
  <2> QED
    BY <1>2, <2>1, <2>2, <2>3 DEF Handler
<1>3. CASE OpenChannel \/ UserGone
  <2>1. UNCHANGED <<rec, cast, local, uploaded, up, url>>
    BY <1>3 DEF OpenChannel, UserGone
  <2>2. OpenChannel => up = "off"
    BY DEF OpenChannel
  <2>3. UserGone => h' = h
    BY DEF UserGone
  <2> QED
    BY <1>3, <2>1, <2>2, <2>3
<1>4. ASSUME NEW c \in Chs, NEW s \in Streams, Output(c, s) PROVE UploadInOrder'
  <2>1. CASE s = "stdout"
    <3>1. up = "off" /\ ~url
      BY <1>4, <2>1 DEF Output, StdoutIsAwaited, TypeOK
    <3> QED
      BY <1>4, <3>1 DEF Output
  <2>2. CASE s # "stdout"
    <3>1. \A x \in cast' : x[2] = "stdout" => x \in cast
      BY <1>4, <2>2 DEF Output
    <3> QED
      BY <1>4, <3>1 DEF Output
  <2> QED
    BY <2>1, <2>2
<1>5. ASSUME NEW c \in Chs, Goroutine(c) \/ ToUser(c) \/ Peers(c) PROVE UploadInOrder'
  BY <1>4, <1>5 DEF Goroutine, ToUser, CopyToUser, WriteReturns, CopyEOF, ForwardExit, Peers,
     ForwardUserRequest, StdinDone, UserClosesChannel, TargetSends, TargetExits, TargetEnds
<1>6. CASE Uploader
  <2>1. UNCHANGED <<h, rec, cast>>
    BY <1>6 DEF Uploader, Upload, StoreURL, RemoveLocal
  <2>2. CASE Upload
    BY <2>1, <2>2 DEF Upload
  <2>3. CASE StoreURL
    <3>1. up = "store" /\ up' \in {"remove", "done"} /\ UNCHANGED <<uploaded, local>>
      BY <2>3 DEF StoreURL
    <3>2. (up' = "remove" => url') /\ (url => url')
      BY <2>3 DEF StoreURL, TypeOK
    <3> QED
      BY <2>1, <3>1, <3>2
  <2>4. CASE RemoveLocal
    BY <2>1, <2>4 DEF RemoveLocal, TypeOK
  <2> QED
    BY <1>6, <2>2, <2>3, <2>4 DEF Uploader
<1>7. CASE Crash
  BY <1>7 DEF Crash
<1> QED
  BY <1>1, <1>2, <1>3, <1>5, <1>6, <1>7 DEF Next

\* Whatever the broker has closed was settled before, and a user's side that has
\* gone stays gone.
LEMMA SettledNext == IndInv /\ [Next]_vars => ChannelsSettled'
<1> SUFFICES ASSUME IndInv, [Next]_vars PROVE ChannelsSettled'
  OBVIOUS
<1> USE DEF IndInv, TypeOK, ChannelsSettled, chanVars, Chs
<1>0. "stdout" \in Streams
  BY DEF Streams
<1>1. CASE UNCHANGED vars
  BY <1>1 DEF vars
<1>2. CASE Handler
  <2>1. CASE CloseChannel
    <3>1. UNCHANGED <<ch, launched, copier, sent, target, exit>> /\ h' = "loop"
      BY <2>1 DEF CloseChannel
    <3>2. \A d \in Chs : userCh'[d] = userCh[d] \/ (d = ch /\ userCh[d] = "open" /\ userCh'[d] = "closed")
      BY <2>1 DEF CloseChannel
    <3>3. target[ch] = "closed" /\ exit[ch] # "sent"
      BY <2>1 DEF CloseChannel
    <3> QED
      BY <3>1, <3>2, <3>3
  <2>2. CASE ~CloseChannel
    <3>1. /\ UNCHANGED <<ch, userCh, launched, copier, sent, target, exit>>
          /\ h' \in {"proxying", "draining"} => h \in {"proxying", "draining"}
      BY <1>2, <2>2 DEF Handler, OpenRecording, CopiesDone, LeaveLoop, EndRow, SetRefAndUpload,
         CloseRecording
    <3> QED
      BY <3>1
  <2> QED
    BY <2>1, <2>2
<1>3. CASE OpenChannel
  <2>1. /\ ch' = ch + 1 /\ ch' \in Chs /\ UNCHANGED <<launched, sent, target, exit>>
        /\ \A d \in Chs : d # ch' => userCh'[d] = userCh[d] /\ copier'[d] = copier[d]
        /\ userCh'[ch'] = "open" /\ copier'[ch']["stdout"] = "read"
    BY <1>0, <1>3, BoundsAssumption DEF OpenChannel, OnStreams
  <2>2. userCh[ch'] = "none" /\ exit[ch'] = "none"
    BY <2>1
  <2>3. \A d \in Chs : d # ch' => (d > ch' <=> d > ch)
    BY <2>1
  <2> QED
    BY <2>1, <2>2, <2>3
<1>4. ASSUME NEW c \in Chs, Goroutine(c) \/ ToUser(c) PROVE ChannelsSettled'
  <2>1. CASE ForwardExit(c)
    BY <2>1 DEF ForwardExit
  <2>2. ASSUME NEW s \in Streams, NEW v \in CopyStates \ {"cut"},
               UNCHANGED <<h, ch, userCh, launched, sent, target, exit>>,
               copier' = [copier EXCEPT ![c][s] = v]
        PROVE  ChannelsSettled'
    <3>1. \A d \in Chs : copier'[d]["stdout"] = "cut" => copier[d]["stdout"] = "cut"
      BY <1>0, <2>2, CopierStep
    <3> QED
      BY <2>2, <3>1
  <2>3. ASSUME NEW s \in Streams, WriteReturns(c, s, "cut") PROVE ChannelsSettled'
    <3>1. /\ copier[c][s] = "write" /\ userCh[c] # "open"
          /\ UNCHANGED <<h, ch, userCh, launched, sent, target, exit>>
      BY <2>3 DEF WriteReturns
    <3>2. \A d \in Chs : copier'[d]["stdout"] = "cut" =>
            copier[d]["stdout"] = "cut" \/ (d = c /\ s = "stdout")
      BY <1>0, <2>3, CopierStep DEF WriteReturns, CopyStates
    <3>3. s = "stdout" => userCh[c] = "left"
      BY <3>1 DEF StdoutIsAwaited
    <3> QED
      BY <3>1, <3>2, <3>3
  <2>4. CASE Goroutine(c)
    <3>1. UNCHANGED <<h, ch, userCh, launched, sent, target, exit>>
      BY <2>4 DEF Goroutine, CopyToUser, Output, CopyEOF
    <3>2. PICK s \in Streams : CopyToUser(c, s) \/ Output(c, s) \/ CopyEOF(c, s)
      BY <2>4 DEF Goroutine
    <3>3. \E v \in {"write", "done", "read"} : copier' = [copier EXCEPT ![c][s] = v]
      BY <3>2 DEF CopyToUser, Output, CopyEOF
    <3>4. {"write", "done", "read"} \subseteq CopyStates \ {"cut"}
      BY DEF CopyStates
    <3> HIDE DEF ChannelsSettled
    <3> QED
      BY <3>1, <3>3, <3>4, <2>2
  <2>5. ASSUME NEW s \in Streams, WriteReturns(c, s, "record") PROVE ChannelsSettled'
    <3>1. /\ UNCHANGED <<h, ch, userCh, launched, sent, target, exit>>
          /\ copier' = [copier EXCEPT ![c][s] = "record"]
      BY <2>5 DEF WriteReturns
    <3>2. "record" \in CopyStates \ {"cut"}
      BY DEF CopyStates
    <3> HIDE DEF ChannelsSettled
    <3> QED
      BY <3>1, <3>2, <2>2
  <2> HIDE DEF ChannelsSettled
  <2> QED
    BY <1>4, <2>1, <2>3, <2>4, <2>5 DEF ToUser
<1>5. ASSUME NEW c \in Chs, Peers(c) PROVE ChannelsSettled'
  <2>1. ASSUME NEW p \in Programs, ForwardUserRequest(c, p) PROVE ChannelsSettled'
    BY <2>1 DEF ForwardUserRequest, Permitted
  <2>2. ASSUME NEW s \in Streams, TargetSends(c, s) PROVE ChannelsSettled'
    <3>1. \A d \in Chs : d # c => sent'[d] = sent[d]
      BY <2>2 DEF TargetSends
    <3> QED
      BY <2>2, <3>1 DEF TargetSends
  <2>3. CASE StdinDone(c)
    BY <2>3 DEF StdinDone
  <2>4. CASE TargetExits(c)
    BY <2>4 DEF TargetExits
  <2>5. ASSUME NEW how \in {"eof", "closed"}, TargetEnds(c, how) PROVE ChannelsSettled'
    BY <2>5 DEF TargetEnds
  <2>6. CASE UserClosesChannel(c)
    BY <2>6 DEF UserClosesChannel
  <2> QED
    BY <1>5, <2>1, <2>2, <2>3, <2>4, <2>5, <2>6 DEF Peers
<1>6. CASE UserGone
  <2>1. \A d \in Chs : userCh'[d] = Left(userCh[d])
    BY <1>6 DEF UserGone
  <2>2. UNCHANGED <<h, ch, launched, copier, sent, target, exit>>
    BY <1>6 DEF UserGone
  <2> QED
    BY <2>1, <2>2 DEF Left
<1>7. CASE Uploader
  <2>1. UNCHANGED <<h, ch, userCh, launched, copier, sent, target, exit>>
    BY <1>7 DEF Uploader, Upload, StoreURL, RemoveLocal
  <2> QED
    BY <2>1
<1>8. CASE Crash
  <2>1. \A d \in Chs : /\ userCh'[d] = Left(userCh[d]) /\ target'[d] = "closed"
                       /\ exit'[d] = IF exit[d] = "sent" THEN "dropped" ELSE exit[d]
                       /\ copier'[d]["stdout"] = "off"
    BY <1>0, <1>8 DEF Crash, Everywhere, OnStreams
  <2>2. h' = "gone" /\ UNCHANGED <<ch, launched, sent>>
    BY <1>8 DEF Crash
  <2> QED
    BY <2>1, <2>2 DEF Left
<1> QED
  BY <1>1, <1>2, <1>3, <1>4, <1>5, <1>6, <1>7, <1>8 DEF Next

\* The reference is stored before the recording is closed, unless the database fails.
LEMMA RefNext == IndInv /\ [Next]_vars => RefIsStored'
<1> SUFFICES ASSUME IndInv, [Next]_vars PROVE RefIsStored'
  OBVIOUS
<1> USE DEF IndInv, RefIsStored, Opened
<1>1. CASE UNCHANGED vars
  BY <1>1 DEF vars
<1>2. CASE Handler
  BY <1>2 DEF Handler, OpenRecording, CopiesDone, CloseChannel, LeaveLoop, EndRow,
     SetRefAndUpload, CloseRecording
<1>3. CASE OpenChannel \/ UserGone \/ Crash
  BY <1>3 DEF OpenChannel, UserGone, Crash
<1>4. ASSUME NEW c \in Chs, Goroutine(c) \/ ToUser(c) \/ Peers(c) PROVE RefIsStored'
  BY <1>4 DEF Goroutine, ToUser, CopyToUser, WriteReturns, Output, CopyEOF, ForwardExit, Peers,
     ForwardUserRequest, StdinDone, UserClosesChannel, TargetSends, TargetExits, TargetEnds
<1>5. CASE Uploader
  BY <1>5 DEF Uploader, Upload, StoreURL, RemoveLocal
<1> QED
  BY <1>1, <1>2, <1>3, <1>4, <1>5 DEF Next

\* The invariant of handleConn, proxySession and uploadRecording.
THEOREM Invariance == Spec => []IndInv
<1>1. IndInv /\ [Next]_vars => IndInv'
  BY TypeNext, AwaitNext, RecordNext, UploadNext, SettledNext, RefNext DEF IndInv
<1> QED
  BY <1>1, InitHolds, PTL DEF Spec

\* Standard output that was shown can be played back, from the file or the upload,
\* but for the last chunk of a user's side that went away in mid-write.
THEOREM StdoutPlaysBack == Spec => []StdoutIsKept
<1>1. IndInv => StdoutIsKept
  <2> SUFFICES ASSUME IndInv, Opened, damage \cap {"disk", "crash"} = {},
                      NEW c \in Chs, NEW n \in Passed(c)
               PROVE  <<c, "stdout", n>> \in Playable
    BY DEF StdoutIsKept, IndInv, ChannelsSettled
  <2>1. <<c, "stdout", n>> \in cast
    BY DEF IndInv, StdoutIsRecorded
  <2>2. ~local => url /\ <<c, "stdout", n>> \in uploaded
    BY <2>1 DEF IndInv, UploadInOrder
  <2> QED
    BY <2>1, <2>2 DEF Playable
<1> QED
  BY <1>1, Invariance, PTL

\* A deleted file has left its standard output and its URL behind, whatever failed.
THEOREM DeletionFailsClosed == Spec => []RemovedIsUploaded
<1>1. IndInv => RemovedIsUploaded
  BY DEF IndInv, UploadInOrder, RemovedIsUploaded
<1> QED
  BY <1>1, Invariance, PTL

\* A finished recording is found from its row unless the database failed.
THEOREM RecordingsAreFound == Spec => []FinishedIsReachable
<1>1. IndInv => FinishedIsReachable
  BY DEF IndInv, UploadInOrder, RefIsStored, FinishedIsReachable
<1> QED
  BY <1>1, Invariance, PTL

\* An exit status is lost only when the user's side of the channel went away first.
THEOREM ExitStatusArrives == Spec => []ExitStatusDelivered
<1>1. IndInv => ExitStatusDelivered
  BY BoundsAssumption DEF IndInv, TypeOK, ChannelsSettled, ExitStatusDelivered, Chs
<1> QED
  BY <1>1, Invariance, PTL

\* Output comes only from programs the grant allows.
THEOREM OutputNeedsCapability == Spec => []OutputIsPermitted
<1>1. IndInv => OutputIsPermitted
  BY DEF IndInv, TypeOK, ChannelsSettled, OutputIsPermitted
<1> QED
  BY <1>1, Invariance, PTL
=============================================================================
