------------------------------ MODULE FileProofs ------------------------------
(***************************************************************************)
(* Proofs about the files that processes share without a coordinator.      *)
(* StateFile, for any writers, readers, names and number of puts;          *)
(* RepositoryLock, for any set of processes; and InstructionLink, for any  *)
(* number of commands and edits.                                           *)
(***************************************************************************)
EXTENDS StateFile, RepositoryLock, InstructionLink, TLAPS
-----------------------------------------------------------------------------
(* The state file.                                                          *)

Call == [stage : Stage, n : Put, temp : Temp]

\* A call in progress has its three fields.
LEMMA BusyFields ==
  ASSUME TypeOK, NEW w \in Writer, put[w].stage # "idle"
  PROVE  put[w] \in Call
  BY DEF TypeOK, Idle, Call

\* Go changes the stage of one call and nothing else.
LEMMA GoFields ==
  ASSUME TypeOK, NEW w \in Writer, put[w].stage # "idle",
         NEW stage \in Stage, Go(w, stage)
  PROVE  /\ put' \in [Writer -> {Idle} \cup Call]
         /\ put'[w].stage = stage /\ put'[w].n = put[w].n /\ put'[w].temp = put[w].temp
         /\ \A v \in Writer : v # w => put'[v] = put[v]
  <1>1. put[w] \in Call
    BY BusyFields
  <1>2. [put[w] EXCEPT !.stage = stage] \in Call
    BY <1>1 DEF Call
  <1> QED  BY <1>1, <1>2 DEF Go, TypeOK, Call

\* Return makes one call idle and changes nothing else.
LEMMA ReturnFields ==
  ASSUME TypeOK, NEW w \in Writer, Return(w)
  PROVE  /\ put' \in [Writer -> {Idle} \cup Call]
         /\ put'[w].stage = "idle"
         /\ \A v \in Writer : v # w => put'[v] = put[v]
  BY DEF Return, TypeOK, Idle, Call

\* A reader that has opened a file has one.
LEMMA ReadFields ==
  ASSUME TypeOK, NEW r \in Reader, read[r].stage = "parse"
  PROVE  read[r].file \in File
  BY DEF TypeOK, NoRead

\* Readers keep what they have when files in place stay in place.
LEMMA ReadingKept ==
  ASSUME IInv, read' = read, document # 0 => document' # 0,
         \A n \in File : InPlace(n) => content'[n] = "synced" /\ place'[n] > 0
  PROVE  Reading'
  BY ReadFields DEF IInv, Reading, InPlace

\* No call has begun and no file exists.
LEMMA InitIInv == Init => IInv
  <1> USE StateFileAssumption DEF Init, Idle, NoRead, File
  <1>1. Init => TypeOK
    <2> SUFFICES ASSUME Init PROVE TypeOK
      OBVIOUS
    <2>1. /\ temporary \in [Temp -> File] /\ content \in [File -> Content]
          /\ place \in [File -> Nat] /\ kept \in SUBSET File /\ turn \in Nat
      BY DEF Content
    <2>2. put \in [Writer -> {Idle} \cup [stage : Stage, n : Put, temp : Temp]]
      OBVIOUS
    <2>3. read \in [Reader -> {NoRead} \cup [stage : {"open", "parse"}, file : File]]
      OBVIOUS
    <2> QED  BY <2>1, <2>2, <2>3 DEF TypeOK
  <1>2. Init => Ranked
    BY DEF Ranked
  <1>3. Init => OwnFiles /\ Writing /\ Reading
    BY DEF OwnFiles, Writing, WritingBy, Reading, Busy, At
  <1> QED  BY <1>1, <1>2, <1>3 DEF IInv

\* The stages at which a call only moves on: nothing else changes.
LEMMA QuietIInv ==
  ASSUME IInv, NEW w \in Writer, UNCHANGED <<files, read, history>>,
         Return(w) \/ (Fail(w) /\ Go(w, "remove"))
  PROVE  IInv'
  <1>1. /\ put' \in [Writer -> {Idle} \cup Call]
        /\ put'[w].stage \in {"idle", "remove"}
        /\ put'[w].stage = "remove" => /\ put[w].stage # "idle" /\ put'[w].n = put[w].n
                                       /\ put'[w].temp = put[w].temp
        /\ \A v \in Writer : v # w => put'[v] = put[v]
    <2>1. CASE Return(w)
      BY <2>1, ReturnFields DEF IInv
    <2>2. CASE Fail(w) /\ Go(w, "remove")
      BY <2>2, GoFields DEF IInv, Fail, Stage
    <2> QED  BY <2>1, <2>2
  <1>2. TypeOK'
    BY <1>1 DEF IInv, TypeOK, files, history, Call
  <1>3. Ranked' /\ Reading'
    BY DEF IInv, Ranked, Reading, InPlace, files, history
  <1>4. OwnFiles'
    BY <1>1 DEF IInv, OwnFiles, Busy, At, history
  <1>5. Writing'
    BY <1>1 DEF IInv, Writing, WritingBy, At, ContentAt, files, history
  <1> QED  BY <1>2, <1>3, <1>4, <1>5 DEF IInv

\* A step on the bytes of a file that is not in place yet.
LEMMA BytesIInv ==
  ASSUME IInv, NEW w \in Writer, put[w].stage \in {"create", "write", "sync"},
         NEW stage \in {"write", "sync", "rename"}, Go(w, stage),
         content' = [content EXCEPT ![put[w].n] = ContentAt(stage)],
         \/ temporary' = temporary /\ put[w].stage # "create"
         \/ temporary' = [temporary EXCEPT ![put[w].temp] = put[w].n],
         UNCHANGED <<parent, document, kept, read, history>>
  PROVE  IInv'
  <1>1. put[w] \in Call /\ put[w].n \in File
    BY BusyFields DEF IInv, Call, Put, File
  <1>2. /\ put' \in [Writer -> {Idle} \cup Call]
        /\ put'[w].stage = stage /\ put'[w].n = put[w].n /\ put'[w].temp = put[w].temp
        /\ \A v \in Writer : v # w => put'[v] = put[v]
    BY GoFields DEF IInv, Stage
  <1>3. TypeOK'
    BY <1>1, <1>2 DEF IInv, TypeOK, history, Call, Content, ContentAt
  <1>4. \A k \in File : InPlace(k) => content'[k] = "synced" /\ place'[k] > 0
    BY <1>1 DEF IInv, Writing, WritingBy, TypeOK, InPlace, history
  <1>5. Ranked'
    BY <1>4 DEF IInv, TypeOK, Ranked, InPlace, history
  <1>6. OwnFiles'
    BY <1>2 DEF IInv, OwnFiles, Busy, At, history
  <1>7. Writing'
    <2> SUFFICES ASSUME NEW v \in Writer PROVE WritingBy(v)'
      BY DEF Writing
    <2>1. CASE v = w
      BY <1>1, <1>2, <2>1 DEF IInv, TypeOK, Writing, WritingBy, At, history, Call
    <2>2. CASE v # w
      <3>1. put'[v] = put[v]
        BY <1>2, <2>2
      <3>2. CASE put[v].stage = "idle"
        BY <3>1, <3>2 DEF WritingBy, At
      <3>3. CASE put[v].stage # "idle"
        <4>1. put[v] \in Call /\ put[v].n # put[w].n /\ put[v].temp # put[w].temp
          BY <2>2, <3>3, BusyFields DEF IInv, OwnFiles, Busy, At
        <4>2. /\ content'[put[v].n] = content[put[v].n]
              /\ temporary'[put[v].temp] = temporary[put[v].temp]
          BY <4>1 DEF IInv, TypeOK, Call, Put, File
        <4> QED  BY <3>1, <4>1, <4>2 DEF IInv, Writing, WritingBy, At, history
      <3> QED  BY <3>2, <3>3
    <2> QED  BY <2>1, <2>2
  <1>8. Reading'
    BY <1>4, ReadingKept DEF history
  <1> QED  BY <1>3, <1>5, <1>6, <1>7, <1>8 DEF IInv

\* Each step of each writer keeps the invariant.
LEMMA WriterIInv ==
  ASSUME IInv, NEW w \in Writer, WriterStep(w)
  PROVE  IInv'
  <1> USE StateFileAssumption DEF Busy, At
  <1>1. CASE Begin(w)
    <2>1. PICK t \in Temp :
            /\ NameIsFree(t)
            /\ put' = [put EXCEPT ![w] =
                  [stage |-> IF parent = "absent" THEN "mkdir" ELSE "create",
                   n |-> puts + 1, temp |-> t]]
      BY <1>1 DEF Begin
    <2>2. /\ puts + 1 \in Put /\ puts + 1 \in File /\ puts \in Nat /\ puts' = puts + 1
          /\ UNCHANGED <<files, read, turn, place, acked, lost>>
      BY <1>1 DEF Begin, IInv, TypeOK, File, Put
    <2>3. /\ put' \in [Writer -> {Idle} \cup Call]
          /\ put'[w].stage \in {"mkdir", "create"} /\ put'[w].n = puts + 1
          /\ put'[w].temp = t
          /\ \A v \in Writer : v # w => put'[v] = put[v]
      BY <2>1, <2>2 DEF IInv, TypeOK, Call, Stage
    <2>4. \A v \in Writer : put[v].stage # "idle" => put[v].n \in Put /\ put[v].n <= puts
      BY BusyFields DEF IInv, OwnFiles, Call
    <2>5. TypeOK'
      BY <2>2, <2>3 DEF IInv, TypeOK, files, Call
    <2>6. Ranked'
      BY <2>2 DEF IInv, TypeOK, Ranked, InPlace, files, File
    <2>7. OwnFiles'
      BY <2>1, <2>2, <2>3, <2>4 DEF IInv, OwnFiles, NameIsFree, Put
    <2>8. Writing'
      BY <2>2, <2>3 DEF IInv, Ranked, Writing, WritingBy, ContentAt, files
    <2>9. Reading'
      BY <2>2 DEF IInv, Reading, InPlace, files
    <2> QED  BY <2>5, <2>6, <2>7, <2>8, <2>9 DEF IInv
  <1>2. CASE MakeDirectory(w)
    <2>1. /\ put' \in [Writer -> {Idle} \cup Call]
          /\ put[w].stage = "mkdir" /\ put'[w].stage = "create"
          /\ put'[w].n = put[w].n /\ put'[w].temp = put[w].temp
          /\ \A v \in Writer : v # w => put'[v] = put[v]
      BY <1>2, GoFields DEF MakeDirectory, IInv, Stage
    <2>2. TypeOK'
      BY <1>2, <2>1 DEF MakeDirectory, IInv, TypeOK, history, Call
    <2>3. Ranked' /\ Reading'
      BY <1>2 DEF MakeDirectory, IInv, Ranked, Reading, InPlace, history
    <2>4. OwnFiles'
      BY <1>2, <2>1 DEF MakeDirectory, IInv, OwnFiles, history
    <2>5. Writing'
      BY <1>2, <2>1 DEF MakeDirectory, IInv, Writing, WritingBy, ContentAt, history
    <2> QED  BY <2>2, <2>3, <2>4, <2>5 DEF IInv
  <1>3. CASE RefuseDirectory(w) \/ Fail(w) \/ Kill(w)
    BY <1>3, QuietIInv DEF RefuseDirectory, Fail, Kill
  <1>4. CASE Create(w)
    BY <1>4, BytesIInv DEF Create, ContentAt
  <1>5. CASE Write(w)
    BY <1>5, BytesIInv DEF Write, ContentAt
  <1>6. CASE Sync(w)
    <2>1. content' = [content EXCEPT ![put[w].n] = ContentAt("rename")]
      BY <1>6 DEF Sync, AfterFsync, ContentAt
    <2> QED  BY <1>6, <2>1, BytesIInv DEF Sync
  <1>7. CASE Rename(w)
    <2>1. /\ put[w] \in Call /\ put[w].stage = "rename"
          /\ put[w].n \in Put /\ put[w].n \in File /\ put[w].n # 0 /\ put[w].n <= puts
      BY <1>7, BusyFields DEF Rename, IInv, OwnFiles, Call, Put, File
    <2>2. /\ document' = put[w].n
          /\ temporary' = [temporary EXCEPT ![put[w].temp] = 0]
          /\ kept' = kept \cup {put[w].n}
          /\ turn' = turn + 1
          /\ place' = [place EXCEPT ![put[w].n] = turn + 1]
          /\ Go(w, "sync_directory")
          /\ UNCHANGED <<parent, content, read, puts, acked, lost>>
      BY <1>7, <2>1 DEF Rename, IInv, Writing, WritingBy
    <2>3. /\ put' \in [Writer -> {Idle} \cup Call]
          /\ put'[w].stage = "sync_directory"
          /\ put'[w].n = put[w].n /\ put'[w].temp = put[w].temp
          /\ \A v \in Writer : v # w => put'[v] = put[v]
      BY <2>1, <2>2, GoFields DEF IInv, Stage
    <2>4. TypeOK'
      <3>1. turn + 1 \in Nat /\ 0 \in File /\ put[w].temp \in Temp
        BY <2>1, StateFileAssumption DEF IInv, TypeOK, Call, File
      <3>2. put' \in [Writer -> {Idle} \cup [stage : Stage, n : Put, temp : Temp]]
        BY <2>3 DEF Call
      <3>3. /\ place' \in [File -> Nat] /\ turn' \in Nat
            /\ temporary' \in [Temp -> File] /\ kept' \in SUBSET File
            /\ document' \in File
        BY <2>1, <2>2, <3>1 DEF IInv, TypeOK
      <3> QED  BY <2>2, <3>2, <3>3 DEF IInv, TypeOK
    <2>5. /\ content[put[w].n] = "synced" /\ place[put[w].n] = 0
          /\ turn \in Nat /\ place'[put[w].n] = turn + 1
          /\ \A k \in File : k # put[w].n => place'[k] = place[k]
          /\ \A k \in File : place[k] \in Nat /\ place[k] <= turn
      BY <2>1, <2>2 DEF IInv, TypeOK, Ranked, Writing, WritingBy, ContentAt
    <2>6. /\ \A k \in File : InPlace(k) => content'[k] = "synced" /\ place'[k] > 0
          /\ content'[put[w].n] = "synced" /\ place'[put[w].n] > 0
      BY <2>1, <2>2, <2>5 DEF InPlace
    <2>7. Ranked'
      <3>1. kept \subseteq File /\ acked \subseteq File /\ 0 \in File
        BY DEF IInv, TypeOK, Put, File
      <3>2. document' \in kept' /\ place'[0] = 0
        BY <2>1, <2>2, <2>5, <3>1 DEF IInv, Ranked
      <3>6. \A k \in kept' : k # 0 => content'[k] = "synced" /\ place'[k] > 0
        BY <2>2, <2>6, <3>1 DEF IInv, Ranked
      <3>3. \A k \in File : place'[k] <= turn' /\ (k > puts' => place'[k] = 0)
        BY <2>1, <2>2, <2>5 DEF IInv, Ranked, TypeOK, File
      <3>4. \A n \in acked : place'[n] = place[n] /\ place[n] > 0
        BY <2>5, <3>1 DEF IInv, Ranked
      <3>5. \A n \in acked : ~lost => \A k \in kept' : place'[k] >= place'[n]
        BY <2>2, <2>5, <3>1, <3>4 DEF IInv, Ranked
      <3> QED  BY <2>2, <3>2, <3>3, <3>4, <3>5, <3>6 DEF Ranked, InPlace
    <2>8. OwnFiles'
      BY <2>2, <2>3, <2>1 DEF IInv, OwnFiles
    <2>9. Writing'
      <3> SUFFICES ASSUME NEW v \in Writer PROVE WritingBy(v)'
        BY DEF Writing
      <3>1. CASE v = w
        BY <2>1, <2>2, <2>3, <2>5, <3>1 DEF WritingBy
      <3>2. CASE v # w /\ put[v].stage = "idle"
        BY <2>3, <3>2 DEF WritingBy
      <3>3. CASE v # w /\ put[v].stage # "idle"
        <4>1. /\ put[v] \in Call /\ put'[v] = put[v] /\ put[v].n \in File
              /\ put[v].n # put[w].n /\ put[v].temp # put[w].temp
          BY <2>1, <2>3, <3>3, BusyFields DEF IInv, OwnFiles, Call, Put, File
        <4>2. /\ place'[put[v].n] = place[put[v].n]
              /\ temporary'[put[v].temp] = temporary[put[v].temp]
              /\ place'[document'] >= place[put[v].n]
          BY <2>2, <2>5, <4>1 DEF IInv, TypeOK, Call
        <4> QED  BY <2>2, <4>1, <4>2 DEF IInv, Writing, WritingBy
      <3> QED  BY <3>1, <3>2, <3>3
    <2>10. Reading'
      BY <2>1, <2>2, <2>6, ReadingKept
    <2> QED  BY <2>4, <2>7, <2>8, <2>9, <2>10 DEF IInv
  <1>8. CASE SyncDirectory(w)
    <2>1. put[w] \in Call /\ put[w].stage = "sync_directory" /\ put[w].n \in Put
      BY <1>8, BusyFields DEF SyncDirectory, IInv, Call
    <2>2. /\ kept' = {document} /\ acked' = acked \cup {put[w].n} /\ Return(w)
          /\ UNCHANGED <<parent, document, temporary, content, read, puts,
                         turn, place, lost>>
      BY <1>8 DEF SyncDirectory, KeptAfterFsync
    <2>3. /\ put' \in [Writer -> {Idle} \cup Call] /\ put'[w].stage = "idle"
          /\ \A v \in Writer : v # w => put'[v] = put[v]
      BY <2>2, ReturnFields DEF IInv
    <2>4. TypeOK'
      BY <2>1, <2>2, <2>3 DEF IInv, TypeOK, Call
    <2>5. Ranked'
      BY <2>1, <2>2 DEF IInv, Ranked, Writing, WritingBy, InPlace
    <2>6. OwnFiles' /\ Reading'
      BY <2>2, <2>3 DEF IInv, OwnFiles, Reading, InPlace
    <2>7. Writing'
      BY <2>2, <2>3 DEF IInv, Writing, WritingBy, ContentAt
    <2> QED  BY <2>4, <2>5, <2>6, <2>7 DEF IInv
  <1>10. CASE Remove(w)
    <2>1. /\ put[w] \in Call /\ put[w].stage = "remove"
          /\ temporary' \in {temporary, [temporary EXCEPT ![put[w].temp] = 0]}
          /\ UNCHANGED <<parent, document, content, kept, read, history>>
      BY <1>10, BusyFields DEF Remove, IInv
    <2>2. /\ put' \in [Writer -> {Idle} \cup Call] /\ put'[w].stage = "idle"
          /\ \A v \in Writer : v # w => put'[v] = put[v]
      BY <1>10, ReturnFields DEF Remove, IInv
    <2>3. TypeOK'
      <3>1. temporary' \in [Temp -> File]
        <4>1. 0 \in File /\ temporary \in [Temp -> File]
          BY StateFileAssumption DEF IInv, TypeOK, File
        <4>2. CASE temporary' = temporary
          BY <4>1, <4>2
        <4>3. CASE temporary' = [temporary EXCEPT ![put[w].temp] = 0]
          BY <4>1, <4>3
        <4> QED  BY <2>1, <4>2, <4>3
      <3>2. put' \in [Writer -> {Idle} \cup [stage : Stage, n : Put, temp : Temp]]
        BY <2>2 DEF Call
      <3> QED  BY <2>1, <3>1, <3>2 DEF IInv, TypeOK, history
    <2>4. Ranked' /\ Reading' /\ OwnFiles'
      BY <2>1, <2>2 DEF IInv, Ranked, Reading, OwnFiles, InPlace, history
    <2>5. Writing'
      <3> SUFFICES ASSUME NEW v \in Writer, v # w, put[v].stage # "idle"
                   PROVE  WritingBy(v)'
        BY <2>2 DEF Writing, WritingBy
      <3>1. put[v] \in Call /\ put[v].temp # put[w].temp
        BY <2>1, BusyFields DEF IInv, OwnFiles
      <3>2. temporary'[put[v].temp] = temporary[put[v].temp]
        BY <2>1, <3>1 DEF IInv, TypeOK, Call
      <3> QED  BY <2>1, <2>2, <3>1, <3>2 DEF IInv, Writing, WritingBy, history
    <2> QED  BY <2>3, <2>4, <2>5 DEF IInv
  <1> QED
    BY <1>1, <1>2, <1>3, <1>4, <1>5, <1>6, <1>7, <1>8, <1>10 DEF WriterStep

\* So does each step of each reader.
LEMMA ReaderIInv ==
  ASSUME IInv, NEW r \in Reader, ReaderStep(r)
  PROVE  IInv'
  <1>1. UNCHANGED <<files, put, history>>
    BY DEF ReaderStep, Inspect, Open, EndRead
  <1>2. Ranked' /\ OwnFiles' /\ Writing'
    BY <1>1 DEF IInv, Ranked, OwnFiles, Writing, WritingBy, Busy, At, InPlace,
                ContentAt, files, history
  <1>3. ASSUME NEW next \in {NoRead} \cup [stage : {"open", "parse"}, file : File],
               read' = [read EXCEPT ![r] = next],
               next.stage = "open" => document # 0,
               next.stage = "parse" => InPlace(next.file)
        PROVE  IInv'
    <2>1. TypeOK'
      BY <1>1, <1>3 DEF IInv, TypeOK, files, history
    <2>2. /\ read'[r] = next
          /\ \A q \in Reader : q # r => read'[q] = read[q]
      BY <1>3 DEF IInv, TypeOK
    <2>3. Reading'
      BY <1>1, <1>3, <2>2 DEF IInv, Reading, InPlace, files, history
    <2> QED  BY <1>2, <2>1, <2>3 DEF IInv
  <1>4. CASE Inspect(r)
    <2> DEFINE next == [stage |-> "open", file |-> 0]
    <2>1. /\ next \in [stage : {"open", "parse"}, file : File]
          /\ next.stage = "open"
      BY StateFileAssumption DEF File
    <2>2. read' = [read EXCEPT ![r] = next] /\ document # 0
      BY <1>4 DEF Inspect
    <2> HIDE DEF next
    <2> QED  BY <1>3, <2>1, <2>2
  <1>5. CASE Open(r)
    <2>1. document # 0 /\ document \in File /\ InPlace(document)
      BY <1>5 DEF Open, IInv, TypeOK, Reading, Ranked
    <2> QED  BY <1>3, <1>5, <2>1 DEF Open
  <1>6. CASE EndRead(r)
    BY <1>3, <1>6 DEF EndRead, NoRead
  <1> QED  BY <1>4, <1>5, <1>6 DEF ReaderStep

\* So does a power loss.
LEMMA LossIInv ==
  ASSUME IInv, PowerLoss \/ LoseDirectory
  PROVE  IInv'
  <1> USE StateFileAssumption DEF Idle, NoRead
  <1>1. /\ put' = [w \in Writer |-> Idle] /\ read' = [r \in Reader |-> NoRead]
        /\ UNCHANGED <<puts, turn, place, acked>>
    BY DEF PowerLoss, LoseDirectory, Reboot
  <1>2. OwnFiles' /\ Writing' /\ Reading'
    BY <1>1 DEF OwnFiles, Writing, WritingBy, Reading, Busy, At
  <1>3. CASE PowerLoss
    <2>1. TypeOK'
      BY <1>1, <1>3 DEF PowerLoss, IInv, TypeOK, File
    <2>2. \A k \in kept : k # 0 => InPlace(k)'
      BY <1>1, <1>3 DEF PowerLoss, AfterLoss, IInv, TypeOK, Ranked, InPlace
    <2>3. Ranked'
      BY <1>1, <1>3, <2>2 DEF PowerLoss, IInv, Ranked
    <2> QED  BY <1>2, <2>1, <2>3 DEF IInv
  <1>4. CASE LoseDirectory
    <2>1. TypeOK'
      BY <1>1, <1>4 DEF LoseDirectory, IInv, TypeOK, File
    <2>2. Ranked'
      BY <1>1, <1>4 DEF LoseDirectory, IInv, Ranked
    <2> QED  BY <1>2, <2>1, <2>2 DEF IInv
  <1> QED  BY <1>3, <1>4

\* The inductive invariant holds of every behaviour.
THEOREM Invariance == Spec => []IInv
  <1>1. IInv /\ [Next]_vars => IInv'
    <2>1. IInv /\ Next => IInv'
      BY WriterIInv, ReaderIInv, LossIInv DEF Next
    <2>2. IInv /\ UNCHANGED vars => IInv'
      BY DEF vars, files, history, IInv, TypeOK, Ranked, OwnFiles, Writing, WritingBy,
             Reading, InPlace, ContentAt, Busy, At
    <2> QED  BY <2>1, <2>2
  <1> QED  BY <1>1, InitIInv, PTL DEF Spec

\* Readers without a lock never see a partial document.
THEOREM ReadsAreWhole == Spec => []ReadersSeeWhole
  <1>1. IInv => ReadersSeeWhole  BY DEF IInv, Reading, InPlace, ReadersSeeWhole
  <1> QED  BY <1>1, Invariance, PTL

\* What was acknowledged outlives power losses while the directory does.
THEOREM Durability == Spec => []AcknowledgedSurvives
  <1>1. IInv => AcknowledgedSurvives  BY DEF IInv, Ranked, AcknowledgedSurvives
  <1> QED  BY <1>1, Invariance, PTL

\* A temporary name is its call's alone while the call writes.
THEOREM TempsAreOwned == Spec => []TempIsOurs
  <1>1. IInv => TempIsOurs  BY DEF IInv, Writing, WritingBy, TempIsOurs
  <1> QED  BY <1>1, Invariance, PTL
-----------------------------------------------------------------------------
(* The repository lock.                                                     *)

\* Nobody has opened the lock file.
LEMMA LockInitIInv == LockInit => LockIInv
  BY ProcessAssumption DEF LockInit, LockIInv, LockTypeOK, Control, Granted, Record

\* Every action keeps the kernel and the processes agreed on the holder.
LEMMA LockNextIInv == LockIInv /\ [LockNext]_lockVars => LockIInv'
  <1> SUFFICES ASSUME LockIInv, [LockNext]_lockVars PROVE LockIInv'
    OBVIOUS
  <1> USE ProcessAssumption
      DEF LockIInv, LockTypeOK, Control, Granted, Record, Goto
  <1>1. ASSUME NEW p \in Process, OpenLock(p) PROVE LockIInv'
    BY <1>1 DEF OpenLock
  <1>2. ASSUME NEW p \in Process, TryLock(p) PROVE LockIInv'
    BY <1>2 DEF TryLock
  <1>3. ASSUME NEW p \in Process, Refuse(p) PROVE LockIInv'
    BY <1>3 DEF Refuse
  <1>4. ASSUME NEW p \in Process, Truncate(p) PROVE LockIInv'
    BY <1>4 DEF Truncate
  <1>5. ASSUME NEW p \in Process, WriteRecord(p) PROVE LockIInv'
    BY <1>5 DEF WriteRecord
  <1>6. ASSUME NEW p \in Process, FailRecord(p) PROVE LockIInv'
    BY <1>6 DEF FailRecord
  <1>7. ASSUME NEW p \in Process, Restrict(p) PROVE LockIInv'
    BY <1>7 DEF Restrict
  <1>8. ASSUME NEW p \in Process, Take(p) PROVE LockIInv'
    BY <1>8 DEF Take
  <1>9. ASSUME NEW p \in Process, Unlock(p) PROVE LockIInv'
    BY <1>9 DEF Unlock
  <1>10. ASSUME NEW p \in Process, Crash(p) PROVE LockIInv'
    BY <1>10 DEF Crash
  <1>11. CASE UNCHANGED lockVars
    BY <1>11 DEF lockVars
  <1> QED
    BY <1>1, <1>2, <1>3, <1>4, <1>5, <1>6, <1>7, <1>8, <1>9, <1>10, <1>11
    DEF LockNext, Proceed

\* The inductive invariant holds of every behaviour.
THEOREM LockInvariance == LockSpec => []LockIInv
  BY LockInitIInv, LockNextIInv, PTL DEF LockSpec

\* A handle that claims the lock has it.
THEOREM HeldMeansLocked == LockSpec => []AssertHeldIsSound
  <1>1. LockIInv => AssertHeldIsSound  BY DEF LockIInv, AssertHeldIsSound, Granted
  <1> QED  BY <1>1, LockInvariance, PTL

\* The owner record is the holder's whenever a pass is inside.
THEOREM RecordIsHolders == LockSpec => []OwnerNamesHolder
  <1>1. LockIInv => OwnerNamesHolder  BY DEF LockIInv, OwnerNamesHolder
  <1> QED  BY <1>1, LockInvariance, PTL

\* The file lock implements the abstract mutex.
THEOREM RefinesMutex == LockSpec => ImplementsMutex
  <1>1. LockInit => Mutex!Init
    BY DEF LockInit, Mutex!Init
  <1>2. LockIInv /\ [LockNext]_lockVars => [Mutex!Next]_holder
    <2> SUFFICES ASSUME LockIInv, LockNext, holder' # holder
                 PROVE  Mutex!Next
      BY DEF lockVars
    <2>1. PICK p \in Process : OpenLock(p) \/ Proceed(p) \/ Crash(p)
      BY DEF LockNext
    <2>2. Mutex!Acquire(p) \/ Mutex!Release(p)
      BY <2>1 DEF OpenLock, Proceed, TryLock, Refuse, Truncate, WriteRecord, FailRecord,
                  Restrict, Take, Unlock, Crash, Mutex!Acquire, Mutex!Release,
                  LockIInv, Granted
    <2> QED  BY <2>2 DEF Mutex!Next
  <1> QED
    BY <1>1, <1>2, LockInvariance, PTL DEF LockSpec, ImplementsMutex, Mutex!Spec
-----------------------------------------------------------------------------
(* The instruction link.                                                    *)

\* No command has found anything yet.
LEMMA LinksBegin == LinkInit => LinkIInv
BY InstructionLinkAssumption DEF LinkInit, LinkIInv, LinkTypeOK, Knows, OneCreator, Linked, Name, Entry

\* Each system call keeps LinkIInv: the canonical file was regular when it was
\* checked, and only an absent name is linked.
LEMMA LinkStepKeeps == ASSUME LinkIInv, NEW k \in Linker, LinkInstructions(k) PROVE LinkIInv'
<1> USE DEF Linked, Name, Entry, Symlink, Other, Destination
<1>1. CASE RequireSource(k)
  BY <1>1 DEF LinkIInv, LinkTypeOK, Knows, OneCreator, RequireSource, IsRegular, GoTo, Finish
<1>2. CASE InspectDestination(k)
  BY <1>2 DEF LinkIInv, LinkTypeOK, Knows, OneCreator, InspectDestination, FoundAbsent, GoTo, Finish
<1>3. CASE ReadLink(k)
  BY <1>3 DEF LinkIInv, LinkTypeOK, Knows, OneCreator, ReadLink, TargetMatches, LinkAction, Finish
<1>4. CASE CreateRelativeSymlink(k)
  <2>1. LinkTypeOK'
    BY <1>4 DEF LinkIInv, LinkTypeOK, CreateRelativeSymlink, Vacant, GoTo
  <2>2. ASSUME edits' = 0 PROVE OneCreator' /\ \A l \in Linker : Knows(l)'
    <3>1. CASE Vacant(Destination(k))
      BY <1>4, <2>2, <3>1
      DEF LinkIInv, LinkTypeOK, Knows, OneCreator, CreateRelativeSymlink, Vacant, GoTo
    <3>2. CASE ~Vacant(Destination(k))
      BY <1>4, <2>2, <3>2
      DEF LinkIInv, LinkTypeOK, Knows, OneCreator, CreateRelativeSymlink, Vacant, GoTo
    <3> QED BY <3>1, <3>2
  <2> QED BY <2>1, <2>2 DEF LinkIInv
<1>5. CASE FilesystemError(k)
  BY <1>5 DEF LinkIInv, LinkTypeOK, Knows, OneCreator, FilesystemError, Finish
<1> QED BY <1>1, <1>2, <1>3, <1>4, <1>5 DEF LinkInstructions

\* An edit ends what is known of an undisturbed repository.
LEMMA EditKeeps == ASSUME LinkIInv, NEW n \in Name, Edit(n) PROVE LinkIInv'
BY InstructionLinkAssumption DEF LinkIInv, LinkTypeOK, Edit, Linked, Name, Entry

\* LinkIInv holds in every reachable state.
THEOREM LinkInvariance == LinkSpec => []LinkIInv
<1>1. LinkIInv /\ [LinkNext]_linkVars => LinkIInv'
  <2> SUFFICES ASSUME LinkIInv, [LinkNext]_linkVars PROVE LinkIInv' OBVIOUS
  <2>1. CASE LinkNext BY <2>1, LinkStepKeeps, EditKeeps DEF LinkNext
  <2>2. CASE UNCHANGED linkVars
    BY <2>2 DEF linkVars, LinkIInv, LinkTypeOK, Knows, OneCreator, Destination
  <2> QED BY <2>1, <2>2
<1> QED BY <1>1, LinksBegin, PTL DEF LinkSpec

\* In a repository that nobody edits, a command that succeeds leaves a link to
\* a regular file, whatever the other commands do.
THEOREM LinksAreUsable == LinkSpec => []LinkedIsUsable
<1>1. LinkIInv => LinkedIsUsable BY DEF LinkIInv, Knows, LinkedIsUsable
<1> QED BY <1>1, LinkInvariance, PTL

\* And one command at most reports that it created a link.
THEOREM OneReportsCreation == LinkSpec => []CreatedOnce
<1>1. LinkIInv => CreatedOnce BY DEF LinkIInv, Knows, OneCreator, CreatedOnce, Linked
<1> QED BY <1>1, LinkInvariance, PTL

\* A command changes an absent name only, and makes it the expected link.
THEOREM NoEntryIsReplaced == LinkSpec => NothingIsReplaced
<1>1. LinkIInv /\ [LinkNext]_linkVars => [edits' = edits =>
                                \A n \in Name : entry'[n] # entry[n] =>
                                    entry[n] = "absent" /\ entry'[n] = "link"]_linkVars
  <2> SUFFICES ASSUME LinkIInv, [LinkNext]_linkVars, edits' = edits, NEW n \in Name,
                      entry'[n] # entry[n]
               PROVE entry[n] = "absent" /\ entry'[n] = "link"
    OBVIOUS
  <2>1. ASSUME NEW k \in Linker, LinkInstructions(k)
        PROVE entry[n] = "absent" /\ entry'[n] = "link"
    BY <2>1
    DEF LinkIInv, LinkTypeOK, LinkInstructions, RequireSource, InspectDestination, ReadLink,
        CreateRelativeSymlink, FilesystemError, Vacant, Destination, Other, Name
  <2>2. ASSUME NEW m \in Name, Edit(m) PROVE FALSE BY <2>2 DEF Edit, LinkIInv, LinkTypeOK
  <2>3. CASE UNCHANGED linkVars BY <2>3 DEF linkVars
  <2> QED BY <2>1, <2>2, <2>3 DEF LinkNext
<1> QED BY <1>1, LinkInvariance, PTL DEF LinkSpec, NothingIsReplaced
=============================================================================
