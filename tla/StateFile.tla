------------------------------- MODULE StateFile -------------------------------
(***************************************************************************)
(* One JSON document of the state root (a candidates.json, or a revision   *)
(* anchor): infra.rs atomic_write_json, the directory it lives in, and its *)
(* readers, under process deaths and power losses.                         *)
(*                                                                         *)
(* A put is a number, and so is the file (inode) it creates and the        *)
(* document it writes there; 0 is no file.  fsync makes a file's bytes     *)
(* durable, fsync of the directory its names; between the two, a power     *)
(* loss keeps what it likes.  Every operation on a file may fail.          *)
(***************************************************************************)
EXTENDS Naturals

CONSTANTS Writer, Reader,
          Temp,             \* names of temporary files
          MaxPut            \* bound on the puts

ASSUME StateFileAssumption == MaxPut \in Nat

VARIABLES parent,     \* the document's directory
          document,   \* the file at the document's name
          temporary,  \* the file at each temporary name
          content,    \* the bytes of each file
          put,        \* the call each writer is in
          read,       \* the call each reader is in
          kept,       \* the files a power loss may leave at the document's name
          puts,       \* how many puts have begun
          turn,       \* how many files have been renamed to the document
          place,      \* history: which turn was each file's
          acked,      \* history: the puts that returned Ok
          lost        \* history: a power loss took the whole directory

history == <<puts, turn, place, acked, lost>>
files == <<parent, document, temporary, content, kept>>
vars == <<files, put, read, history>>

Put == 1..MaxPut
File == 0..MaxPut

Content == {"none", "partial", "whole", "synced"}
Stage == {"mkdir", "create", "write", "sync", "rename", "sync_directory", "remove"}
Idle == [stage |-> "idle"]
NoRead == [stage |-> "idle"]

Init == /\ parent \in {"absent", "synced"}
        /\ document = 0
        /\ temporary = [t \in Temp |-> 0]
        /\ content = [n \in File |-> "none"]
        /\ put = [w \in Writer |-> Idle]
        /\ read = [r \in Reader |-> NoRead]
        /\ kept = {0}
        /\ puts = 0 /\ turn = 0
        /\ place = [n \in File |-> 0]
        /\ acked = {}
        /\ lost = FALSE

At(w, stage) == put[w].stage = stage
Busy(w) == ~At(w, "idle")
Go(w, stage) == put' = [put EXCEPT ![w].stage = stage]
Return(w) == put' = [put EXCEPT ![w] = Idle]
-----------------------------------------------------------------------------
(* Faulty variants.                                                         *)

NameIsFree_Always(t) == TRUE

AfterFsync_Skipped(c) == c

KeptAfterFsync_Everything == kept
-----------------------------------------------------------------------------
(* The file system.                                                         *)

\* fsync of a file, and of the directory.
AfterFsync(c) == "synced"
KeptAfterFsync == {document}

\* What a power loss may leave of a file's bytes.
AfterLoss(c) == IF c = "whole" THEN {"partial", "synced"} ELSE {c}
-----------------------------------------------------------------------------
(* atomic_write_json.                                                       *)

\* The name holds the process id and a counter: no other call in progress has
\* it, but a process that is gone may have had it.
NameIsFree(t) == \A w \in Writer : Busy(w) => put[w].temp # t

\* repository_directory, path_for: look for the directory.
Begin(w) == /\ ~Busy(w) /\ puts < MaxPut
            /\ \E t \in Temp :
                  /\ NameIsFree(t)
                  /\ put' = [put EXCEPT ![w] =
                        [stage |-> IF parent = "absent" THEN "mkdir" ELSE "create",
                         n |-> puts + 1, temp |-> t]]
            /\ puts' = puts + 1
            /\ UNCHANGED <<files, read, turn, place, acked, lost>>

\* create_dir: nothing makes the new entry durable.
MakeDirectory(w) == /\ At(w, "mkdir") /\ parent = "absent"
                    /\ parent' = "unsynced"
                    /\ Go(w, "create")
                    /\ UNCHANGED <<document, temporary, content, kept, read, history>>

\* Refused by a directory check, or beaten to create_dir.
RefuseDirectory(w) == /\ At(w, "mkdir") \/ At(w, "create")
                      /\ Return(w)
                      /\ UNCHANGED <<files, read, history>>

\* create_new fails on a name left by a process that is gone.
Create(w) == /\ At(w, "create")
             /\ temporary[put[w].temp] = 0
             /\ temporary' = [temporary EXCEPT ![put[w].temp] = put[w].n]
             /\ content' = [content EXCEPT ![put[w].n] = "partial"]
             /\ Go(w, "write")
             /\ UNCHANGED <<parent, document, kept, read, history>>

Write(w) == /\ At(w, "write")
            /\ content' = [content EXCEPT ![put[w].n] = "whole"]
            /\ Go(w, "sync")
            /\ UNCHANGED <<parent, document, temporary, kept, read, history>>

Sync(w) == /\ At(w, "sync")
           /\ content' = [content EXCEPT ![put[w].n] = AfterFsync(@)]
           /\ Go(w, "rename")
           /\ UNCHANGED <<parent, document, temporary, kept, read, history>>

\* What is at the temporary name becomes the document.
Rename(w) == LET n == temporary[put[w].temp]
             IN  /\ At(w, "rename") /\ n # 0
                 /\ document' = n
                 /\ temporary' = [temporary EXCEPT ![put[w].temp] = 0]
                 /\ kept' = kept \cup {n}
                 /\ turn' = turn + 1
                 /\ place' = [place EXCEPT ![n] = turn']
                 /\ Go(w, "sync_directory")
                 /\ UNCHANGED <<parent, content, read, puts, acked, lost>>

SyncDirectory(w) == /\ At(w, "sync_directory")
                    /\ kept' = KeptAfterFsync
                    /\ acked' = acked \cup {put[w].n}
                    /\ Return(w)
                    /\ UNCHANGED <<parent, document, temporary, content, read, puts,
                                   turn, place, lost>>

\* An operation fails, with the document replaced already or not.
Fail(w) == /\ put[w].stage \in {"create", "write", "sync", "rename", "sync_directory"}
           /\ Go(w, "remove")
           /\ UNCHANGED <<files, read, history>>

\* remove_file, whose own failure is ignored.
Remove(w) == /\ At(w, "remove")
             /\ temporary' \in {temporary, [temporary EXCEPT ![put[w].temp] = 0]}
             /\ Return(w)
             /\ UNCHANGED <<parent, document, content, kept, read, history>>

\* The process dies and leaves its temporary file.
Kill(w) == Busy(w) /\ Return(w) /\ UNCHANGED <<files, read, history>>
-----------------------------------------------------------------------------
(* read_json_optional.                                                      *)

Inspect(r) == /\ read[r] = NoRead
              /\ document # 0
              /\ read' = [read EXCEPT ![r] = [stage |-> "open", file |-> 0]]
              /\ UNCHANGED <<files, put, history>>

Open(r) == /\ read[r].stage = "open"
           /\ read' = [read EXCEPT ![r] = [stage |-> "parse", file |-> document]]
           /\ UNCHANGED <<files, put, history>>

\* The document is returned, or the reader gives up.
EndRead(r) == /\ read[r] # NoRead
              /\ read' = [read EXCEPT ![r] = NoRead]
              /\ UNCHANGED <<files, put, history>>
-----------------------------------------------------------------------------
\* Every process is gone, and the directory is what the disk has.
Reboot == /\ put' = [w \in Writer |-> Idle]
          /\ read' = [r \in Reader |-> NoRead]
          /\ UNCHANGED <<puts, turn, place, acked>>

PowerLoss == /\ Reboot
             /\ parent' = IF parent = "absent" THEN "absent" ELSE "synced"
             /\ document' \in kept
             /\ kept' = {document'}
             /\ \E gone \in SUBSET Temp :
                   temporary' = [t \in Temp |-> IF t \in gone THEN 0 ELSE temporary[t]]
             /\ content' \in [File -> Content]
             /\ \A n \in File : content'[n] \in AfterLoss(content[n])
             /\ UNCHANGED lost

LoseDirectory == /\ parent = "unsynced"
                 /\ Reboot
                 /\ parent' = "absent"
                 /\ document' = 0 /\ kept' = {0}
                 /\ temporary' = [t \in Temp |-> 0]
                 /\ lost' = TRUE
                 /\ UNCHANGED content

WriterStep(w) == \/ Begin(w) \/ MakeDirectory(w) \/ RefuseDirectory(w) \/ Create(w)
                 \/ Write(w) \/ Sync(w) \/ Rename(w) \/ SyncDirectory(w)
                 \/ Fail(w) \/ Remove(w) \/ Kill(w)

ReaderStep(r) == Inspect(r) \/ Open(r) \/ EndRead(r)

Next == \/ \E w \in Writer : WriterStep(w)
        \/ \E r \in Reader : ReaderStep(r)
        \/ PowerLoss \/ LoseDirectory

Spec == Init /\ [][Next]_vars
-----------------------------------------------------------------------------
\* Types.
TypeOK == /\ parent \in {"absent", "unsynced", "synced"}
          /\ document \in File /\ temporary \in [Temp -> File]
          /\ content \in [File -> Content]
          /\ put \in [Writer -> {Idle} \cup [stage : Stage, n : Put, temp : Temp]]
          /\ read \in [Reader -> {NoRead} \cup [stage : {"open", "parse"}, file : File]]
          /\ kept \in SUBSET File
          /\ puts \in File /\ turn \in Nat
          /\ place \in [File -> Nat]
          /\ acked \in SUBSET Put /\ lost \in BOOLEAN

\* A reader takes no lock, yet once it has seen the document it finds it again,
\* and what it opens is a whole one, with any writer at any point and after any
\* power loss.
ReadersSeeWhole == \A r \in Reader :
    /\ read[r].stage = "open" => document # 0
    /\ read[r].stage = "parse" => content[read[r].file] \in {"whole", "synced"}

\* While the directory lasts, a put that returned Ok outlives every power loss:
\* the document is its own or one that replaced it later.
AcknowledgedSurvives == ~lost => \A n \in acked : place[document] >= place[n]

\* SPEC.md:307 says of the anchor that the dispatcher "atomically stores" it
\* "and fsyncs it" before it publishes: a put that returned Ok is never undone.
AcknowledgedIsDurable == \A n \in acked : place[document] >= place[n]

\* The error path of one call never removes the file of another, nor does one
\* call rename another's file into place, although both only know the name.
TempIsOurs == \A w \in Writer : put[w].stage \in {"write", "sync", "rename"} =>
                                   temporary[put[w].temp] = put[w].n
-----------------------------------------------------------------------------
(* The inductive invariant, by parts.                                       *)

\* The bytes a call has made sure of at each stage.
ContentAt(stage) == IF stage = "write" THEN "partial"
                    ELSE IF stage = "sync" THEN "whole" ELSE "synced"

InPlace(n) == content[n] = "synced" /\ place[n] > 0

\* The document, what a power loss may put in its place, and how they rank.
Ranked == /\ document \in kept
          /\ place[0] = 0
          /\ \A k \in kept : k # 0 => InPlace(k)
          /\ \A n \in File : place[n] <= turn /\ (n > puts => place[n] = 0)
          /\ \A n \in acked : /\ place[n] > 0
                              /\ ~lost => \A k \in kept : place[k] >= place[n]

\* Two calls in progress share neither file nor name.
OwnFiles == /\ \A w \in Writer : Busy(w) => put[w].n <= puts
            /\ \A v, w \in Writer : v # w /\ Busy(v) /\ Busy(w) =>
                  put[v].n # put[w].n /\ put[v].temp # put[w].temp

\* A file being written is out of sight; one that a call has renamed is in
\* place, and no power loss has come between.
WritingBy(w) ==
    /\ put[w].stage \in {"mkdir", "create", "write", "sync", "rename"} =>
          place[put[w].n] = 0
    /\ put[w].stage \in {"write", "sync", "rename"} =>
          /\ temporary[put[w].temp] = put[w].n
          /\ content[put[w].n] = ContentAt(put[w].stage)
    /\ At(w, "sync_directory") =>
          place[put[w].n] > 0 /\ place[document] >= place[put[w].n]
Writing == \A w \in Writer : WritingBy(w)

Reading == \A r \in Reader : /\ read[r].stage = "open" => document # 0
                             /\ read[r].stage = "parse" => InPlace(read[r].file)

IInv == TypeOK /\ Ranked /\ OwnFiles /\ Writing /\ Reading
=============================================================================
