---------------------------- MODULE InstructionLink ----------------------------
(***************************************************************************)
(* instructions.rs link_instructions: one of AGENTS.md and CLAUDE.md is    *)
(* made a relative symlink to the other.  Several commands run at once in  *)
(* one repository, for either source, while someone edits it.  A call is   *)
(* a sequence of system calls and anything may happen between two.         *)
(*                                                                         *)
(* Filesystem errors at any call are in.  The commands are those about one *)
(* repository: StateRoot has the search for it.                            *)
(***************************************************************************)
EXTENDS Naturals

CONSTANTS Linker,     \* the commands
          MaxEdits    \* bound on the edits by others

ASSUME InstructionLinkAssumption == MaxEdits \in Nat

VARIABLES entry,    \* what each name is
          edits,    \* edits so far
          source,   \* the canonical file of each command
          at,       \* its next system call
          pass,     \* which inspection of the destination it makes
          outcome   \* what it returned

linkVars == <<entry, edits, source, at, pass, outcome>>

Name == {"AGENTS.md", "CLAUDE.md"}

\* "link" points at the other name, "foreign" elsewhere; "blocked" is a
\* directory or a special file.
Entry == {"absent", "file", "link", "foreign", "blocked"}
Symlink == {"link", "foreign"}
Linked == {"Created", "AlreadyLinked"}

Other(n) == IF n = "AGENTS.md" THEN "CLAUDE.md" ELSE "AGENTS.md"
Destination(l) == Other(source[l])

LinkInit == /\ entry \in [Name -> Entry] /\ edits = 0
            /\ source \in [Linker -> Name]
            /\ at = [l \in Linker |-> "require_source"]
            /\ pass = [l \in Linker |-> "first"]
            /\ outcome = [l \in Linker |-> "none"]
-----------------------------------------------------------------------------
(* Faulty variants.                                                         *)

IsRegular_FollowsLinks(n) == entry[n] \in {"file", "link"}

Vacant_NotAFile(n) == entry[n] # "file"

LinkAction_AlwaysCreated(l) == "Created"
-----------------------------------------------------------------------------
\* Neither a link nor a directory is a canonical source.
IsRegular(n) == entry[n] = "file"

TargetMatches(n) == entry[n] = "link"

\* symlink(2) fails on any entry.
Vacant(n) == entry[n] = "absent"

LinkAction(l) == IF pass[l] = "created" THEN "Created" ELSE "AlreadyLinked"

GoTo(l, next) == /\ at' = [at EXCEPT ![l] = next]
                 /\ UNCHANGED outcome

Finish(l, result) == /\ at' = [at EXCEPT ![l] = "done"]
                     /\ outcome' = [outcome EXCEPT ![l] = result]

RequireSource(l) == /\ at[l] = "require_source"
                    /\ IF IsRegular(source[l])
                       THEN GoTo(l, "inspect")
                       ELSE Finish(l, "source_refused")
                    /\ UNCHANGED <<entry, edits, source, pass>>

\* An absent destination is what the first inspection wants and is an error
\* after it.
FoundAbsent(l) == IF pass[l] = "first"
                  THEN GoTo(l, "create")
                  ELSE Finish(l, "disappeared")

InspectDestination(l) == /\ at[l] = "inspect"
                         /\ LET e == entry[Destination(l)]
                            IN  IF e = "absent" THEN FoundAbsent(l)
                                ELSE IF e \in Symlink THEN GoTo(l, "read_link")
                                ELSE Finish(l, "conflict")
                         /\ UNCHANGED <<entry, edits, source, pass>>

\* read_link fails if the link was replaced since it was inspected.
ReadLink(l) == /\ at[l] = "read_link"
               /\ IF TargetMatches(Destination(l)) THEN Finish(l, LinkAction(l))
                  ELSE IF entry[Destination(l)] = "foreign" THEN Finish(l, "conflict")
                  ELSE Finish(l, "filesystem_error")
               /\ UNCHANGED <<entry, edits, source, pass>>

CreateRelativeSymlink(l) ==
    /\ at[l] = "create"
    /\ IF Vacant(Destination(l))
       THEN /\ entry' = [entry EXCEPT ![Destination(l)] = "link"]
            /\ pass' = [pass EXCEPT ![l] = "created"]
       ELSE /\ pass' = [pass EXCEPT ![l] = "exists"]
            /\ UNCHANGED entry
    /\ GoTo(l, "inspect")
    /\ UNCHANGED <<edits, source>>

FilesystemError(l) == /\ at[l] # "done"
                      /\ Finish(l, "filesystem_error")
                      /\ UNCHANGED <<entry, edits, source, pass>>

LinkInstructions(l) == \/ RequireSource(l) \/ InspectDestination(l) \/ ReadLink(l)
                       \/ CreateRelativeSymlink(l) \/ FilesystemError(l)

\* Someone else's edit: an editor, a checkout, a build.
Edit(n) == /\ edits < MaxEdits
           /\ \E e \in Entry \ {entry[n]} : entry' = [entry EXCEPT ![n] = e]
           /\ edits' = edits + 1
           /\ UNCHANGED <<source, at, pass, outcome>>

LinkNext == \/ \E l \in Linker : LinkInstructions(l)
            \/ \E n \in Name : Edit(n)

LinkSpec == LinkInit /\ [][LinkNext]_linkVars
-----------------------------------------------------------------------------
\* Types.
LinkTypeOK == /\ entry \in [Name -> Entry] /\ edits \in Nat
              /\ source \in [Linker -> Name]
              /\ at \in [Linker -> {"require_source", "inspect", "read_link", "create", "done"}]
              /\ pass \in [Linker -> {"first", "created", "exists"}]
              /\ outcome \in [Linker -> Linked \cup {"none", "source_refused", "conflict",
                                                     "disappeared", "filesystem_error"}]
              /\ \A l \in Linker : outcome[l] = "none" <=> at[l] # "done"

\* What command l has found of a repository that nobody edits.
Knows(l) == /\ at[l] \in {"inspect", "read_link", "create"} => entry[source[l]] = "file"
            /\ pass[l] = "created" => entry[Destination(l)] = "link"
            /\ outcome[l] \in Linked => /\ entry[source[l]] = "file"
                                        /\ entry[Destination(l)] = "link"
            /\ outcome[l] = "Created" => pass[l] = "created"

OneCreator == \A l, m \in Linker : pass[l] = "created" /\ pass[m] = "created" => l = m

\* The inductive invariant: types, and in a repository that nobody edits what
\* each command has found still holds, and one command at most made a link.
LinkIInv == LinkTypeOK /\ (edits = 0 => OneCreator /\ \A l \in Linker : Knows(l))

\* If nobody edits the two names, a command that succeeds leaves a link to a
\* regular file: commands for opposite sources never make the names point at
\* each other.
LinkedIsUsable == edits = 0 =>
    \A l \in Linker : outcome[l] \in Linked =>
        entry[source[l]] = "file" /\ entry[Destination(l)] = "link"

\* And of the commands that race for a link, one says that it created it.
CreatedOnce == edits = 0 =>
    \A l, m \in Linker : outcome[l] = "Created" /\ outcome[m] = "Created" => l = m

\* "No regular file, directory, special entry, or unexpected link is
\* replaced" (instructions.rs:290): what a command changes was absent.
NothingIsReplaced == [][edits' = edits =>
                          \A n \in Name : entry'[n] # entry[n] =>
                              entry[n] = "absent" /\ entry'[n] = "link"]_linkVars
=============================================================================
