------------------------------ MODULE StateRoot ------------------------------
(***************************************************************************)
(* Where the state goes and which repository a command is about: infra.rs  *)
(* absolute_normalized, find_git_worktree_root, resolve_safe_state_root    *)
(* and instructions.rs resolve_repository_root, over a file system of      *)
(* directories, files and symbolic links.                                  *)
(*                                                                         *)
(* An absolute path is the sequence of its names, <<>> the root directory. *)
(* A file system fs maps the paths of its entries, each in a directory     *)
(* that is one, to Dir, File or LinkTo(absolute path).  fs.git maps the    *)
(* directories with an entry .git to its kind: "dir", "file" or "link".  A *)
(* function that may fail returns the set of its result: one path or none. *)
(***************************************************************************)
EXTENDS Naturals, Sequences, SequencesExt

CONSTANTS Name,       \* names of entries
          Parent,     \* the name ..
          MaxLinks    \* how many links the kernel follows in one path

ASSUME StateRootAssumption == MaxLinks \in Nat /\ Parent \notin Name

Path == Seq(Name \cup {Parent})

Dir == [kind |-> "dir"]
File == [kind |-> "file"]
LinkTo(path) == [kind |-> "link", target |-> path]

Kind(fs, path) == IF path = <<>> THEN "dir"
                  ELSE IF path \in DOMAIN fs.entry THEN fs.entry[path].kind
                  ELSE "absent"

\* The parent of the root is the root.
Up(path) == IF path = <<>> THEN <<>> ELSE SubSeq(path, 1, Len(path) - 1)
-----------------------------------------------------------------------------
(* The kernel, which follows every link but, for symlink_metadata, a last   *)
(* one.  `at` is where the walk is, without links, `rest` what is left.     *)

Found(path) == [outcome |-> "found", path |-> path]
Missing == [outcome |-> "missing"]    \* ENOENT
Refused == [outcome |-> "refused"]    \* ENOTDIR, ELOOP

Position == [at : Path, rest : Path, links : 0..MaxLinks]

Onward(w) == IF Head(w.rest) = Parent THEN Up(w.at) ELSE Append(w.at, Head(w.rest))

MustFollow(fs, w, follow) == /\ Kind(fs, Onward(w)) = "link"
                             /\ follow \/ Tail(w.rest) # <<>>

WalkEnds(fs, w, follow) == \/ w.rest = <<>>
                           \/ Kind(fs, w.at) # "dir"
                           \/ Kind(fs, Onward(w)) = "absent"
                           \/ MustFollow(fs, w, follow) /\ w.links = 0

Ending(fs, w) == IF w.rest = <<>> THEN Found(w.at)
                 ELSE IF Kind(fs, w.at) = "dir" /\ Kind(fs, Onward(w)) = "absent" THEN Missing
                 ELSE Refused

Further(fs, w, follow) ==
    IF MustFollow(fs, w, follow)
    THEN [at |-> <<>>, rest |-> fs.entry[Onward(w)].target \o Tail(w.rest), links |-> w.links - 1]
    ELSE [at |-> Onward(w), rest |-> Tail(w.rest), links |-> w.links]

WalkFrom(fs, follow) ==
    LET walk[w \in Position] == IF WalkEnds(fs, w, follow) THEN Ending(fs, w)
                                ELSE walk[Further(fs, w, follow)]
    IN  walk

Walk(fs, path, follow) ==
    WalkFrom(fs, follow)[[at |-> <<>>, rest |-> path, links |-> MaxLinks]]

SymlinkMetadata(fs, path) == Walk(fs, path, FALSE)
Canonicalize(fs, path) == Walk(fs, path, TRUE)
-----------------------------------------------------------------------------
(* Faulty variants.                                                         *)

\* Only the path as it is written is compared with the repository.
IsOutside_Lexically(canonical_repository, resolved, repository, lexical) ==
    ~IsPrefix(repository, lexical)

WhereItExists_AsWritten(fs, existing) == Found(existing)

\* What is no marker is passed by.
EndsSearch_AtMarkers(fs) == {d \in DOMAIN fs.git : fs.git[d] \in {"dir", "file"}}
-----------------------------------------------------------------------------
\* Without `.` and `..`, whatever the links.
Lexically == LET walk[w \in [at : Path, rest : Path]] ==
                   IF w.rest = <<>> THEN w.at
                   ELSE walk[[at |-> Onward(w), rest |-> Tail(w.rest)]]
             IN  walk

AbsoluteNormalized(path) == Lexically[[at |-> <<>>, rest |-> path]]

ContainsPath(parent, candidate) == IsPrefix(parent, candidate)

\* The nearest of some directories at or above one, if any is.
Nearest(directories, start) ==
    LET above == {k \in 0..Len(start) : SubSeq(start, 1, k) \in directories}
    IN  {SubSeq(start, 1, k) : k \in {j \in above : \A i \in above : i <= j}}

\* From the working directory, which is physical; any entry .git will do.
FindGitWorktreeRoot(fs, start) == Nearest(DOMAIN fs.git, start)

\* An entry .git that is no marker ends the search as well.
EndsSearch(fs) == DOMAIN fs.git

\* From any path, the one a link command is given.
ResolveRepositoryRoot(fs, start) ==
    LET found == Canonicalize(fs, start)
        from  == IF Kind(fs, found.path) = "dir" THEN found.path ELSE Up(found.path)
    IN  IF found.outcome # "found" THEN {}
        ELSE {r \in Nearest(EndsSearch(fs), from) :
                r # <<>> /\ fs.git[r] \in {"dir", "file"}}

AssertSafeStateRoot(path, repository) ==
    LET normalized == AbsoluteNormalized(path)
    IN  IF \/ normalized = <<>>
           \/ \E r \in repository : ContainsPath(AbsoluteNormalized(r), normalized)
        THEN {} ELSE {normalized}

\* The longest part of the path that is not missing.
Existing(fs, lexical) ==
    LET there == {k \in 0..Len(lexical) :
                    SymlinkMetadata(fs, SubSeq(lexical, 1, k)).outcome # "missing"}
    IN  SubSeq(lexical, 1, CHOOSE k \in there : \A j \in there : j <= k)

\* May that part be built upon?  A link as the state root itself may not.
IsUsable(fs, existing, lexical) ==
    LET found == SymlinkMetadata(fs, existing)
    IN  /\ found.outcome = "found"
        /\ \/ Kind(fs, found.path) = "dir"
           \/ Kind(fs, found.path) = "link" /\ existing # lexical

WhereItExists(fs, existing) == Canonicalize(fs, existing)

IsOutside(canonical_repository, resolved, repository, lexical) ==
    ~ContainsPath(canonical_repository, resolved)

ResolveSafeStateRoot(fs, path, repository) ==
    UNION {LET existing == Existing(fs, lexical)
               there == WhereItExists(fs, existing)
               missing == SubSeq(lexical, Len(existing) + 1, Len(lexical))
               resolved == there.path \o missing
           IN  IF /\ IsUsable(fs, existing, lexical)
                  /\ there.outcome = "found"
                  /\ ~(there.path = <<>> /\ existing # <<>>)
                  /\ \A r \in repository :
                        LET canonical == Canonicalize(fs, r)
                        IN  /\ canonical.outcome = "found"
                            /\ IsOutside(canonical.path, resolved, r, lexical)
               THEN AssertSafeStateRoot(resolved, {}) ELSE {}
           : lexical \in AssertSafeStateRoot(path, repository)}
-----------------------------------------------------------------------------
(* Reference: where the kernel takes a path whose missing part is then      *)
(* made, and the file system after that.                                    *)

Place(fs, path) ==
    LET there == {k \in 0..Len(path) :
                    Canonicalize(fs, SubSeq(path, 1, k)).outcome = "found"}
        k == CHOOSE i \in there : \A j \in there : j <= i
    IN  Canonicalize(fs, SubSeq(path, 1, k)).path \o SubSeq(path, k + 1, Len(path))

\* create_dir_all, where it succeeds.
WithDirectories(fs, path) ==
    [fs EXCEPT !.entry =
        [q \in DOMAIN fs.entry \cup {SubSeq(path, 1, k) : k \in 1..Len(path)} |->
            IF q \in DOMAIN fs.entry THEN fs.entry[q] ELSE Dir]]
=============================================================================
