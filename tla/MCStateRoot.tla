----------------------------- MODULE MCStateRoot -----------------------------
(***************************************************************************)
(* Small file systems, two names and two levels with at most two links, to *)
(* any entry or to none, repositories that may be nested or badly marked;  *)
(* a command that starts in a directory, in a repository or not, and a     *)
(* path through all this, for the state root or for a link command.        *)
(***************************************************************************)
EXTENDS StateRoot, FiniteSets

Top == {<<n>> : n \in Name}
Second == {t \o u : t, u \in Top}
Entry == {Dir, File} \cup {LinkTo(p) : p \in {<<>>} \cup Top \cup Second}

\* The entries of two levels.
Together(above, below) ==
    [p \in DOMAIN above \cup DOMAIN below |-> IF p \in DOMAIN above THEN above[p] ELSE below[p]]

Links(e) == {p \in DOMAIN e : e[p].kind = "link"}
Dirs(e) == {p \in DOMAIN e : e[p] = Dir}

\* What is not a single repository below the root, or none: nested, badly marked.
Unusual(git) == LET marked == DOMAIN git
                IN  Cardinality({d \in marked : d = <<>> \/ git[d] = "link"})
                      + (IF marked = {} THEN 0 ELSE Cardinality(marked) - 1)

VARIABLES disk, start, request, root, repository

rootVars == <<disk, start, request, root, repository>>

NoDisk == [entry |-> <<>>, git |-> <<>>]

RootInit ==
    /\ \E above \in UNION {[s -> Entry] : s \in SUBSET Top} :
       \E s \in SUBSET {p \in Second : Up(p) \in Dirs(above)} :
       \E below \in [s -> Entry] :
       \E marked \in SUBSET ({<<>>} \cup Dirs(Together(above, below))) :
       \E git \in [marked -> {"dir", "link"}] :
          /\ Cardinality(Links(above)) + Cardinality(Links(below)) + Unusual(git) <= 2
          /\ disk = [entry |-> Together(above, below), git |-> git]
    /\ start = <<>> /\ request = <<>> /\ root = {} /\ repository = {}

RootIdle == disk = NoDisk /\ start = <<>> /\ request = <<>> /\ root = {} /\ repository = {}

\* A command starts in a directory; its state root is absolute or not.  Another
\* one, to link instructions, is given the same path.
ResolveRoot ==
    /\ disk # NoDisk /\ request = <<>>
    /\ \E d \in {<<>>} \cup Dirs(disk.entry) :
          /\ IF DOMAIN disk.git = {} THEN d = <<>>
             ELSE \E r \in DOMAIN disk.git : IsPrefix(r, d)
          /\ start' = d
    /\ \E x, y, z \in Top :
          request' \in {x, x \o y, x \o y \o z, x \o <<Parent>> \o y,
                        start' \o <<Parent>> \o x}
    /\ root' = ResolveSafeStateRoot(disk, request', FindGitWorktreeRoot(disk, start'))
    /\ repository' = ResolveRepositoryRoot(disk, request')
    /\ UNCHANGED disk

Lexical == AbsoluteNormalized(request)
-----------------------------------------------------------------------------
\* State never lands in the repository the command runs in, whatever links lead
\* there: neither the path that is returned nor the place it is made at.
StateRootIsOutside ==
    \A r \in root, own \in FindGitWorktreeRoot(disk, start) : ~IsPrefix(own, Place(disk, r))

\* Commands that mean one place get one state root, and so meet at one lock: the
\* root is where the kernel finds the path they named, it holds no link, and it
\* is the same once its directories exist.
StateRootIsOne ==
    \A r \in root :
       /\ r = Place(disk, Lexical)
       /\ LET made == WithDirectories(disk, r)
          IN  \/ Canonicalize(made, r).outcome # "found"
              \/ ResolveSafeStateRoot(made, request,
                                      FindGitWorktreeRoot(disk, start)) = {r}

\* The repository a link command edits is the one that a command started in the
\* same place keeps its state out of, whatever path led there: the two searches,
\* one of which refuses markers the other takes, never find different ones.
RepositoryIsOne ==
    \A r \in repository :
       LET place == Canonicalize(disk, request).path
       IN  FindGitWorktreeRoot(disk, IF Kind(disk, place) = "dir" THEN place ELSE Up(place))
             = {r}
=============================================================================
