---------------------------- MODULE StateRootProofs ----------------------------
(***************************************************************************)
(* Where the state goes and which repository a command is about, on every  *)
(* file system, for any names and any limit on links.                      *)
(***************************************************************************)
EXTENDS MCDecisions, PlannerProofs

allVars == <<planVars, judgeVars, configVars, rootVars, calendarVars>>

-----------------------------------------------------------------------------
(* Walks.                                                                    *)

\* f hands on from each point to the next, until one that stops and gives out.
HandsOn(f, domain, stop, out, step) ==
    /\ f = [v \in domain |-> f[v]]
    /\ \A v \in domain : f[v] = IF v \in stop THEN out[v] ELSE f[step[v]]

\* A recursion that only hands on has a solution: where the steps end decides.
LEMMA TailRecursion ==
  ASSUME NEW W, NEW stop \in SUBSET W, NEW out, NEW step \in [W -> W]
  PROVE  \E f : HandsOn(f, W, stop, out, step)
<1> DEFINE Leads(w, s, n) == /\ s \in [0..n -> W] /\ s[0] = w /\ s[n] \in stop
                             /\ \A i \in 0..(n - 1) : s[i] \notin stop /\ s[i + 1] = step[s[i]]
           Ends(w) == {e \in stop : \E n \in Nat : \E s \in [0..n -> W] :
                                       Leads(w, s, n) /\ s[n] = e}
           f == [w \in W |-> out[CHOOSE e : e \in Ends(w)]]
<1>1. ASSUME NEW w \in stop PROVE Ends(w) = {w}
  <2>1. ASSUME NEW e \in Ends(w) PROVE e = w
    <3>1. PICK n \in Nat : \E s \in [0..n -> W] : Leads(w, s, n) /\ s[n] = e
      BY <2>1
    <3>2. PICK s \in [0..n -> W] : Leads(w, s, n) /\ s[n] = e
      BY <3>1
    <3>3. n = 0
      <4>1. SUFFICES ASSUME n # 0 PROVE FALSE
        OBVIOUS
      <4>2. 0 \in 0..(n - 1)
        BY <3>1, <4>1
      <4> QED BY <3>2, <4>2
    <3> QED BY <3>2, <3>3
  <2>2. w \in Ends(w)
    <3> DEFINE s == [i \in 0..0 |-> w]
    <3>1. Leads(w, s, 0) /\ s[0] = w /\ s \in [0..0 -> W]
      OBVIOUS
    <3> HIDE DEF s, Leads
    <3> QED BY <3>1
  <2> HIDE DEF Ends
  <2> QED BY <2>1, <2>2
<1>2. ASSUME NEW w \in W \ stop PROVE Ends(w) = Ends(step[w])
  <2>1. ASSUME NEW e \in Ends(w) PROVE e \in Ends(step[w])
    <3>1. PICK n \in Nat : \E s \in [0..n -> W] : Leads(w, s, n) /\ s[n] = e
      BY <2>1
    <3>2. PICK s \in [0..n -> W] : Leads(w, s, n) /\ s[n] = e
      BY <3>1
    <3>3. n # 0
      BY <3>2, <1>2
    <3> DEFINE m == n - 1
               t == [i \in 0..m |-> s[i + 1]]
    <3>4. m \in Nat /\ m + 1 = n /\ \A i \in 0..m : i + 1 \in 0..n
      BY <3>3
    <3>5. t \in [0..m -> W] /\ t[0] = s[1] /\ t[m] = s[n]
      BY <3>2, <3>4
    <3>6. s[1] = step[w]
      <4>1. 0 \in 0..(n - 1)
        BY <3>3
      <4> QED BY <3>2, <4>1
    <3>7. \A i \in 0..(m - 1) : t[i] \notin stop /\ t[i + 1] = step[t[i]]
      <4> SUFFICES ASSUME NEW i \in 0..(m - 1)
                   PROVE  t[i] \notin stop /\ t[i + 1] = step[t[i]]
        OBVIOUS
      <4>1. i \in 0..m /\ i + 1 \in 0..m /\ i + 1 \in 0..(n - 1)
        BY <3>4
      <4>2. s[i + 1] \notin stop /\ s[(i + 1) + 1] = step[s[i + 1]]
        BY <3>2, <4>1
      <4> QED BY <4>1, <4>2
    <3>8. Leads(step[w], t, m) /\ t[m] = e
      <4> HIDE DEF t
      <4> QED BY <3>2, <3>5, <3>6, <3>7
    <3> HIDE DEF t, m, Leads
    <3>9. \E n_ \in Nat : \E s_ \in [0..n_ -> W] : Leads(step[w], s_, n_) /\ s_[n_] = e
      BY <3>4, <3>5, <3>8
    <3> QED BY <2>1, <3>9
  <2>2. ASSUME NEW e \in Ends(step[w]) PROVE e \in Ends(w)
    <3>1. PICK n \in Nat : \E s \in [0..n -> W] : Leads(step[w], s, n) /\ s[n] = e
      BY <2>2
    <3>2. PICK s \in [0..n -> W] : Leads(step[w], s, n) /\ s[n] = e
      BY <3>1
    <3> DEFINE m == n + 1
               t == [i \in 0..m |-> IF i = 0 THEN w ELSE s[i - 1]]
    <3>3. m \in Nat /\ \A i \in 0..m : i # 0 => i - 1 \in 0..n
      OBVIOUS
    <3>4. t \in [0..m -> W] /\ t[0] = w /\ t[m] = s[n]
      BY <3>2, <3>3
    <3>5. \A i \in 0..(m - 1) : t[i] \notin stop /\ t[i + 1] = step[t[i]]
      <4> SUFFICES ASSUME NEW i \in 0..(m - 1)
                   PROVE  t[i] \notin stop /\ t[i + 1] = step[t[i]]
        OBVIOUS
      <4>1. t[i + 1] = s[i]
        BY <3>3
      <4>2. CASE i = 0
        BY <1>2, <3>2, <4>1, <4>2
      <4>3. CASE i # 0
        <5>1. i - 1 \in 0..(n - 1) /\ t[i] = s[i - 1]
          BY <4>3
        <5>2. s[i - 1] \notin stop /\ s[(i - 1) + 1] = step[s[i - 1]]
          BY <3>2, <5>1
        <5> HIDE DEF t
        <5> QED BY <4>1, <5>1, <5>2
      <4> QED BY <4>2, <4>3
    <3>6. Leads(w, t, m) /\ t[m] = e
      <4> HIDE DEF t
      <4> QED BY <3>2, <3>4, <3>5
    <3> HIDE DEF t, m, Leads
    <3>7. \E n_ \in Nat : \E s_ \in [0..n_ -> W] : Leads(w, s_, n_) /\ s_[n_] = e
      BY <3>3, <3>4, <3>6
    <3> QED BY <2>2, <3>7
  <2> HIDE DEF Ends
  <2>3. \A e : e \in Ends(w) <=> e \in Ends(step[w])
    BY <2>1, <2>2
  <2> QED BY <2>3
<1> HIDE DEF Ends
<1>3. ASSUME NEW w \in W
      PROVE  f[w] = IF w \in stop THEN out[w] ELSE f[step[w]]
  <2>1. \A v \in W : f[v] = out[CHOOSE e : e \in Ends(v)]
    OBVIOUS
  <2> HIDE DEF f
  <2>2. CASE w \in stop
    <3>1. (CHOOSE e : e \in Ends(w)) = w
      BY <1>1, <2>2
    <3> QED BY <2>1, <2>2, <3>1
  <2>3. CASE w \notin stop
    <3>1. Ends(w) = Ends(step[w]) /\ step[w] \in W
      BY <1>2, <2>3
    <3>2. f[w] = out[CHOOSE e : e \in Ends(w)] /\ f[step[w]] = out[CHOOSE e : e \in Ends(step[w])]
      BY <2>1, <3>1
    <3>3. f[w] = f[step[w]]
      BY <3>1, <3>2, Zenon
    <3> QED BY <2>3, <3>3
  <2> QED BY <2>2, <2>3
<1>4. f = [w \in W |-> f[w]]
  OBVIOUS
<1> HIDE DEF f
<1> QED BY <1>3, <1>4 DEF HandsOn

(* A file system as it can be: an entry's directories are directories.      *)
WellFormed(fs) ==
    /\ fs = [entry |-> fs.entry, git |-> fs.git]
    /\ fs.entry = [p \in DOMAIN fs.entry |-> fs.entry[p]]
    /\ \A p \in DOMAIN fs.entry :
          /\ p \in Seq(Name)
          /\ fs.entry[p] \in {Dir, File} \cup {LinkTo(t) : t \in Path}
          /\ \A k \in 0..(Len(p) - 1) : Kind(fs, SubSeq(p, 1, k)) = "dir"

W(a, r, l) == [at |-> a, rest |-> r, links |-> l]

\* One name further is a path again.
LEMMA OnwardIsAPath ==
  ASSUME NEW w, w.at \in Path, w.rest \in Path, w.rest # <<>>
  PROVE  Onward(w) \in Path
<1>1. Head(w.rest) \in Name \cup {Parent}
  BY DEF Path
<1>2. CASE Head(w.rest) = Parent
  <2>1. Up(w.at) \in Path
    BY DEF Up, Path
  <2> QED BY <1>2, <2>1 DEF Onward
<1>3. CASE Head(w.rest) # Parent
  BY <1>1, <1>3 DEF Onward, Path
<1> QED BY <1>2, <1>3

\* The parts of a position.
LEMMA Positions ==
  ASSUME NEW w \in Position
  PROVE  /\ w.at \in Path /\ w.rest \in Path /\ w.links \in 0..MaxLinks
         /\ w = W(w.at, w.rest, w.links)
BY DEF Position, W

\* A step of the walk follows a link or leaves less of the path.
LEMMA WalkProgress ==
  ASSUME NEW fs, WellFormed(fs), NEW follow \in BOOLEAN, NEW w \in Position,
         ~WalkEnds(fs, w, follow)
  PROVE  /\ Further(fs, w, follow) \in Position
         /\ \/ Further(fs, w, follow).links < w.links
            \/ /\ Further(fs, w, follow).links = w.links
               /\ Len(Further(fs, w, follow).rest) < Len(w.rest)
<1>1. w.at \in Path /\ w.rest \in Path /\ w.links \in 0..MaxLinks /\ w.rest # <<>>
      /\ Onward(w) \in Path
  BY Positions, OnwardIsAPath DEF WalkEnds
<1>2. Tail(w.rest) \in Path /\ Len(Tail(w.rest)) < Len(w.rest)
  BY <1>1 DEF Path
<1>3. CASE MustFollow(fs, w, follow)
  <2>1. Onward(w) \in DOMAIN fs.entry /\ fs.entry[Onward(w)].kind = "link"
    BY <1>3 DEF MustFollow, Kind
  <2>2. fs.entry[Onward(w)].target \in Path
    BY <2>1 DEF WellFormed, Dir, File, LinkTo
  <2>3. fs.entry[Onward(w)].target \o Tail(w.rest) \in Path
    BY <1>2, <2>2 DEF Path
  <2>4. w.links # 0 /\ MaxLinks \in Nat
    BY <1>3, StateRootAssumption DEF WalkEnds
  <2> DEFINE t == fs.entry[Onward(w)].target \o Tail(w.rest)
  <2>5. Further(fs, w, follow) = [at |-> <<>>, rest |-> t, links |-> w.links - 1]
    BY <1>3 DEF Further
  <2>6. <<>> \in Path
    BY DEF Path
  <2> HIDE DEF t
  <2> QED BY <1>1, <2>3, <2>4, <2>5, <2>6 DEF Position, t
<1>4. CASE ~MustFollow(fs, w, follow)
  BY <1>1, <1>2, <1>4 DEF Further, Position
<1> QED BY <1>3, <1>4

\* The recursion of the walk: every position has its outcome.
LEMMA WalkEquation ==
  ASSUME NEW fs, WellFormed(fs), NEW follow \in BOOLEAN, NEW w \in Position
  PROVE  WalkFrom(fs, follow)[w]
           = IF WalkEnds(fs, w, follow) THEN Ending(fs, w)
             ELSE WalkFrom(fs, follow)[Further(fs, w, follow)]
<1> DEFINE stop == {v \in Position : WalkEnds(fs, v, follow)}
           out == [v \in Position |-> Ending(fs, v)]
           step == [v \in Position |-> IF v \in stop THEN v ELSE Further(fs, v, follow)]
           walk(f) == [v \in Position |-> IF WalkEnds(fs, v, follow) THEN Ending(fs, v)
                                          ELSE f[Further(fs, v, follow)]]
<1>1. step \in [Position -> Position] /\ stop \in SUBSET Position
  BY WalkProgress
<1>2. PICK f : HandsOn(f, Position, stop, out, step)
  <2> HIDE DEF stop, out, step
  <2> QED BY <1>1, TailRecursion
<1>3. \A v \in Position : (IF v \in stop THEN out[v] ELSE f[step[v]])
         = IF WalkEnds(fs, v, follow) THEN Ending(fs, v) ELSE f[Further(fs, v, follow)]
  OBVIOUS
<1>4. f = walk(f)
  <2>1. \A v \in Position : f[v] = IF WalkEnds(fs, v, follow) THEN Ending(fs, v)
                                  ELSE f[Further(fs, v, follow)]
    BY <1>2, <1>3 DEF HandsOn
  <2> HIDE DEF stop, out, step
  <2> QED BY <1>2, <2>1 DEF HandsOn
<1>5. WalkFrom(fs, follow) = walk(WalkFrom(fs, follow))
  <2>1. WalkFrom(fs, follow) = CHOOSE g : g = walk(g)
    BY DEF WalkFrom
  <2> HIDE DEF walk
  <2> QED BY <1>4, <2>1
<1> HIDE DEF stop, out, step
<1> QED BY <1>5

\* What holds where a walk ends, and of a step when it holds of the next one,
\* holds of every walk.
LEMMA WalkInduction ==
  ASSUME NEW fs, WellFormed(fs), NEW follow \in BOOLEAN, NEW S,
         \A w \in Position : WalkEnds(fs, w, follow) => w \in S,
         \A w \in Position : ~WalkEnds(fs, w, follow) /\ Further(fs, w, follow) \in S => w \in S
  PROVE  \A w \in Position : w \in S
<1> SUFFICES ASSUME NEW x \in Position, x \notin S PROVE FALSE
  OBVIOUS
<1> DEFINE B == {w \in Position : w \notin S}
           Counts == {w.links : w \in B}
<1>1. \A w \in Position : w.links \in Nat /\ w.rest \in Path /\ Len(w.rest) \in Nat
  BY Positions, StateRootAssumption DEF Path
<1>2. PICK l \in Counts : \A y \in Counts : l <= y
  <2>1. Counts \in SUBSET Nat /\ Counts # {}
    BY <1>1
  <2> HIDE DEF Counts
  <2> QED BY <2>1, LeastNumber
<1> DEFINE C == {w \in B : w.links = l}
           Lengths == {Len(w.rest) : w \in C}
<1>3. PICK n \in Lengths : \A y \in Lengths : n <= y
  <2>1. Lengths \in SUBSET Nat /\ Lengths # {}
    BY <1>1, <1>2
  <2> HIDE DEF Lengths
  <2> QED BY <2>1, LeastNumber
<1>4. PICK w \in C : Len(w.rest) = n
  BY <1>3
<1>5. ~WalkEnds(fs, w, follow) /\ Further(fs, w, follow) \notin S
  BY <1>4
<1> DEFINE v == Further(fs, w, follow)
<1>6. v \in B /\ (v.links < l \/ (v.links = l /\ Len(v.rest) < n))
  BY <1>4, <1>5, WalkProgress
<1> HIDE DEF v
<1>7. v.links \in Counts /\ l \in Nat /\ v.links \in Nat
  BY <1>1, <1>6
<1> HIDE DEF Counts
<1>8. v.links = l
  BY <1>2, <1>6, <1>7
<1>9. Len(v.rest) \in Lengths
  BY <1>6, <1>8
<1> HIDE DEF Lengths
<1> QED BY <1>1, <1>3, <1>4, <1>6, <1>8, <1>9

Real(fs, p) == p \in Seq(Name) /\ Kind(fs, p) \in {"dir", "file"}

\* A path without `..` is a path.
LEMMA NamesArePaths ==
  ASSUME NEW p \in Seq(Name)
  PROVE  p \in Path
BY DEF Path

\* What is somewhere is one of three kinds, at a path without `..`.
LEMMA KindsOfEntries ==
  ASSUME NEW fs, WellFormed(fs), NEW p
  PROVE  /\ Kind(fs, p) \in {"dir", "file", "link", "absent"}
         /\ p # <<>> /\ Kind(fs, p) # "absent" => p \in DOMAIN fs.entry /\ p \in Seq(Name)
         /\ Kind(fs, p) # "absent" => p \in Seq(Name)
<1>1. CASE p = <<>>
  BY <1>1 DEF Kind
<1>2. CASE p # <<>> /\ p \in DOMAIN fs.entry
  <2>1. fs.entry[p] \in {Dir, File} \cup {LinkTo(t) : t \in Path} /\ p \in Seq(Name)
    BY <1>2 DEF WellFormed
  <2> QED BY <1>2, <2>1 DEF Kind, Dir, File, LinkTo
<1>3. CASE p # <<>> /\ p \notin DOMAIN fs.entry
  BY <1>3 DEF Kind
<1> QED BY <1>1, <1>2, <1>3

\* Everything above an entry is a directory.
LEMMA AboveIsDirectory ==
  ASSUME NEW fs, WellFormed(fs), NEW p, Kind(fs, p) # "absent", NEW k \in 0..Len(p), k < Len(p)
  PROVE  Kind(fs, SubSeq(p, 1, k)) = "dir"
<1>1. p \in Seq(Name) /\ p # <<>>
  BY KindsOfEntries
<1>2. p \in DOMAIN fs.entry /\ k \in 0..(Len(p) - 1)
  BY <1>1, KindsOfEntries
<1> QED BY <1>2 DEF WellFormed

\* The walk from a place without links, with more to come or not.
LEMMA WalkSteps ==
  ASSUME NEW fs, WellFormed(fs), NEW follow \in BOOLEAN,
         NEW a \in Path, NEW r \in Path, NEW l \in 0..MaxLinks
  PROVE  /\ W(a, r, l) \in Position
         /\ r = <<>> => WalkFrom(fs, follow)[W(a, r, l)] = Found(a)
         /\ WalkEnds(fs, W(a, r, l), follow) =>
               WalkFrom(fs, follow)[W(a, r, l)] = Ending(fs, W(a, r, l))
         /\ ~WalkEnds(fs, W(a, r, l), follow) =>
               WalkFrom(fs, follow)[W(a, r, l)]
                 = WalkFrom(fs, follow)[Further(fs, W(a, r, l), follow)]
<1>1. W(a, r, l) \in Position
  BY DEF W, Position
<1>2. r = <<>> => WalkEnds(fs, W(a, r, l), follow) /\ Ending(fs, W(a, r, l)) = Found(a)
  BY DEF WalkEnds, Ending, W
<1> QED BY <1>1, <1>2, WalkEquation

\* One name further, to a directory or a file.
LEMMA WalkOneName ==
  ASSUME NEW fs, WellFormed(fs), NEW follow \in BOOLEAN,
         NEW a \in Path, NEW r \in Path, NEW l \in 0..MaxLinks, r # <<>>, Head(r) \in Name,
         Kind(fs, a) = "dir", Kind(fs, Append(a, Head(r))) \in {"dir", "file"}
  PROVE  WalkFrom(fs, follow)[W(a, r, l)]
           = WalkFrom(fs, follow)[W(Append(a, Head(r)), Tail(r), l)]
<1>1. Head(r) # Parent
  BY StateRootAssumption
<1>2. Onward(W(a, r, l)) = Append(a, Head(r))
  BY <1>1 DEF Onward, W
<1>3. ~MustFollow(fs, W(a, r, l), follow)
  BY <1>2 DEF MustFollow
<1>4. ~WalkEnds(fs, W(a, r, l), follow)
  BY <1>1, <1>2, <1>3 DEF WalkEnds, W
<1>5. Further(fs, W(a, r, l), follow) = W(Append(a, Head(r)), Tail(r), l)
  BY <1>1, <1>2, <1>3 DEF Further, W
<1> QED BY <1>4, <1>5, WalkSteps

\* One name further, to nothing.
LEMMA WalkToNothing ==
  ASSUME NEW fs, WellFormed(fs), NEW follow \in BOOLEAN,
         NEW a \in Path, NEW r \in Path, NEW l \in 0..MaxLinks, r # <<>>, Head(r) \in Name,
         Kind(fs, a) = "dir", Kind(fs, Append(a, Head(r))) = "absent"
  PROVE  WalkFrom(fs, follow)[W(a, r, l)] = Missing
<1>1. Head(r) # Parent
  BY StateRootAssumption
<1>2. Onward(W(a, r, l)) = Append(a, Head(r))
  BY <1>1 DEF Onward, W
<1>3. WalkEnds(fs, W(a, r, l), follow) /\ Ending(fs, W(a, r, l)) = Missing
  BY <1>1, <1>2 DEF WalkEnds, Ending, W
<1> QED BY <1>3, WalkSteps

\* Down real directories the walk goes where the path says.
LEMMA WalkDownDirectories ==
  ASSUME NEW fs, WellFormed(fs), NEW follow \in BOOLEAN,
         NEW p \in Seq(Name), Kind(fs, p) = "dir",
         NEW k \in 0..Len(p), NEW q \in Path, NEW l \in 0..MaxLinks
  PROVE  WalkFrom(fs, follow)[W(SubSeq(p, 1, k), SubSeq(p, k + 1, Len(p)) \o q, l)]
           = WalkFrom(fs, follow)[W(p, q, l)]
<1> DEFINE from(i) == WalkFrom(fs, follow)[W(SubSeq(p, 1, i), SubSeq(p, i + 1, Len(p)) \o q, l)]
           there == WalkFrom(fs, follow)[W(p, q, l)]
           T == {j \in Nat : j <= Len(p) /\ from(Len(p) - j) # there}
<1>1. from(Len(p)) = there
  <2>1. SubSeq(p, 1, Len(p)) = p /\ SubSeq(p, Len(p) + 1, Len(p)) \o q = q
    <3>1. SubSeq(p, Len(p) + 1, Len(p)) = <<>>
      OBVIOUS
    <3> QED BY <3>1 DEF Path
  <2> QED BY <2>1
<1>2. ASSUME NEW i \in 0..Len(p), i < Len(p) PROVE from(i) = from(i + 1)
  <2> DEFINE a == SubSeq(p, 1, i)
             b == SubSeq(p, i + 1, Len(p))
             r == b \o q
             n == p[i + 1]
  <2>1. a \in Seq(Name) /\ n \in Name /\ Append(a, n) = SubSeq(p, 1, i + 1)
    BY <1>2
  <2>2. b \in Path /\ b # <<>> /\ Head(b) = n /\ Tail(b) = SubSeq(p, i + 2, Len(p))
    <3>1. b \in Seq(Name) /\ Len(b) = Len(p) - i
      BY <1>2
    <3>2. Head(b) = n /\ Tail(b) = SubSeq(p, (i + 1) + 1, Len(p))
      BY <1>2, HeadTailOfSubSeq
    <3>3. (i + 1) + 1 = i + 2
      OBVIOUS
    <3>4. b # <<>>
      <4> HIDE DEF b
      <4> QED BY <1>2, <3>1
    <3>5. b \in Path
      <4> HIDE DEF b
      <4> QED BY <3>1, NamesArePaths
    <3> QED BY <3>2, <3>3, <3>4, <3>5
  <2>3. Kind(fs, a) = "dir"
    BY <1>2, AboveIsDirectory
  <2>4. Kind(fs, Append(a, n)) = "dir"
    <3>1. CASE i + 1 < Len(p)
      <4>1. Kind(fs, SubSeq(p, 1, i + 1)) = "dir"
        BY <1>2, <3>1, AboveIsDirectory
      <4> QED BY <2>1, <4>1
    <3>2. CASE i + 1 = Len(p)
      <4>1. SubSeq(p, 1, i + 1) = p
        BY <3>2
      <4> QED BY <2>1, <4>1
    <3> QED BY <1>2, <3>1, <3>2
  <2> HIDE DEF a, n, b
  <2>5. r \in Path /\ r # <<>> /\ Head(r) = n /\ Tail(r) = Tail(b) \o q
    <3>1. r \in Path /\ Head(r) = n /\ Tail(r) = Tail(b) \o q
      BY <2>2 DEF Path
    <3>2. r # <<>>
      BY <2>2, ConcatEqualIffEmpty DEF Path
    <3> QED BY <3>1, <3>2
  <2> HIDE DEF r
  <2>6. a \in Path /\ n \in Name
    BY <2>1, NamesArePaths
  <2>7. WalkFrom(fs, follow)[W(a, r, l)] = WalkFrom(fs, follow)[W(Append(a, n), Tail(r), l)]
    BY <2>3, <2>4, <2>5, <2>6, WalkOneName
  <2>8. (i + 1) + 1 = i + 2
    OBVIOUS
  <2> QED BY <2>1, <2>2, <2>5, <2>7, <2>8 DEF a, b, r
<1>3. T = {}
  <2> SUFFICES ASSUME T # {} PROVE FALSE
    OBVIOUS
  <2>1. T \in SUBSET Nat
    OBVIOUS
  <2>2. PICK j \in T : \A y \in T : j <= y
    <3> HIDE DEF T
    <3> QED BY <2>1, LeastNumber
  <2>3. j \in Nat /\ j <= Len(p) /\ from(Len(p) - j) # there /\ Len(p) \in Nat
    OBVIOUS
  <2>4. j # 0
    <3> HIDE DEF from, there
    <3> QED BY <1>1, <2>3
  <2>5. from(Len(p) - j) = from(Len(p) - j + 1)
    <3>1. Len(p) - j \in 0..Len(p) /\ Len(p) - j < Len(p)
      BY <2>3, <2>4
    <3> HIDE DEF from
    <3> QED BY <1>2, <3>1
  <2>6. Len(p) - (j - 1) = Len(p) - j + 1 /\ j - 1 \in Nat /\ j - 1 <= Len(p)
    BY <2>3, <2>4
  <2>7. j - 1 \in T
    <3> HIDE DEF from, there
    <3> QED BY <2>3, <2>5, <2>6
  <2> HIDE DEF T
  <2> QED BY <2>2, <2>3, <2>7
<1>4. Len(p) - k \in Nat /\ Len(p) - k <= Len(p) /\ Len(p) - (Len(p) - k) = k
  OBVIOUS
<1>5. from(k) = there
  <2> HIDE DEF from, there
  <2> QED BY <1>3, <1>4
<1> QED BY <1>5

\* The same from a directory above it.
LEMMA WalkDown ==
  ASSUME NEW fs, WellFormed(fs), NEW follow \in BOOLEAN,
         NEW a \in Seq(Name), NEW b \in Seq(Name), Kind(fs, a \o b) = "dir",
         NEW q \in Path, NEW l \in 0..MaxLinks
  PROVE  WalkFrom(fs, follow)[W(a, b \o q, l)] = WalkFrom(fs, follow)[W(a \o b, q, l)]
<1> DEFINE p == a \o b
<1>1. /\ p \in Seq(Name) /\ Len(a) \in 0..Len(p)
      /\ SubSeq(p, 1, Len(a)) = a /\ SubSeq(p, Len(a) + 1, Len(p)) = b
  OBVIOUS
<1> HIDE DEF p
<1>2. Kind(fs, p) = "dir"
  BY DEF p
<1>3. WalkFrom(fs, follow)[W(SubSeq(p, 1, Len(a)), SubSeq(p, Len(a) + 1, Len(p)) \o q, l)]
        = WalkFrom(fs, follow)[W(p, q, l)]
  BY <1>1, <1>2, WalkDownDirectories
<1> QED BY <1>1, <1>3 DEF p

\* And from the root.
LEMMA WalkDownFromRoot ==
  ASSUME NEW fs, WellFormed(fs), NEW follow \in BOOLEAN,
         NEW p \in Seq(Name), Kind(fs, p) = "dir", NEW q \in Path
  PROVE  Walk(fs, p \o q, follow) = WalkFrom(fs, follow)[W(p, q, MaxLinks)]
<1> DEFINE e == <<>>
<1>1. e \in Seq(Name) /\ e \o p = p /\ MaxLinks \in 0..MaxLinks
  BY StateRootAssumption
<1>2. Walk(fs, p \o q, follow) = WalkFrom(fs, follow)[W(e, p \o q, MaxLinks)]
  BY DEF Walk, W
<1> HIDE DEF e
<1>3. Kind(fs, e \o p) = "dir"
  BY <1>1
<1>4. e \in Seq(Name) /\ MaxLinks \in 0..MaxLinks
  BY <1>1
<1>5. WalkFrom(fs, follow)[W(e, p \o q, MaxLinks)]
        = WalkFrom(fs, follow)[W(e \o p, q, MaxLinks)]
  BY <1>3, <1>4, WalkDown
<1> QED BY <1>1, <1>2, <1>5

\* A path without links leads where it says.
LEMMA RealLeadsToItself ==
  ASSUME NEW fs, WellFormed(fs), NEW follow \in BOOLEAN, NEW p, Real(fs, p)
  PROVE  Walk(fs, p, follow) = Found(p)
<1> DEFINE e == <<>>
<1>1. p \in Seq(Name) /\ p \in Path /\ e \in Path /\ MaxLinks \in 0..MaxLinks
  BY NamesArePaths, StateRootAssumption DEF Real, Path
<1>2. WalkFrom(fs, follow)[W(p, e, MaxLinks)] = Found(p)
  BY <1>1, WalkSteps
<1>3. CASE Kind(fs, p) = "dir"
  <2>1. p \o e = p
    BY <1>1
  <2> HIDE DEF e
  <2>2. Walk(fs, p \o e, follow) = WalkFrom(fs, follow)[W(p, e, MaxLinks)]
    BY <1>1, <1>3, WalkDownFromRoot
  <2> QED BY <1>2, <2>1, <2>2
<1>4. CASE Kind(fs, p) # "dir"
  <2>1. p # <<>> /\ Kind(fs, p) \in {"dir", "file"}
    BY <1>4 DEF Kind, Real
  <2>2. PICK d \in Seq(Name), n \in Name : p = Append(d, n)
    BY <1>1, <2>1, SequenceEmptyOrAppend
  <2>3. /\ Len(d) \in 0..Len(p) /\ Len(d) < Len(p) /\ SubSeq(p, 1, Len(d)) = d
        /\ d \in Path /\ p = d \o <<n>>
    BY <2>2, NamesArePaths
  <2>4. Kind(fs, d) = "dir"
    <3>1. Kind(fs, SubSeq(p, 1, Len(d))) = "dir"
      BY <2>1, <2>3, AboveIsDirectory
    <3> QED BY <2>3, <3>1
  <2> DEFINE r == <<n>>
  <2>5. r \in Path /\ r # <<>> /\ Head(r) = n /\ Tail(r) = e
    BY <2>2 DEF Path
  <2> HIDE DEF r, e
  <2>6. Walk(fs, d \o r, follow) = WalkFrom(fs, follow)[W(d, r, MaxLinks)]
    BY <1>1, <2>4, <2>5, WalkDownFromRoot
  <2>7. WalkFrom(fs, follow)[W(d, r, MaxLinks)]
          = WalkFrom(fs, follow)[W(Append(d, Head(r)), Tail(r), MaxLinks)]
    <3>1. Head(r) \in Name /\ Kind(fs, Append(d, Head(r))) \in {"dir", "file"}
      BY <2>1, <2>2, <2>5
    <3>2. d \in Path /\ r \in Path /\ r # <<>>
      BY <2>3, <2>5
    <3> QED BY <1>1, <2>4, <3>1, <3>2, WalkOneName
  <2>8. p = d \o r
    BY <2>3 DEF r
  <2> QED BY <1>2, <2>2, <2>5, <2>6, <2>7, <2>8
<1> QED BY <1>3, <1>4

\* What a walk that follows every link finds has no link.
LEMMA FoundIsReal ==
  ASSUME NEW fs, WellFormed(fs), NEW p \in Path, Canonicalize(fs, p).outcome = "found"
  PROVE  /\ Canonicalize(fs, p) = Found(Canonicalize(fs, p).path)
         /\ Real(fs, Canonicalize(fs, p).path)
<1> DEFINE walk == WalkFrom(fs, TRUE)
           S == {w \in Position : Real(fs, w.at) /\ walk[w].outcome = "found" =>
                                    walk[w] = Found(walk[w].path) /\ Real(fs, walk[w].path)}
<1>1. ASSUME NEW w \in Position, WalkEnds(fs, w, TRUE) PROVE w \in S
  <2>1. walk[w] = Ending(fs, w)
    BY <1>1, WalkEquation
  <2> HIDE DEF walk
  <2>2. walk[w].outcome = "found" => walk[w] = Found(w.at)
    BY <2>1 DEF Ending, Missing, Refused
  <2> QED BY <2>2 DEF Found
<1>2. ASSUME NEW w \in Position, ~WalkEnds(fs, w, TRUE), Further(fs, w, TRUE) \in S
      PROVE  w \in S
  <2> DEFINE v == Further(fs, w, TRUE)
  <2>1. walk[w] = walk[v]
    BY <1>2, WalkEquation
  <2>2. ASSUME Real(fs, w.at) PROVE Real(fs, v.at)
    <3>1. CASE MustFollow(fs, w, TRUE)
      <4>1. v.at = <<>>
        BY <3>1 DEF Further
      <4> HIDE DEF v
      <4>2. Kind(fs, <<>>) = "dir" /\ <<>> \in Seq(Name)
        BY DEF Kind
      <4> QED BY <4>1, <4>2 DEF Real
    <3>2. CASE ~MustFollow(fs, w, TRUE)
      <4>1. v.at = Onward(w) /\ Kind(fs, Onward(w)) # "link" /\ Kind(fs, Onward(w)) # "absent"
        BY <1>2, <3>2 DEF Further, MustFollow, WalkEnds
      <4> HIDE DEF v
      <4> DEFINE o == Onward(w)
      <4> HIDE DEF o
      <4>3. o \in Seq(Name) /\ Kind(fs, o) \in {"dir", "file"}
        BY <4>1, KindsOfEntries DEF o
      <4>2. Kind(fs, v.at) \in {"dir", "file"} /\ v.at \in Seq(Name)
        BY <4>1, <4>3 DEF o
      <4> QED BY <4>2 DEF Real
    <3> QED BY <3>1, <3>2
  <2> HIDE DEF walk, v
  <2> QED BY <1>2, <2>1, <2>2 DEF v
<1>3. \A w \in Position : w \in S
  <2> HIDE DEF S
  <2> QED BY <1>1, <1>2, WalkInduction
<1> DEFINE w == W(<<>>, p, MaxLinks)
<1>4. w \in Position /\ Real(fs, w.at)
  <2>1. <<>> \in Path /\ MaxLinks \in 0..MaxLinks
    BY StateRootAssumption DEF Path
  <2>2. w \in Position
    BY <2>1 DEF W, Position
  <2>3. w.at = <<>>
    BY DEF W
  <2> HIDE DEF w
  <2> QED BY <2>2, <2>3 DEF Real, Kind
<1>5. Canonicalize(fs, p) = walk[w]
  BY DEF Canonicalize, Walk, W
<1> HIDE DEF walk, w
<1> QED BY <1>3, <1>4, <1>5

\* A longer path is walked to where the shorter one leads, and on from there.
LEMMA WalkOn ==
  ASSUME NEW fs, WellFormed(fs), NEW p \in Path, Canonicalize(fs, p).outcome = "found",
         NEW q \in Path, q # <<>>, NEW follow \in BOOLEAN
  PROVE  \E l \in 0..MaxLinks : Walk(fs, p \o q, follow)
           = WalkFrom(fs, follow)[W(Canonicalize(fs, p).path, q, l)]
<1> DEFINE walk == WalkFrom(fs, TRUE)
           on == WalkFrom(fs, follow)
           S == {w \in Position : walk[w].outcome = "found" =>
                   \E l \in 0..MaxLinks :
                      on[W(w.at, w.rest \o q, w.links)] = on[W(walk[w].path, q, l)]}
<1>1. ASSUME NEW w \in Position, WalkEnds(fs, w, TRUE) PROVE w \in S
  <2>1. walk[w] = Ending(fs, w)
    BY <1>1, WalkEquation
  <2> HIDE DEF walk, on
  <2>2. SUFFICES ASSUME walk[w].outcome = "found"
                 PROVE  \E l \in 0..MaxLinks :
                           on[W(w.at, w.rest \o q, w.links)] = on[W(walk[w].path, q, l)]
    OBVIOUS
  <2>3. w.rest = <<>> /\ walk[w].path = w.at
    BY <2>1, <2>2 DEF Ending, Missing, Refused, Found
  <2>4. w.rest \o q = q /\ w.links \in 0..MaxLinks
    BY <2>3, Positions DEF Path
  <2> QED BY <2>3, <2>4
<1>2. ASSUME NEW w \in Position, ~WalkEnds(fs, w, TRUE), Further(fs, w, TRUE) \in S
      PROVE  w \in S
  <2> DEFINE v == Further(fs, w, TRUE)
             x == W(w.at, w.rest \o q, w.links)
             y == W(v.at, v.rest \o q, v.links)
  <2>1. walk[w] = walk[v]
    BY <1>2, WalkEquation
  <2>2. /\ w.at \in Path /\ w.rest \in Path /\ w.links \in 0..MaxLinks /\ w.rest # <<>>
        /\ w = W(w.at, w.rest, w.links)
    BY <1>2, Positions DEF WalkEnds
  <2>3. /\ w.rest \o q \in Path /\ w.rest \o q # <<>> /\ Head(w.rest \o q) = Head(w.rest)
        /\ Tail(w.rest \o q) = Tail(w.rest) \o q /\ Tail(w.rest \o q) # <<>>
        /\ Tail(w.rest) \in Path
    <3> DEFINE r == w.rest
    <3>1. r \in Path /\ r # <<>>
      BY <2>2
    <3> HIDE DEF r
    <3>2. /\ r \o q \in Path /\ Head(r \o q) = Head(r)
          /\ Tail(r \o q) = Tail(r) \o q /\ Tail(r) \in Path
      BY <3>1 DEF Path
    <3>3. r \o q # <<>> /\ Tail(r) \o q # <<>>
      BY <3>1, <3>2, ConcatEqualIffEmpty DEF Path
    <3> QED BY <3>2, <3>3 DEF r
  <2>4. x \in Position /\ x.at = w.at /\ x.links = w.links /\ x.rest = w.rest \o q
    BY <2>2, <2>3 DEF W, Position
  <2> HIDE DEF x
  <2>5. Onward(x) = Onward(w)
    BY <2>3, <2>4 DEF Onward
  <2>6. MustFollow(fs, x, follow) <=> MustFollow(fs, w, TRUE)
    BY <2>3, <2>4, <2>5 DEF MustFollow
  <2>7. ~WalkEnds(fs, x, follow)
    BY <1>2, <2>3, <2>4, <2>5, <2>6 DEF WalkEnds
  <2>8. on[x] = on[Further(fs, x, follow)]
    BY <2>4, <2>7, WalkEquation
  <2>9. Further(fs, x, follow) = y
    <3>1. CASE MustFollow(fs, w, TRUE)
      <4> DEFINE t == fs.entry[Onward(w)].target
      <4>1. Onward(w) \in DOMAIN fs.entry /\ fs.entry[Onward(w)].kind = "link"
        BY <3>1 DEF MustFollow, Kind
      <4>2. t \in Path
        BY <4>1 DEF WellFormed, Dir, File, LinkTo
      <4> HIDE DEF t
      <4>3. (t \o Tail(w.rest)) \o q = t \o (Tail(w.rest) \o q)
        <5> DEFINE u == Tail(w.rest)
        <5>1. u \in Path
          BY <2>3
        <5> HIDE DEF u
        <5>2. (t \o u) \o q = t \o (u \o q)
          BY <4>2, <5>1, ConcatAssociative DEF Path
        <5> QED BY <5>2 DEF u
      <4>4. v = [at |-> <<>>, rest |-> t \o Tail(w.rest), links |-> w.links - 1]
        BY <3>1 DEF Further, t
      <4>5. Further(fs, x, follow)
              = [at |-> <<>>, rest |-> t \o Tail(x.rest), links |-> w.links - 1]
        BY <2>4, <2>5, <2>6, <3>1 DEF Further, t
      <4> HIDE DEF v
      <4>6. v.at = <<>> /\ v.rest = t \o Tail(w.rest) /\ v.links = w.links - 1
        BY <4>4
      <4> QED BY <2>3, <2>4, <4>3, <4>5, <4>6 DEF W
    <3>2. CASE ~MustFollow(fs, w, TRUE)
      <4>1. v = [at |-> Onward(w), rest |-> Tail(w.rest), links |-> w.links]
        BY <3>2 DEF Further
      <4>2. Further(fs, x, follow) = [at |-> Onward(w), rest |-> Tail(x.rest), links |-> w.links]
        BY <2>4, <2>5, <2>6, <3>2 DEF Further
      <4> HIDE DEF v
      <4> QED BY <2>3, <2>4, <4>1, <4>2 DEF W
    <3> QED BY <3>1, <3>2
  <2> HIDE DEF walk, on, v, y
  <2>10. walk[v].outcome = "found" => \E l \in 0..MaxLinks : on[y] = on[W(walk[v].path, q, l)]
    BY <1>2 DEF v, y
  <2>11. walk[w].outcome = "found" => \E l \in 0..MaxLinks : on[x] = on[W(walk[w].path, q, l)]
    BY <2>1, <2>8, <2>9, <2>10
  <2> QED BY <2>11 DEF x
<1>3. \A w \in Position : w \in S
  <2> HIDE DEF S
  <2> QED BY <1>1, <1>2, WalkInduction
<1> DEFINE w == W(<<>>, p, MaxLinks)
<1>4. w \in Position /\ w.at = <<>> /\ w.rest = p /\ w.links = MaxLinks
  <2>1. <<>> \in Path /\ MaxLinks \in 0..MaxLinks
    BY StateRootAssumption DEF Path
  <2> QED BY <2>1 DEF W, Position
<1>5. Canonicalize(fs, p) = walk[w]
  BY DEF Canonicalize, Walk, W
<1>6. Walk(fs, p \o q, follow) = on[W(<<>>, p \o q, MaxLinks)]
  BY DEF Walk, W
<1>7. walk[w].outcome = "found" => \E l \in 0..MaxLinks :
         on[W(w.at, w.rest \o q, w.links)] = on[W(walk[w].path, q, l)]
  <2> HIDE DEF walk, on, w
  <2> QED BY <1>3, <1>4
<1> HIDE DEF walk, w
<1> QED BY <1>4, <1>5, <1>6, <1>7

\* A bounded set of naturals that is not empty has a greatest element.
LEMMA GreatestNumber ==
  ASSUME NEW n \in Nat, NEW T \in SUBSET (0..n), T # {}
  PROVE  \E x \in T : \A y \in T : y <= x
<1> DEFINE U == {n - t : t \in T}
<1>1. U \in SUBSET Nat /\ U # {}
  OBVIOUS
<1>2. PICK u \in U : \A v \in U : u <= v
  <2> HIDE DEF U
  <2> QED BY <1>1, LeastNumber
<1>3. PICK x \in T : u = n - x
  OBVIOUS
<1>4. \A y \in T : n - y \in U
  OBVIOUS
<1> HIDE DEF U
<1>5. \A y \in T : n - x <= n - y /\ x \in Int /\ y \in Int
  BY <1>2, <1>3, <1>4
<1> QED BY <1>3, <1>5

-----------------------------------------------------------------------------
(* Without `.` and `..`.                                                      *)

V(a, r) == [at |-> a, rest |-> r]

\* The recursion of absolute_normalized.
LEMMA LexicalEquation ==
  ASSUME NEW a \in Path, NEW r \in Path
  PROVE  Lexically[V(a, r)] = IF r = <<>> THEN a ELSE Lexically[V(Onward(V(a, r)), Tail(r))]
<1> DEFINE P == [at : Path, rest : Path]
           stop == {v \in P : v.rest = <<>>}
           out == [v \in P |-> v.at]
           step == [v \in P |-> IF v \in stop THEN v ELSE V(Onward(v), Tail(v.rest))]
           walk(f) == [v \in P |-> IF v.rest = <<>> THEN v.at
                                   ELSE f[[at |-> Onward(v), rest |-> Tail(v.rest)]]]
<1>1. step \in [P -> P] /\ stop \in SUBSET P
  <2>1. \A v \in P : v.rest # <<>> => V(Onward(v), Tail(v.rest)) \in P
    <3> SUFFICES ASSUME NEW v \in P, v.rest # <<>> PROVE V(Onward(v), Tail(v.rest)) \in P
      OBVIOUS
    <3>1. Onward(v) \in Path
      BY OnwardIsAPath
    <3>2. Tail(v.rest) \in Path
      BY DEF Path
    <3> QED BY <3>1, <3>2 DEF V
  <2> HIDE DEF P
  <2> QED BY <2>1
<1>2. PICK f : HandsOn(f, P, stop, out, step)
  <2> HIDE DEF stop, out, step, P
  <2> QED BY <1>1, TailRecursion
<1>3. \A v \in P : (IF v \in stop THEN out[v] ELSE f[step[v]])
         = IF v.rest = <<>> THEN v.at ELSE f[[at |-> Onward(v), rest |-> Tail(v.rest)]]
  <2> HIDE DEF P
  <2> QED BY DEF V
<1>4. f = walk(f)
  <2> HIDE DEF P
  <2>1. \A v \in P : f[v] = IF v.rest = <<>> THEN v.at
                            ELSE f[[at |-> Onward(v), rest |-> Tail(v.rest)]]
    BY <1>2, <1>3 DEF HandsOn
  <2> HIDE DEF stop, out, step
  <2> QED BY <1>2, <2>1 DEF HandsOn
<1>5. Lexically = walk(Lexically)
  <2>1. Lexically = CHOOSE g : g = walk(g)
    BY DEF Lexically
  <2> HIDE DEF walk
  <2> QED BY <1>4, <2>1
<1>6. V(a, r) \in P /\ V(a, r).at = a /\ V(a, r).rest = r
  BY DEF V
<1> HIDE DEF stop, out, step, P
<1>7. Lexically[V(a, r)] = IF V(a, r).rest = <<>> THEN V(a, r).at
         ELSE Lexically[[at |-> Onward(V(a, r)), rest |-> Tail(V(a, r).rest)]]
  BY <1>5, <1>6
<1> QED BY <1>6, <1>7 DEF V

\* Only names are left, and names alone are left as they are.
LEMMA LexicalNames ==
  ASSUME NEW p \in Path
  PROVE  /\ AbsoluteNormalized(p) \in Seq(Name)
         /\ p \in Seq(Name) => AbsoluteNormalized(p) = p
<1> DEFINE Right(a, r) == /\ Lexically[V(a, r)] \in Seq(Name)
                          /\ r \in Seq(Name) => Lexically[V(a, r)] = a \o r
           T == {n \in Nat : \E a \in Seq(Name), r \in Path : Len(r) = n /\ ~Right(a, r)}
<1>1. T = {}
  <2> SUFFICES ASSUME T # {} PROVE FALSE
    OBVIOUS
  <2>1. T \in SUBSET Nat
    OBVIOUS
  <2>2. PICK n \in T : \A m \in T : n <= m
    <3> HIDE DEF T
    <3> QED BY <2>1, LeastNumber
  <2>3. PICK a \in Seq(Name), r \in Path : Len(r) = n /\ ~Right(a, r)
    OBVIOUS
  <2>4. a \in Path /\ n \in Nat
    BY NamesArePaths
  <2>5. r # <<>>
    <3> SUFFICES ASSUME r = <<>> PROVE FALSE
      OBVIOUS
    <3>1. Lexically[V(a, r)] = a
      BY <2>4, LexicalEquation
    <3>2. a \o r = a
      OBVIOUS
    <3> QED BY <2>3, <3>1, <3>2
  <2> DEFINE b == Onward(V(a, r))
             t == Tail(r)
             h == Head(r)
  <2>6. Lexically[V(a, r)] = Lexically[V(b, t)]
    BY <2>4, <2>5, LexicalEquation
  <2>7. h \in Name \cup {Parent} /\ t \in Path /\ Len(t) = n - 1 /\ n - 1 \in Nat
    BY <2>3, <2>5 DEF Path
  <2>8. b = IF h = Parent THEN Up(a) ELSE Append(a, h)
    BY DEF Onward, V
  <2> HIDE DEF b, h
  <2>9. b \in Seq(Name)
    BY <2>7, <2>8 DEF Up
  <2>10. Right(b, t)
    <3> HIDE DEF Right, t
    <3>1. n - 1 \notin T
      <4> HIDE DEF T
      <4> QED BY <2>2, <2>4
    <3> QED BY <2>7, <2>9, <3>1
  <2>11. ASSUME r \in Seq(Name) PROVE b \o t = a \o r /\ t \in Seq(Name)
    <3>1. h \in Name /\ h # Parent /\ t \in Seq(Name) /\ r = <<h>> \o t
      BY <2>5, <2>11, StateRootAssumption DEF h
    <3>2. b = a \o <<h>>
      BY <2>8, <3>1
    <3> DEFINE s == <<h>>
    <3>3. s \in Seq(Name) /\ t \in Seq(Name) /\ a \in Seq(Name)
      BY <3>1
    <3> HIDE DEF s, t, T
    <3>4. (a \o s) \o t = a \o (s \o t)
      BY <3>3, ConcatAssociative
    <3> QED BY <3>1, <3>2, <3>4 DEF s
  <2> QED BY <2>3, <2>6, <2>10, <2>11
<1>2. AbsoluteNormalized(p) = Lexically[V(<<>>, p)]
  BY DEF AbsoluteNormalized, V
<1> DEFINE e == <<>>
<1>3. e \in Seq(Name) /\ Len(p) \in Nat
  BY DEF Path
<1>4. Right(e, p)
  <2> HIDE DEF Right, e
  <2>1. Len(p) \notin T
    BY <1>1
  <2> QED BY <1>3, <2>1
<1>5. p \in Seq(Name) => e \o p = p
  OBVIOUS
<1> QED BY <1>2, <1>4, <1>5

-----------------------------------------------------------------------------
(* A file system with more in it.                                            *)

Extends(made, fs) == \A p \in DOMAIN fs.entry : p \in DOMAIN made.entry
                                                /\ made.entry[p] = fs.entry[p]

\* What was there is there.
LEMMA SameKinds ==
  ASSUME NEW fs, NEW made, Extends(made, fs), NEW p, Kind(fs, p) # "absent"
  PROVE  Kind(made, p) = Kind(fs, p)
BY DEF Extends, Kind

\* What is found is still found there.
LEMMA FoundAgain ==
  ASSUME NEW fs, WellFormed(fs), NEW made, WellFormed(made), Extends(made, fs),
         NEW p \in Path, Canonicalize(fs, p).outcome = "found"
  PROVE  Canonicalize(made, p) = Canonicalize(fs, p)
<1> DEFINE walk == WalkFrom(fs, TRUE)
           again == WalkFrom(made, TRUE)
           S == {w \in Position : walk[w].outcome = "found" => again[w] = walk[w]}
<1>1. ASSUME NEW w \in Position, WalkEnds(fs, w, TRUE) PROVE w \in S
  <2>1. walk[w] = Ending(fs, w)
    BY <1>1, WalkEquation
  <2>2. w.rest = <<>> => again[w] = Found(w.at)
    <3>1. w.rest = <<>> => WalkEnds(made, w, TRUE) /\ Ending(made, w) = Found(w.at)
      BY DEF WalkEnds, Ending
    <3> QED BY <3>1, WalkEquation
  <2> HIDE DEF walk, again
  <2>3. walk[w].outcome = "found" => w.rest = <<>> /\ walk[w] = Found(w.at)
    BY <2>1 DEF Ending, Missing, Refused
  <2> QED BY <2>2, <2>3
<1>2. ASSUME NEW w \in Position, ~WalkEnds(fs, w, TRUE), Further(fs, w, TRUE) \in S
      PROVE  w \in S
  <2>1. /\ w.rest # <<>> /\ Kind(fs, w.at) = "dir" /\ Kind(fs, Onward(w)) # "absent"
        /\ ~(MustFollow(fs, w, TRUE) /\ w.links = 0)
    BY <1>2 DEF WalkEnds
  <2>2. Kind(made, w.at) = "dir" /\ Kind(made, Onward(w)) = Kind(fs, Onward(w))
    BY <2>1, SameKinds
  <2>3. MustFollow(made, w, TRUE) <=> MustFollow(fs, w, TRUE)
    BY <2>2 DEF MustFollow
  <2>4. ~WalkEnds(made, w, TRUE)
    BY <2>1, <2>2, <2>3 DEF WalkEnds
  <2>5. Further(made, w, TRUE) = Further(fs, w, TRUE)
    <3>1. CASE MustFollow(fs, w, TRUE)
      <4>1. Onward(w) \in DOMAIN fs.entry
        BY <3>1 DEF MustFollow, Kind
      <4>2. made.entry[Onward(w)] = fs.entry[Onward(w)]
        BY <4>1 DEF Extends
      <4> QED BY <2>3, <3>1, <4>2 DEF Further
    <3>2. CASE ~MustFollow(fs, w, TRUE)
      BY <2>3, <3>2 DEF Further
    <3> QED BY <3>1, <3>2
  <2>6. walk[w] = walk[Further(fs, w, TRUE)] /\ again[w] = again[Further(fs, w, TRUE)]
    BY <1>2, <2>4, <2>5, WalkEquation
  <2> HIDE DEF walk, again
  <2> QED BY <1>2, <2>6
<1>3. \A w \in Position : w \in S
  <2> HIDE DEF S
  <2> QED BY <1>1, <1>2, WalkInduction
<1> DEFINE w == W(<<>>, p, MaxLinks)
<1>4. w \in Position
  <2>1. <<>> \in Path /\ MaxLinks \in 0..MaxLinks
    BY StateRootAssumption DEF Path
  <2> QED BY <2>1 DEF W, Position
<1>5. Canonicalize(fs, p) = walk[w] /\ Canonicalize(made, p) = again[w]
  BY DEF Canonicalize, Walk, W
<1> HIDE DEF walk, again, w
<1> QED BY <1>3, <1>4, <1>5

-----------------------------------------------------------------------------
(* Where a path is made.                                                     *)

\* e leads to c, and there is no m in it.
Leads(fs, e, c, m) ==
    /\ e \in Seq(Name) /\ m \in Seq(Name)
    /\ Canonicalize(fs, e) = Found(c) /\ Real(fs, c)
    /\ m # <<>> => Kind(fs, c) = "dir" /\ Kind(fs, Append(c, Head(m))) = "absent"

\* Nothing is found at e followed by what is not there.
LEMMA NothingBeyond ==
  ASSUME NEW fs, WellFormed(fs), NEW e, NEW c, NEW m, Leads(fs, e, c, m),
         NEW s \in Seq(Name), s # <<>>, m # <<>>, Head(s) = Head(m)
  PROVE  Canonicalize(fs, e \o s) = Missing
<1>1. e \in Path /\ s \in Path /\ c \in Path /\ Head(s) \in Name
  BY NamesArePaths DEF Leads, Real
<1>2. Canonicalize(fs, e).outcome = "found" /\ Canonicalize(fs, e).path = c
  BY DEF Leads, Found
<1>3. PICK l \in 0..MaxLinks : Walk(fs, e \o s, TRUE) = WalkFrom(fs, TRUE)[W(c, s, l)]
  BY <1>1, <1>2, WalkOn
<1>4. Kind(fs, c) = "dir" /\ Kind(fs, Append(c, Head(s))) = "absent"
  BY DEF Leads
<1>5. WalkFrom(fs, TRUE)[W(c, s, l)] = Missing
  BY <1>1, <1>4, WalkToNothing
<1> QED BY <1>3, <1>5 DEF Canonicalize

\* So a path that leads to c by e is made under c.
LEMMA PlaceOfPath ==
  ASSUME NEW fs, WellFormed(fs), NEW e, NEW c, NEW m, Leads(fs, e, c, m)
  PROVE  Place(fs, e \o m) = c \o m
<1> DEFINE p == e \o m
           there == {k \in 0..Len(p) : Canonicalize(fs, SubSeq(p, 1, k)).outcome = "found"}
<1>1. /\ p \in Seq(Name) /\ Len(p) \in Nat /\ Len(e) \in 0..Len(p)
      /\ SubSeq(p, 1, Len(e)) = e /\ SubSeq(p, Len(e) + 1, Len(p)) = m
  BY DEF Leads
<1>2. Len(e) \in there
  <2>1. Canonicalize(fs, e).outcome = "found"
    BY DEF Leads, Found
  <2> HIDE DEF p
  <2> QED BY <1>1, <2>1
<1>3. ASSUME NEW k \in there PROVE k <= Len(e)
  <2> SUFFICES ASSUME k > Len(e) PROVE FALSE
    BY <1>1
  <2> DEFINE s == SubSeq(m, 1, k - Len(e))
  <2>1. /\ SubSeq(p, 1, k) = e \o s /\ s \in Seq(Name) /\ s # <<>> /\ m # <<>>
        /\ Head(s) = Head(m)
    <3>1. e \in Seq(Name) /\ m \in Seq(Name) /\ Len(p) = Len(e) + Len(m)
          /\ k - Len(e) \in 1..Len(m) /\ k = Len(e) + (k - Len(e))
      BY DEF Leads
    <3> DEFINE j == k - Len(e)
    <3>2. j \in 1..Len(m) /\ j \in 0..Len(m)
      BY <3>1
    <3> HIDE DEF j
    <3>3. SubSeq(e \o m, 1, Len(e) + j) = e \o SubSeq(m, 1, j)
      BY <3>1, <3>2
    <3>4. SubSeq(m, 1, j) \in Seq(Name) /\ Len(SubSeq(m, 1, j)) = j
          /\ SubSeq(m, 1, j)[1] = m[1]
      BY <3>1, <3>2
    <3>5. SubSeq(m, 1, j) # <<>> /\ m # <<>>
      BY <3>1, <3>2, <3>4
    <3>6. Head(SubSeq(m, 1, j)) = Head(m)
      BY <3>1, <3>2, <3>4, <3>5
    <3> QED BY <3>1, <3>3, <3>4, <3>5, <3>6 DEF j
  <2> HIDE DEF p, s
  <2>2. Canonicalize(fs, SubSeq(p, 1, k)) = Missing
    BY <2>1, NothingBeyond
  <2> QED BY <2>2 DEF Missing
<1>4. (CHOOSE i \in there : \A j \in there : j <= i) = Len(e)
  <2>1. there \subseteq Nat
    OBVIOUS
  <2> HIDE DEF there
  <2>2. \A i \in there : (\A j \in there : j <= i) => i = Len(e)
    BY <1>2, <1>3, <2>1
  <2> QED BY <1>2, <1>3, <2>2
<1>5. Place(fs, p) = Canonicalize(fs, SubSeq(p, 1, Len(e))).path
                       \o SubSeq(p, Len(e) + 1, Len(p))
  <2> HIDE DEF p
  <2> QED BY <1>4 DEF Place
<1> HIDE DEF p, there
<1>6. Canonicalize(fs, e).path = c
  BY DEF Leads, Found
<1>7. Place(fs, p) = c \o m
  BY <1>1, <1>5, <1>6
<1> QED BY <1>7 DEF p

-----------------------------------------------------------------------------
(* resolve_safe_state_root.                                                  *)

RootOf(fs, lexical, repositories) ==
    LET existing == Existing(fs, lexical)
        there == WhereItExists(fs, existing)
        missing == SubSeq(lexical, Len(existing) + 1, Len(lexical))
        resolved == there.path \o missing
    IN  IF /\ IsUsable(fs, existing, lexical)
           /\ there.outcome = "found"
           /\ ~(there.path = <<>> /\ existing # <<>>)
           /\ \A r \in repositories :
                 LET canonical == Canonicalize(fs, r)
                 IN  /\ canonical.outcome = "found"
                     /\ IsOutside(canonical.path, resolved, r, lexical)
        THEN AssertSafeStateRoot(resolved, {}) ELSE {}

\* resolve_safe_state_root is its checks on the normalized path.
LEMMA RootsOfLexical ==
  ASSUME NEW fs, NEW path, NEW repositories
  PROVE  ResolveSafeStateRoot(fs, path, repositories)
           = UNION {RootOf(fs, l, repositories) : l \in AssertSafeStateRoot(path, repositories)}
BY DEF ResolveSafeStateRoot, RootOf

\* assert_safe_state_root answers the normalized path, if anything.
LEMMA SafeRoots ==
  ASSUME NEW path, NEW repositories
  PROVE  /\ AssertSafeStateRoot(path, repositories) \in {{}, {AbsoluteNormalized(path)}}
         /\ \A l \in AssertSafeStateRoot(path, repositories) : l = AbsoluteNormalized(path)
BY DEF AssertSafeStateRoot

\* Asked about a path of names alone, it refuses the root only.
LEMMA SafeRootOfNames ==
  ASSUME NEW p \in Seq(Name)
  PROVE  AssertSafeStateRoot(p, {}) = IF p = <<>> THEN {} ELSE {p}
<1>1. AbsoluteNormalized(p) = p
  BY NamesArePaths, LexicalNames
<1> QED BY <1>1 DEF AssertSafeStateRoot

\* The part that exists is as long as can be.
LEMMA ExistingIsLongest ==
  ASSUME NEW fs, WellFormed(fs), NEW lexical \in Seq(Name)
  PROVE  \E k \in 0..Len(lexical) :
            /\ Existing(fs, lexical) = SubSeq(lexical, 1, k)
            /\ SymlinkMetadata(fs, SubSeq(lexical, 1, k)).outcome # "missing"
            /\ \A j \in 0..Len(lexical) :
                  j > k => SymlinkMetadata(fs, SubSeq(lexical, 1, j)).outcome = "missing"
<1> DEFINE there == {k \in 0..Len(lexical) :
                       SymlinkMetadata(fs, SubSeq(lexical, 1, k)).outcome # "missing"}
           k == CHOOSE i \in there : \A j \in there : j <= i
<1>1. 0 \in there
  <2>1. SubSeq(lexical, 1, 0) = <<>> /\ 0 \in 0..Len(lexical)
    OBVIOUS
  <2>2. Real(fs, <<>>)
    BY DEF Real, Kind
  <2>3. SymlinkMetadata(fs, <<>>).outcome = "found"
    <3> DEFINE above == <<>>
    <3>1. Real(fs, above)
      BY <2>2
    <3> HIDE DEF above
    <3>2. Walk(fs, above, FALSE) = Found(above)
      BY <3>1, RealLeadsToItself
    <3>3. Found(above).outcome = "found"
      BY DEF Found
    <3>4. SymlinkMetadata(fs, above).outcome = "found"
      BY <3>2, <3>3 DEF SymlinkMetadata
    <3> QED BY <3>4 DEF above
  <2> QED BY <2>1, <2>3
<1>2. there \in SUBSET (0..Len(lexical)) /\ there # {} /\ Len(lexical) \in Nat
  BY <1>1
<1>3. \E x \in there : \A y \in there : y <= x
  <2> HIDE DEF there
  <2> QED BY <1>2, GreatestNumber
<1>4. k \in there /\ \A j \in there : j <= k
  <2> HIDE DEF there
  <2> QED BY <1>3
<1>5. Existing(fs, lexical) = SubSeq(lexical, 1, k)
  BY DEF Existing
<1> HIDE DEF k
<1>6. \A j \in 0..Len(lexical) : j > k => j \notin there
  <2> HIDE DEF there
  <2> QED BY <1>2, <1>4
<1> QED BY <1>4, <1>5, <1>6

\* What is beyond the part that exists is in no directory.
LEMMA MissingIsAbsent ==
  ASSUME NEW fs, WellFormed(fs), NEW e \in Seq(Name), NEW n \in Name,
         Canonicalize(fs, e).outcome = "found",
         SymlinkMetadata(fs, Append(e, n)).outcome = "missing"
  PROVE  LET c == Canonicalize(fs, e).path
         IN  Kind(fs, c) = "dir" /\ Kind(fs, Append(c, n)) = "absent"
<1> DEFINE c == Canonicalize(fs, e).path
           q == <<n>>
<1>1. /\ e \in Path /\ q \in Path /\ q # <<>> /\ Head(q) = n /\ Tail(q) = <<>>
      /\ Append(e, n) = e \o q /\ n # Parent
  BY NamesArePaths, StateRootAssumption DEF Path
<1>2. c \in Path /\ c \in Seq(Name)
  BY <1>1, FoundIsReal, NamesArePaths DEF Real
<1> HIDE DEF c, q
<1>3. PICK l \in 0..MaxLinks : Walk(fs, e \o q, FALSE) = WalkFrom(fs, FALSE)[W(c, q, l)]
  BY <1>1, WalkOn DEF c
<1>4. WalkFrom(fs, FALSE)[W(c, q, l)].outcome = "missing"
  BY <1>1, <1>3 DEF SymlinkMetadata
<1>5. Onward(W(c, q, l)) = Append(c, n)
  BY <1>1 DEF Onward, W
<1>6. ~MustFollow(fs, W(c, q, l), FALSE)
  BY <1>1 DEF MustFollow, W
<1>7. WalkEnds(fs, W(c, q, l), FALSE)
  <2> SUFFICES ASSUME ~WalkEnds(fs, W(c, q, l), FALSE) PROVE FALSE
    OBVIOUS
  <2>1. Further(fs, W(c, q, l), FALSE) = W(Append(c, n), <<>>, l)
    BY <1>1, <1>5, <1>6 DEF Further, W
  <2>2. Append(c, n) \in Path /\ <<>> \in Path
    BY <1>2 DEF Path
  <2>3. WalkFrom(fs, FALSE)[W(Append(c, n), <<>>, l)] = Found(Append(c, n))
    BY <2>2, WalkSteps
  <2>4. WalkFrom(fs, FALSE)[W(c, q, l)] = Found(Append(c, n))
    <3>1. c \in Path /\ q \in Path
      BY <1>1, <1>2
    <3>2. WalkFrom(fs, FALSE)[W(c, q, l)] = WalkFrom(fs, FALSE)[Further(fs, W(c, q, l), FALSE)]
      BY <3>1, WalkSteps
    <3> QED BY <2>1, <2>3, <3>2
  <2>5. Found(Append(c, n)).outcome = "found"
    BY DEF Found
  <2> QED BY <1>4, <2>4, <2>5
<1>8. Ending(fs, W(c, q, l)).outcome = "missing"
  <2>1. c \in Path /\ q \in Path
    BY <1>1, <1>2
  <2>2. WalkFrom(fs, FALSE)[W(c, q, l)] = Ending(fs, W(c, q, l))
    BY <1>7, <2>1, WalkSteps
  <2> QED BY <1>4, <2>2
<1>9. Kind(fs, W(c, q, l).at) = "dir" /\ Kind(fs, Onward(W(c, q, l))) = "absent"
  BY <1>1, <1>8 DEF Ending, Found, Refused, W
<1>10. W(c, q, l).at = c
  BY DEF W
<1> QED BY <1>5, <1>9, <1>10 DEF c

\* How a state root r comes from a path.
Resolved(fs, path, repositories, e, c, m, r) ==
    /\ AssertSafeStateRoot(path, repositories) = {AbsoluteNormalized(path)}
    /\ AbsoluteNormalized(path) = e \o m
    /\ Leads(fs, e, c, m)
    /\ r = c \o m /\ r \in Seq(Name) /\ r # <<>>
    /\ ~(c = <<>> /\ e # <<>>)
    /\ \A own \in repositories : /\ Canonicalize(fs, own).outcome = "found"
                               /\ ~IsPrefix(Canonicalize(fs, own).path, r)

\* Every state root has come about that way.
LEMMA RootIsResolved ==
  ASSUME NEW fs, WellFormed(fs), NEW path \in Path, NEW repositories,
         NEW r \in ResolveSafeStateRoot(fs, path, repositories)
  PROVE  \E e, c, m : Resolved(fs, path, repositories, e, c, m, r)
<1> DEFINE lexical == AbsoluteNormalized(path)
           e == Existing(fs, lexical)
           c == Canonicalize(fs, e).path
           m == SubSeq(lexical, Len(e) + 1, Len(lexical))
<1>1. AssertSafeStateRoot(path, repositories) = {lexical} /\ r \in RootOf(fs, lexical, repositories)
  BY RootsOfLexical, SafeRoots
<1>2. lexical \in Seq(Name)
  BY LexicalNames
<1> HIDE DEF lexical
<1>3. PICK k \in 0..Len(lexical) :
         /\ e = SubSeq(lexical, 1, k)
         /\ \A j \in 0..Len(lexical) :
               j > k => SymlinkMetadata(fs, SubSeq(lexical, 1, j)).outcome = "missing"
  BY <1>2, ExistingIsLongest
<1> HIDE DEF e
<1>4. e \in Seq(Name) /\ Len(e) = k /\ m \in Seq(Name)
  BY <1>2, <1>3
<1>5. lexical = e \o m
  <2>1. SubSeq(lexical, 1, k) \o SubSeq(lexical, k + 1, Len(lexical))
          = SubSeq(lexical, 1, Len(lexical))
    <3>1. /\ 1 \in 1..(Len(lexical) + 1) /\ k \in (1 - 1)..Len(lexical)
          /\ Len(lexical) \in k..Len(lexical)
      BY <1>2
    <3> QED BY <1>2, <3>1, ConcatAdjacentSubSeq
  <2>2. SubSeq(lexical, 1, Len(lexical)) = lexical
    BY <1>2
  <2>3. m = SubSeq(lexical, k + 1, Len(lexical))
    BY <1>4
  <2> HIDE DEF m
  <2> QED BY <1>3, <2>1, <2>2, <2>3
<1>6. /\ Canonicalize(fs, e).outcome = "found"
      /\ ~(c = <<>> /\ e # <<>>)
      /\ \A own \in repositories : /\ Canonicalize(fs, own).outcome = "found"
                                 /\ ~IsPrefix(Canonicalize(fs, own).path, c \o m)
      /\ r \in AssertSafeStateRoot(c \o m, {})
  BY <1>1 DEF RootOf, WhereItExists, IsOutside, ContainsPath, e
<1>7. Canonicalize(fs, e) = Found(c) /\ Real(fs, c)
  BY <1>4, <1>6, NamesArePaths, FoundIsReal
<1>8. ASSUME m # <<>>
      PROVE  Kind(fs, c) = "dir" /\ Kind(fs, Append(c, Head(m))) = "absent"
  <2>1. k < Len(lexical) /\ Head(m) \in Name /\ Head(m) = lexical[k + 1]
    <3>1. Len(m) = Len(lexical) - k
      BY <1>2, <1>4
    <3>2. Len(m) # 0
      BY <1>4, <1>8
    <3>3. k < Len(lexical)
      BY <1>2, <3>1, <3>2
    <3> QED BY <1>2, <1>4, <1>8, <3>3
  <2>2. SubSeq(lexical, 1, k + 1) = Append(e, Head(m))
    BY <1>2, <1>3, <2>1
  <2>3. SymlinkMetadata(fs, SubSeq(lexical, 1, k + 1)).outcome = "missing"
    <3>1. k + 1 \in 0..Len(lexical) /\ k + 1 > k
      BY <1>2, <2>1
    <3> QED BY <1>3, <3>1
  <2> HIDE DEF m
  <2> QED BY <1>4, <1>6, <2>1, <2>2, <2>3, MissingIsAbsent
<1> HIDE DEF c, m
<1>9. c \o m \in Seq(Name)
  BY <1>4, <1>7 DEF Real
<1>10. r = c \o m /\ c \o m # <<>>
  BY <1>6, <1>9, SafeRootOfNames
<1>11. Leads(fs, e, c, m)
  BY <1>4, <1>7, <1>8 DEF Leads
<1>12. Resolved(fs, path, repositories, e, c, m, r)
  BY <1>1, <1>5, <1>6, <1>9, <1>10, <1>11 DEF Resolved, lexical
<1> QED BY <1>12

\* The state root is made where the path it came from leads, and is there itself.
LEMMA RootIsPlaced ==
  ASSUME NEW fs, WellFormed(fs), NEW path, NEW repositories, NEW e, NEW c, NEW m, NEW r,
         Resolved(fs, path, repositories, e, c, m, r)
  PROVE  Place(fs, AbsoluteNormalized(path)) = r /\ Place(fs, r) = r
<1>1. Leads(fs, e, c, m) /\ AbsoluteNormalized(path) = e \o m /\ r = c \o m
  BY DEF Resolved
<1>2. Leads(fs, c, c, m)
  BY <1>1, RealLeadsToItself DEF Leads, Real, Canonicalize
<1> QED BY <1>1, <1>2, PlaceOfPath

\* Its directories, once made.
LEMMA RootMade ==
  ASSUME NEW fs, WellFormed(fs), NEW path, NEW repositories, NEW e, NEW c, NEW m, NEW r,
         Resolved(fs, path, repositories, e, c, m, r), m # <<>>
  PROVE  LET made == WithDirectories(fs, r)
         IN  WellFormed(made) /\ Extends(made, fs) /\ Kind(made, r) = "dir"
<1> DEFINE above == {SubSeq(r, 1, k) : k \in 1..Len(r)}
           made == WithDirectories(fs, r)
           entry == [q \in DOMAIN fs.entry \cup above |->
                       IF q \in DOMAIN fs.entry THEN fs.entry[q] ELSE Dir]
<1>1. made.entry = entry /\ made.git = fs.git /\ made = [entry |-> made.entry, git |-> made.git]
  <2> DEFINE old == fs.entry
             git == fs.git
  <2>1. fs = [entry |-> old, git |-> git]
    BY DEF WellFormed
  <2> HIDE DEF entry
  <2>2. made = [fs EXCEPT !.entry = entry]
    BY DEF WithDirectories, entry
  <2> HIDE DEF made, old, git
  <2>3. made = [entry |-> entry, git |-> git]
    BY <2>1, <2>2
  <2> QED BY <2>1, <2>3
<1>2. /\ c \in Seq(Name) /\ m \in Seq(Name) /\ r \in Seq(Name) /\ r = c \o m /\ r # <<>>
      /\ Kind(fs, c) = "dir" /\ Kind(fs, Append(c, Head(m))) = "absent"
  BY DEF Resolved, Leads, Real
<1>3. Len(r) = Len(c) + Len(m) /\ Len(c) \in Nat /\ Len(m) \in Nat /\ Len(m) > 0 /\ Len(r) \in Nat
  BY <1>2
<1>4. SubSeq(r, 1, Len(c)) = c /\ SubSeq(r, 1, Len(c) + 1) = Append(c, Head(m))
  BY <1>2, <1>3
<1>5. ASSUME NEW j \in 0..Len(r), j <= Len(c) PROVE Kind(fs, SubSeq(r, 1, j)) = "dir"
  <2>1. SubSeq(r, 1, j) = SubSeq(c, 1, j)
    <3>1. SubSeq(SubSeq(r, 1, Len(c)), 1, j) = SubSeq(r, 1, j)
      BY <1>2, <1>3, <1>5
    <3> QED BY <1>4, <3>1
  <2>2. CASE j = Len(c)
    BY <1>2, <1>4, <2>2
  <2>3. CASE j < Len(c)
    <3>1. j \in 0..Len(c) /\ Kind(fs, c) # "absent"
      BY <1>2, <1>3, <2>3
    <3>2. Kind(fs, SubSeq(c, 1, j)) = "dir"
      BY <2>3, <3>1, AboveIsDirectory
    <3> QED BY <2>1, <3>2
  <2> QED BY <1>3, <1>5, <2>2, <2>3
<1>6. ASSUME NEW j \in 0..Len(r), j > Len(c) PROVE Kind(fs, SubSeq(r, 1, j)) = "absent"
  <2> DEFINE p == SubSeq(r, 1, j)
             i == Len(c) + 1
  <2>1. p \in Seq(Name) /\ Len(p) = j
    BY <1>2, <1>3
  <2>2. SubSeq(p, 1, i) = Append(c, Head(m)) /\ i \in 0..j
    <3>1. SubSeq(SubSeq(r, 1, j), 1, i) = SubSeq(r, 1, i) /\ i \in 0..j
      BY <1>2, <1>3, <1>6
    <3> QED BY <1>4, <3>1
  <2>3. CASE j = i
    BY <1>2, <1>4, <2>3
  <2>4. CASE j # i
    <3> SUFFICES ASSUME Kind(fs, p) # "absent" PROVE FALSE
      OBVIOUS
    <3> HIDE DEF p
    <3>1. i \in 0..Len(p) /\ i < Len(p)
      BY <2>1, <2>2, <2>4, <1>3
    <3>2. Kind(fs, SubSeq(p, 1, i)) = "dir"
      <4> HIDE DEF i
      <4> QED BY <3>1, AboveIsDirectory
    <3> QED BY <1>2, <2>2, <3>2
  <2> QED BY <2>3, <2>4
<1>7. Extends(made, fs)
  <2> HIDE DEF made, above
  <2> QED BY <1>1 DEF Extends
<1>8. ASSUME NEW j \in 0..Len(r) PROVE Kind(made, SubSeq(r, 1, j)) = "dir"
  <2>1. CASE j <= Len(c)
    BY <1>5, <1>7, <2>1, SameKinds
  <2>2. CASE j > Len(c)
    <3> DEFINE p == SubSeq(r, 1, j)
    <3>1. p # <<>> /\ p \in above
      <4>1. Len(p) = j /\ p \in Seq(Name) /\ j > 0 /\ j \in 1..Len(r)
        BY <1>2, <1>3, <2>2
      <4>2. p \in above
        BY <4>1
      <4> HIDE DEF p
      <4> QED BY <4>1, <4>2
    <3>2. p \notin DOMAIN fs.entry
      <4>1. Kind(fs, p) = "absent"
        BY <1>6, <2>2
      <4>2. p \in DOMAIN fs.entry => fs.entry[p].kind \in {"dir", "file", "link"}
        BY DEF WellFormed, Dir, File, LinkTo
      <4> HIDE DEF p
      <4> QED BY <3>1, <4>1, <4>2 DEF Kind
    <3> HIDE DEF p, made, above
    <3>3. p \in DOMAIN made.entry /\ made.entry[p] = Dir
      BY <1>1, <3>1, <3>2
    <3>4. Kind(made, p) = "dir"
      BY <3>1, <3>3 DEF Kind, Dir
    <3> QED BY <3>4 DEF p
  <2> QED BY <1>3, <2>1, <2>2
<1>9. ASSUME NEW p \in DOMAIN made.entry
      PROVE  /\ p \in Seq(Name)
             /\ made.entry[p] \in {Dir, File} \cup {LinkTo(t) : t \in Path}
             /\ \A k \in 0..(Len(p) - 1) : Kind(made, SubSeq(p, 1, k)) = "dir"
  <2>1. CASE p \in DOMAIN fs.entry
    <3>1. /\ p \in Seq(Name) /\ fs.entry[p] \in {Dir, File} \cup {LinkTo(t) : t \in Path}
          /\ \A k \in 0..(Len(p) - 1) : Kind(fs, SubSeq(p, 1, k)) = "dir"
      BY <2>1 DEF WellFormed
    <3>2. made.entry[p] = fs.entry[p]
      BY <1>7, <2>1 DEF Extends
    <3>3. \A k \in 0..(Len(p) - 1) : Kind(made, SubSeq(p, 1, k)) = "dir"
      BY <1>7, <3>1, SameKinds
    <3> QED BY <3>1, <3>2, <3>3
  <2>2. CASE p \notin DOMAIN fs.entry
    <3>1. p \in above /\ made.entry[p] = Dir
      <4> HIDE DEF made, above
      <4> QED BY <1>1, <2>2
    <3>2. PICK j \in 1..Len(r) : p = SubSeq(r, 1, j)
      BY <3>1
    <3>3. p \in Seq(Name) /\ Len(p) = j
      BY <1>2, <3>2
    <3>4. ASSUME NEW k \in 0..(Len(p) - 1) PROVE Kind(made, SubSeq(p, 1, k)) = "dir"
      <4>1. SubSeq(p, 1, k) = SubSeq(r, 1, k) /\ k \in 0..Len(r)
        BY <1>2, <1>3, <3>2, <3>3
      <4> HIDE DEF made
      <4> QED BY <1>8, <4>1
    <3> HIDE DEF made, above
    <3> QED BY <3>1, <3>3, <3>4
  <2> QED BY <2>1, <2>2
<1>10. WellFormed(made)
  <2>1. made.entry = [p \in DOMAIN made.entry |-> made.entry[p]]
    <3> HIDE DEF made, above
    <3> QED BY <1>1
  <2> HIDE DEF made
  <2> QED BY <1>1, <1>9, <2>1 DEF WellFormed
<1>11. Kind(made, r) = "dir"
  <2>1. SubSeq(r, 1, Len(r)) = r /\ Len(r) \in 0..Len(r)
    BY <1>2, <1>3
  <2> HIDE DEF made
  <2> QED BY <1>8, <2>1
<1> QED BY <1>7, <1>10, <1>11

\* Where all of it is there, nothing is made.
LEMMA NothingMade ==
  ASSUME NEW fs, WellFormed(fs), NEW p, Real(fs, p)
  PROVE  WithDirectories(fs, p) = fs
<1> DEFINE above == {SubSeq(p, 1, k) : k \in 1..Len(p)}
<1>1. p \in Seq(Name) /\ Kind(fs, p) # "absent"
  BY DEF Real
<1>2. ASSUME NEW k \in 1..Len(p) PROVE SubSeq(p, 1, k) \in DOMAIN fs.entry
  <2> DEFINE q == SubSeq(p, 1, k)
  <2>1. q # <<>>
    <3>1. q \in Seq(Name) /\ Len(q) = k
      BY <1>1
    <3> HIDE DEF q
    <3> QED BY <3>1
  <2>2. Kind(fs, q) # "absent"
    <3>1. CASE k = Len(p)
      <4>1. SubSeq(p, 1, Len(p)) = p
        BY <1>1
      <4> QED BY <1>1, <3>1, <4>1
    <3>2. CASE k < Len(p)
      <4>1. k \in 0..Len(p)
        BY <1>1
      <4>2. Kind(fs, SubSeq(p, 1, k)) = "dir"
        BY <1>1, <3>2, <4>1, AboveIsDirectory
      <4> QED BY <4>2
    <3> QED BY <1>1, <3>1, <3>2
  <2> HIDE DEF q
  <2>3. q \in DOMAIN fs.entry
    BY <2>1, <2>2, KindsOfEntries
  <2> QED BY <2>3 DEF q
<1>3. DOMAIN fs.entry \cup above = DOMAIN fs.entry
  BY <1>2
<1> DEFINE entry == [q \in DOMAIN fs.entry \cup above |->
                       IF q \in DOMAIN fs.entry THEN fs.entry[q] ELSE Dir]
<1>4. WithDirectories(fs, p) = [fs EXCEPT !.entry = entry]
  BY DEF WithDirectories
<1>5. entry = fs.entry
  <2>1. fs.entry = [q \in DOMAIN fs.entry |-> fs.entry[q]]
    BY DEF WellFormed
  <2> HIDE DEF above
  <2> QED BY <1>3, <2>1
<1> HIDE DEF entry
<1> QED BY <1>4, <1>5 DEF WellFormed

\* And then it is still the state root.
LEMMA RootAgain ==
  ASSUME NEW fs, WellFormed(fs), NEW path \in Path, NEW repositories,
         \A own \in repositories : own \in Path,
         NEW r \in ResolveSafeStateRoot(fs, path, repositories)
  PROVE  ResolveSafeStateRoot(WithDirectories(fs, r), path, repositories) = {r}
<1> DEFINE lexical == AbsoluteNormalized(path)
           made == WithDirectories(fs, r)
<1>1. PICK e, c, m : Resolved(fs, path, repositories, e, c, m, r)
  BY RootIsResolved
<1>2. /\ AssertSafeStateRoot(path, repositories) = {lexical} /\ lexical = e \o m
      /\ e \in Seq(Name) /\ m \in Seq(Name) /\ c \in Seq(Name) /\ lexical \in Seq(Name)
      /\ Canonicalize(fs, e) = Found(c) /\ Real(fs, c) /\ r = c \o m /\ r \in Seq(Name) /\ r # <<>>
  BY <1>1, LexicalNames DEF Resolved, Leads, Real
<1>6. lexical \in Seq(Name) /\ Len(lexical) \in Nat
  BY <1>2
<1>3. \A f : ResolveSafeStateRoot(f, path, repositories) = RootOf(f, lexical, repositories)
  BY <1>2, RootsOfLexical
<1> HIDE DEF lexical
<1>4. CASE m = <<>>
  <2>1. r = c
    BY <1>2, <1>4
  <2>2. made = fs
    BY <1>2, <2>1, NothingMade
  <2>3. r \in RootOf(fs, lexical, repositories)
    BY <1>3
  <2>4. \E x \in Seq(Name) : RootOf(fs, lexical, repositories) \in {{}, AssertSafeStateRoot(x, {})}
    <3> DEFINE there == WhereItExists(fs, Existing(fs, lexical))
               missing == SubSeq(lexical, Len(Existing(fs, lexical)) + 1, Len(lexical))
    <3>1. there.outcome = "found" => there.path \o missing \in Seq(Name)
      <4>1. PICK k \in 0..Len(lexical) : Existing(fs, lexical) = SubSeq(lexical, 1, k)
        BY <1>6, ExistingIsLongest
      <4>2. Existing(fs, lexical) \in Path /\ missing \in Seq(Name)
        <5>1. Existing(fs, lexical) \in Seq(Name) /\ Len(Existing(fs, lexical)) = k
          BY <1>2, <4>1
        <5>2. SubSeq(lexical, k + 1, Len(lexical)) \in Seq(Name)
          BY <1>2
        <5> QED BY <5>1, <5>2, NamesArePaths
      <4>3. there.outcome = "found" => there.path \in Seq(Name)
        BY <4>2, FoundIsReal DEF WhereItExists, Real
      <4> HIDE DEF there, missing
      <4> QED BY <4>2, <4>3
    <3>2. \/ RootOf(fs, lexical, repositories) = {}
          \/ /\ there.outcome = "found"
             /\ RootOf(fs, lexical, repositories) = AssertSafeStateRoot(there.path \o missing, {})
      BY DEF RootOf
    <3> HIDE DEF there, missing
    <3>3. CASE RootOf(fs, lexical, repositories) = {}
      BY <1>6, <3>3
    <3>4. CASE RootOf(fs, lexical, repositories) # {}
      BY <3>1, <3>2, <3>4
    <3> QED BY <3>3, <3>4
  <2>5. RootOf(fs, lexical, repositories) = {r}
    BY <2>3, <2>4, SafeRootOfNames
  <2> QED BY <1>3, <2>2, <2>5
<1>5. CASE m # <<>>
  <2>1. WellFormed(made) /\ Extends(made, fs) /\ Kind(made, r) = "dir"
    BY <1>1, <1>5, RootMade
  <2> HIDE DEF made
  <2>2. Canonicalize(made, e).outcome = "found" /\ Canonicalize(made, e).path = c
    <3>1. Canonicalize(fs, e).outcome = "found" /\ Canonicalize(fs, e).path = c
      BY <1>2 DEF Found
    <3>2. e \in Path
      BY <1>2, NamesArePaths
    <3>3. Canonicalize(made, e) = Canonicalize(fs, e)
      BY <2>1, <3>1, <3>2, FoundAgain
    <3> QED BY <3>1, <3>3
  <2>3. ASSUME NEW follow \in BOOLEAN PROVE Walk(made, lexical, follow) = Found(r)
    <3>1. e \in Path /\ m \in Path /\ r \in Path
      BY <1>2, NamesArePaths
    <3>2. PICK l \in 0..MaxLinks : Walk(made, e \o m, follow) = WalkFrom(made, follow)[W(c, m, l)]
      BY <1>5, <2>1, <2>2, <3>1, WalkOn
    <3> DEFINE q == <<>>
    <3>3. q \in Path /\ m \o q = m
      BY <1>2 DEF Path
    <3>4. WalkFrom(made, follow)[W(r, q, l)] = Found(r)
      BY <2>1, <3>1, <3>3, WalkSteps
    <3> HIDE DEF q
    <3>5. Kind(made, c \o m) = "dir" /\ c \in Seq(Name) /\ m \in Seq(Name)
      BY <1>2, <2>1
    <3>6. WalkFrom(made, follow)[W(c, m \o q, l)] = WalkFrom(made, follow)[W(c \o m, q, l)]
      <4>1. q \in Path
        BY <3>3
      <4> QED BY <2>1, <3>5, <4>1, WalkDown
    <3> QED BY <1>2, <3>2, <3>3, <3>4, <3>6
  <2>4. SymlinkMetadata(made, lexical) = Found(r) /\ Canonicalize(made, lexical) = Found(r)
    BY <2>3 DEF SymlinkMetadata, Canonicalize
  <2>5. Existing(made, lexical) = lexical
    <3>1. PICK k \in 0..Len(lexical) :
             /\ Existing(made, lexical) = SubSeq(lexical, 1, k)
             /\ \A j \in 0..Len(lexical) :
                   j > k => SymlinkMetadata(made, SubSeq(lexical, 1, j)).outcome = "missing"
      BY <1>6, <2>1, ExistingIsLongest
    <3>2. SubSeq(lexical, 1, Len(lexical)) = lexical /\ Len(lexical) \in 0..Len(lexical)
      BY <1>2
    <3>3. SymlinkMetadata(made, lexical).outcome # "missing"
      BY <2>4 DEF Found
    <3>4. ~(Len(lexical) > k)
      BY <3>1, <3>2, <3>3
    <3>5. k = Len(lexical)
      BY <1>6, <3>4
    <3> QED BY <3>1, <3>2, <3>5
  <2>6. IsUsable(made, lexical, lexical)
    BY <2>1, <2>4 DEF IsUsable, Found
  <2>7. SubSeq(lexical, Len(lexical) + 1, Len(lexical)) = <<>> /\ r \o <<>> = r
    BY <1>2
  <2>8. AssertSafeStateRoot(r, {}) = {r}
    BY <1>2, SafeRootOfNames
  <2>9. ASSUME NEW own \in repositories
        PROVE  /\ Canonicalize(made, own).outcome = "found"
               /\ ~IsPrefix(Canonicalize(made, own).path, r)
    <3>1. Canonicalize(fs, own).outcome = "found" /\ ~IsPrefix(Canonicalize(fs, own).path, r)
      BY <1>1 DEF Resolved
    <3>2. Canonicalize(made, own) = Canonicalize(fs, own)
      BY <2>1, <3>1, FoundAgain
    <3> QED BY <3>1, <3>2
  <2>10. Found(r).outcome = "found" /\ Found(r).path = r
    BY DEF Found
  <2>11. RootOf(made, lexical, repositories) = {r}
    BY <1>2, <2>4, <2>5, <2>6, <2>7, <2>8, <2>9, <2>10
       DEF RootOf, WhereItExists, IsOutside, ContainsPath
  <2> QED BY <1>3, <2>11 DEF made
<1> QED BY <1>4, <1>5
-----------------------------------------------------------------------------
(* The commands.                                                             *)

\* A directory has at most one nearest directory of a kind above it.
LEMMA NearestIsOne ==
  ASSUME NEW directories, NEW from,
         NEW r \in Nearest(directories, from), NEW s \in Nearest(directories, from)
  PROVE  r = s
<1> DEFINE above == {k \in 0..Len(from) : SubSeq(from, 1, k) \in directories}
<1>1. PICK j \in above : r = SubSeq(from, 1, j) /\ \A i \in above : i <= j
  BY Zenon DEF Nearest
<1>2. PICK k \in above : s = SubSeq(from, 1, k) /\ \A i \in above : i <= k
  BY Zenon DEF Nearest
<1>3. j <= k /\ k <= j
  BY <1>1, <1>2, Zenon
<1>4. j \in Int /\ k \in Int
  OBVIOUS
<1>5. j = k
  BY <1>3, <1>4
<1> QED BY <1>1, <1>2, <1>5

IsDisk(fs) == /\ WellFormed(fs)
              /\ \A d \in DOMAIN fs.git : d \in Seq(Name) /\ Kind(fs, d) = "dir"

\* A decision is what the operators say of a file system and a path.
RootIInv ==
    /\ disk = NoDisk \/ IsDisk(disk)
    /\ request \in Path
    /\ \/ root = {}
       \/ /\ disk # NoDisk
          /\ root = ResolveSafeStateRoot(disk, request, FindGitWorktreeRoot(disk, start))
    /\ repository = {} \/ repository = ResolveRepositoryRoot(disk, request)

\* The paths that the file systems of a run are built from.
LEMMA NamesOnTop ==
  ASSUME NEW p \in Top
  PROVE  p \in Seq(Name) /\ Len(p) = 1
<1>1. PICK n \in Name : p = <<n>>
  BY DEF Top
<1> QED BY <1>1

\* Those of the second level.
LEMMA NamesBelow ==
  ASSUME NEW p \in Second
  PROVE  p \in Seq(Name) /\ Len(p) = 2 /\ Up(p) = SubSeq(p, 1, 1)
<1>1. \E t \in Top : \E u \in Top : p = t \o u
  BY DEF Second
<1>2. PICK t \in Top : \E u \in Top : p = t \o u
  BY <1>1
<1>3. PICK u \in Top : p = t \o u
  BY <1>2
<1>4. p \in Seq(Name) /\ Len(p) = 2
  BY <1>3, NamesOnTop
<1>5. p # <<>>
  <2>1. Len(<<>>) = 0 /\ 0 # 2
    OBVIOUS
  <2> QED BY <1>4, <2>1
<1>6. Len(p) - 1 = 1
  BY <1>4
<1> QED BY <1>4, <1>5, <1>6 DEF Up

\* Every file system that a decision starts from is one.
LEMMA DisksAreDisks == RootInit => IsDisk(disk)
<1> SUFFICES ASSUME RootInit PROVE IsDisk(disk)
  OBVIOUS
<1>1. PICK above \in UNION {[s -> Entry] : s \in SUBSET Top} :
           \E s \in SUBSET {p \in Second : Up(p) \in Dirs(above)} :
           \E below \in [s -> Entry] :
           \E marked \in SUBSET ({<<>>} \cup Dirs(Together(above, below))) :
           \E git \in [marked -> {"dir", "link"}] :
              disk = [entry |-> Together(above, below), git |-> git]
  BY Zenon DEF RootInit
<1>2. PICK s \in SUBSET {p \in Second : Up(p) \in Dirs(above)} :
           \E below \in [s -> Entry] :
           \E marked \in SUBSET ({<<>>} \cup Dirs(Together(above, below))) :
           \E git \in [marked -> {"dir", "link"}] :
              disk = [entry |-> Together(above, below), git |-> git]
  BY <1>1
<1>3. PICK below \in [s -> Entry] :
           \E marked \in SUBSET ({<<>>} \cup Dirs(Together(above, below))) :
           \E git \in [marked -> {"dir", "link"}] :
              disk = [entry |-> Together(above, below), git |-> git]
  BY <1>2
<1>13. PICK marked \in SUBSET ({<<>>} \cup Dirs(Together(above, below))) :
           \E git \in [marked -> {"dir", "link"}] :
              disk = [entry |-> Together(above, below), git |-> git]
  BY <1>3
<1>4. PICK git \in [marked -> {"dir", "link"}] :
              disk = [entry |-> Together(above, below), git |-> git]
  BY <1>13
<1>14. above \in [DOMAIN above -> Entry] /\ DOMAIN above \subseteq Top /\ DOMAIN below = s
  <2>1. PICK t \in SUBSET Top : above \in [t -> Entry]
    BY <1>1
  <2> HIDE DEF Top, Entry
  <2> QED BY <2>1
<1> DEFINE entry == Together(above, below)
<1>15. entry = [x \in DOMAIN above \cup s |-> IF x \in DOMAIN above THEN above[x] ELSE below[x]]
  BY <1>14 DEF Together, entry
<1> HIDE DEF entry
<1>5. /\ DOMAIN entry = DOMAIN above \cup s
      /\ entry = [p \in DOMAIN entry |-> entry[p]]
      /\ \A p \in DOMAIN above : entry[p] = above[p]
      /\ \A p \in DOMAIN entry : entry[p] \in Entry
      /\ DOMAIN above \subseteq Top
  BY <1>14, <1>15
<1>6. disk.entry = entry /\ disk.git = git /\ disk = [entry |-> disk.entry, git |-> disk.git]
  BY <1>4 DEF entry
<1>7. \A p \in Top : p \in Seq(Name) /\ Len(p) = 1
  BY NamesOnTop
<1>8. \A p \in Second : p \in Seq(Name) /\ Len(p) = 2 /\ Up(p) = SubSeq(p, 1, 1)
  BY NamesBelow
<1>9. \A x \in Entry : x \in {Dir, File} \cup {LinkTo(t) : t \in Path}
  <2>1. <<>> \in Path
    BY DEF Path
  <2>2. Top \subseteq Path /\ Second \subseteq Path
    BY <1>7, <1>8, NamesArePaths
  <2> HIDE DEF Top, Second
  <2> QED BY <2>1, <2>2 DEF Entry
<1>10. ASSUME NEW p \in DOMAIN entry
       PROVE  /\ p \in Seq(Name)
              /\ \A k \in 0..(Len(p) - 1) : Kind(disk, SubSeq(p, 1, k)) = "dir"
  <2>1. SubSeq(p, 1, 0) = <<>> /\ Kind(disk, <<>>) = "dir"
    BY DEF Kind
  <2>2. CASE p \in Top
    <3>1. p \in Seq(Name) /\ Len(p) = 1 /\ 0..(1 - 1) = {0}
      BY <1>7, <2>2
    <3> QED BY <2>1, <3>1
  <2>3. CASE p \in s
    <3>1. p \in Seq(Name) /\ Len(p) = 2 /\ 0..(2 - 1) = {0, 1} /\ 2 - 1 = 1
      BY <1>8, <2>3
    <3>2. Up(p) = SubSeq(p, 1, 1) /\ Up(p) \in Dirs(above)
      BY <1>8, <2>3
    <3>3. SubSeq(p, 1, 1) \in DOMAIN entry /\ entry[SubSeq(p, 1, 1)] = Dir
      BY <1>5, <3>2 DEF Dirs
    <3>4. Kind(disk, SubSeq(p, 1, 1)) = "dir"
      BY <1>6, <3>3 DEF Kind, Dir
    <3> QED BY <2>1, <3>1, <3>4
  <2> QED BY <1>5, <2>2, <2>3
<1>11. WellFormed(disk)
  BY <1>5, <1>6, <1>9, <1>10 DEF WellFormed
<1>12. ASSUME NEW d \in DOMAIN disk.git PROVE d \in Seq(Name) /\ Kind(disk, d) = "dir"
  <2>1. d = <<>> \/ d \in Dirs(entry)
    BY <1>4, <1>6 DEF entry
  <2>2. CASE d = <<>>
    BY <2>2 DEF Kind
  <2>3. CASE d \in Dirs(entry)
    <3>1. d \in DOMAIN disk.entry /\ disk.entry[d] = Dir
      BY <1>6, <2>3 DEF Dirs
    <3>2. Kind(disk, d) = "dir"
      BY <3>1 DEF Kind, Dir
    <3> QED BY <1>6, <1>10, <3>1, <3>2
  <2> QED BY <2>1, <2>2, <2>3
<1> QED BY <1>11, <1>12 DEF IsDisk

\* What is asked for is a path.
LEMMA RequestsArePaths ==
  ASSUME disk = NoDisk \/ IsDisk(disk), ResolveRoot
  PROVE  request' \in Path
<1>1. disk # NoDisk /\ IsDisk(disk)
  BY DEF ResolveRoot
<1>2. start' \in Path
  <2>1. \A p \in Dirs(disk.entry) : p \in Seq(Name)
    BY <1>1 DEF IsDisk, WellFormed, Dirs
  <2>2. start' \in {<<>>} \cup Dirs(disk.entry)
    BY Zenon DEF ResolveRoot
  <2>3. start' \in Seq(Name)
    <3>1. <<>> \in Seq(Name)
      OBVIOUS
    <3> QED BY <2>1, <2>2, <3>1
  <2> QED BY <2>3, NamesArePaths
<1>3. \E x, y, z \in Top :
          request' \in {x, x \o y, x \o y \o z, x \o <<Parent>> \o y,
                        start' \o <<Parent>> \o x}
  BY Zenon DEF ResolveRoot
<1>4. PICK x \in Top, y \in Top, z \in Top :
          request' \in {x, x \o y, x \o y \o z, x \o <<Parent>> \o y,
                        start' \o <<Parent>> \o x}
  BY <1>3
<1> DEFINE up == <<Parent>>
<1>5. x \in Path /\ y \in Path /\ z \in Path /\ up \in Path
  <2>1. up \in Path
    BY DEF Path
  <2> QED BY <2>1, NamesOnTop, NamesArePaths
<1> HIDE DEF up
<1>6. \A a, b \in Path : a \o b \in Path
  BY DEF Path
<1>7. request' \in {x, x \o y, (x \o y) \o z, (x \o up) \o y, (start' \o up) \o x}
  BY <1>4 DEF up
<1>8. /\ x \o y \in Path /\ (x \o y) \o z \in Path /\ x \o up \in Path
      /\ (x \o up) \o y \in Path /\ start' \o up \in Path /\ (start' \o up) \o x \in Path
  BY <1>2, <1>5, <1>6
<1> QED BY <1>5, <1>7, <1>8

\* The invariant holds of every behaviour.
LEMMA RootInvariance == Spec => []RootIInv
<1> USE DEF RootIInv
<1>1. Init => RootIInv
  <2>1. <<>> \in Path
    BY DEF Path
  <2>2. RootInit => request = <<>> /\ root = {} /\ repository = {}
    BY Zenon DEF RootInit
  <2>3. RootIdle => disk = NoDisk /\ request = <<>> /\ root = {} /\ repository = {}
    BY DEF RootIdle
  <2> QED BY <2>1, <2>2, <2>3, DisksAreDisks DEF Init
<1>2. RootIInv /\ [Next]_allVars => RootIInv'
  <2> SUFFICES ASSUME RootIInv, [Next]_allVars PROVE RootIInv'
    OBVIOUS
  <2>1. CASE ResolveRoot
    <3>1. /\ disk' = disk /\ disk # NoDisk
          /\ root' = ResolveSafeStateRoot(disk, request', FindGitWorktreeRoot(disk, start'))
          /\ repository' = ResolveRepositoryRoot(disk, request')
      BY <2>1, Zenon DEF ResolveRoot
    <3>2. request' \in Path
      BY <2>1, RequestsArePaths
    <3> QED BY <3>1, <3>2
  <2>2. CASE UNCHANGED rootVars
    BY <2>2 DEF rootVars
  <2> QED BY <2>1, <2>2 DEF Next, allVars
<1> QED BY <1>1, <1>2, PTL DEF Spec, allVars

\* The repository a command runs in, where it runs in one.
LEMMA OwnRepository ==
  ASSUME NEW fs, IsDisk(fs), NEW from, NEW own \in FindGitWorktreeRoot(fs, from)
  PROVE  own \in Path /\ Canonicalize(fs, own) = Found(own)
<1>1. own \in DOMAIN fs.git
  BY DEF FindGitWorktreeRoot, Nearest
<1>2. own \in Seq(Name) /\ Kind(fs, own) = "dir" /\ WellFormed(fs)
  BY <1>1 DEF IsDisk
<1>3. Walk(fs, own, TRUE) = Found(own)
  BY <1>2, RealLeadsToItself DEF Real
<1> QED BY <1>2, <1>3, NamesArePaths DEF Canonicalize

\* resolve_safe_state_root never answers a path that is in the command's
\* repository, nor one that is made in it, on any file system: links cannot lead
\* the state there.
THEOREM StateRootsAreOutside ==
  ASSUME NEW fs, IsDisk(fs), NEW path \in Path, NEW from,
         NEW r \in ResolveSafeStateRoot(fs, path, FindGitWorktreeRoot(fs, from)),
         NEW own \in FindGitWorktreeRoot(fs, from)
  PROVE  ~IsPrefix(own, r) /\ ~IsPrefix(own, Place(fs, r))
<1>1. PICK e, c, m : Resolved(fs, path, FindGitWorktreeRoot(fs, from), e, c, m, r)
  BY RootIsResolved DEF IsDisk
<1>2. ~IsPrefix(Canonicalize(fs, own).path, r)
  BY <1>1 DEF Resolved
<1>3. Canonicalize(fs, own).path = own
  BY OwnRepository DEF Found
<1>4. Place(fs, r) = r
  BY <1>1, RootIsPlaced DEF IsDisk
<1> QED BY <1>2, <1>3, <1>4

\* What resolve_safe_state_root answers is where the kernel makes the path that
\* was asked for, without links, and the answer is the same once it is made.
THEOREM StateRootsAreOne ==
  ASSUME NEW fs, IsDisk(fs), NEW path \in Path, NEW from,
         NEW r \in ResolveSafeStateRoot(fs, path, FindGitWorktreeRoot(fs, from))
  PROVE  /\ r = Place(fs, AbsoluteNormalized(path))
         /\ ResolveSafeStateRoot(WithDirectories(fs, r), path, FindGitWorktreeRoot(fs, from))
              = {r}
<1> DEFINE own == FindGitWorktreeRoot(fs, from)
<1>1. \A d \in own : d \in Path
  BY OwnRepository
<1>2. r \in ResolveSafeStateRoot(fs, path, own)
  OBVIOUS
<1> HIDE DEF own
<1>3. PICK e, c, m : Resolved(fs, path, own, e, c, m, r)
  BY <1>2, RootIsResolved DEF IsDisk
<1>4. Place(fs, AbsoluteNormalized(path)) = r
  BY <1>3, RootIsPlaced DEF IsDisk
<1>5. ResolveSafeStateRoot(WithDirectories(fs, r), path, own) = {r}
  BY <1>1, <1>2, RootAgain DEF IsDisk
<1> QED BY <1>4, <1>5 DEF own

\* The state of a command is never in its repository: resolve_safe_state_root is
\* given the repository that find_git_worktree_root found.
THEOREM StateRootIsOutsideHolds == Spec => []StateRootIsOutside
<1>1. ASSUME RootIInv PROVE StateRootIsOutside
  <2> SUFFICES ASSUME NEW r \in root, NEW own \in FindGitWorktreeRoot(disk, start)
               PROVE  ~IsPrefix(own, Place(disk, r))
    BY DEF StateRootIsOutside
  <2>1. /\ IsDisk(disk) /\ request \in Path
        /\ r \in ResolveSafeStateRoot(disk, request, FindGitWorktreeRoot(disk, start))
    BY <1>1 DEF RootIInv
  <2> QED BY <2>1, StateRootsAreOutside
<1> QED BY <1>1, RootInvariance, PTL

\* Commands that name one place get one state root from resolve_safe_state_root,
\* before and after it is made.
THEOREM StateRootIsOneHolds == Spec => []StateRootIsOne
<1>1. ASSUME RootIInv PROVE StateRootIsOne
  <2> SUFFICES ASSUME NEW r \in root
               PROVE  /\ r = Place(disk, Lexical)
                      /\ ResolveSafeStateRoot(WithDirectories(disk, r), request,
                                              FindGitWorktreeRoot(disk, start)) = {r}
    BY Zenon DEF StateRootIsOne
  <2>1. /\ IsDisk(disk) /\ request \in Path
        /\ r \in ResolveSafeStateRoot(disk, request, FindGitWorktreeRoot(disk, start))
    BY <1>1 DEF RootIInv
  <2> QED BY <2>1, StateRootsAreOne DEF Lexical
<1> QED BY <1>1, RootInvariance, PTL

\* resolve_repository_root, where it finds a repository, finds the one that
\* find_git_worktree_root finds from there, on every file system.
THEOREM RepositoryIsOneHolds == Spec => []RepositoryIsOne
<1>1. ASSUME RootIInv PROVE RepositoryIsOne
  <2> SUFFICES ASSUME NEW r \in repository
               PROVE  LET place == Canonicalize(disk, request).path
                      IN  FindGitWorktreeRoot(disk,
                             IF Kind(disk, place) = "dir" THEN place ELSE Up(place)) = {r}
    BY Zenon DEF RepositoryIsOne
  <2> DEFINE place == Canonicalize(disk, request).path
             from == IF Kind(disk, place) = "dir" THEN place ELSE Up(place)
             marked == DOMAIN disk.git
  <2>1. r \in ResolveRepositoryRoot(disk, request)
    BY <1>1 DEF RootIInv
  <2>2. r \in Nearest(marked, from)
    BY <2>1, Zenon DEF ResolveRepositoryRoot, EndsSearch
  <2> HIDE DEF from, marked
  <2>3. \A s \in Nearest(marked, from) : s = r
    BY <2>2, NearestIsOne
  <2>4. Nearest(marked, from) = {r}
    BY <2>2, <2>3
  <2> QED BY <2>4 DEF FindGitWorktreeRoot, from, marked
<1> QED BY <1>1, RootInvariance, PTL
==============================================================================
