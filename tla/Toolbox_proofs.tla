--------------------------- MODULE Toolbox_proofs ---------------------------
(***************************************************************************)
(* Proofs about Toolbox: where writes land, what the registry holds and    *)
(* what tools a process has, for any processes, skills and calls.          *)
(***************************************************************************)
EXTENDS ToolboxProps, SequenceTheorems, WellFoundedInduction, TLAPS

(* The composition takes a step of each part, or leaves the part alone. *)
LEMMA PartSteps ==
  ASSUME [Next]_vars
  PROVE  [Rt!Next]_runtime /\ [Ws!Next]_workspace
<1>1. CASE UNCHANGED vars
  BY <1>1 DEF vars, runtime, workspace
<1>2. ASSUME NEW p \in Processes, Process(p) PROVE [Rt!Next]_runtime /\ [Ws!Next]_workspace
  <2>1. CASE Call(p)
    BY <2>1 DEF Call, Ws!Next
  <2>2. CASE Write(p)
    BY <2>2 DEF Write, Ws!Next
  <2>3. CASE Open(p)
    BY <2>3 DEF Open, Rt!Next
  <2>4. CASE Stop(p)
    BY <2>4 DEF Stop, Rt!Next, Ws!Next
  <2> QED BY <1>2, <2>1, <2>2, <2>3, <2>4 DEF Process
<1>3. ASSUME NEW p \in Processes, Fault(p) PROVE [Rt!Next]_runtime /\ [Ws!Next]_workspace
  BY <1>3 DEF Fault, Rt!Next, Ws!Next
<1>4. CASE User
  BY <1>4 DEF User, Rt!Next, Ws!Next
<1> QED BY <1>1, <1>2, <1>3, <1>4 DEF Next

(***************************************************************************)
(* Toolbox implements both of its parts, each as it runs by itself without *)
(* any bound: what holds of a part holds of it in the composition.         *)
(***************************************************************************)
THEOREM ImplementsParts == Spec => Rt!Spec /\ Ws!Spec
<1>1. Init => Rt!Init /\ Ws!Init
  BY DEF Init
<1>2. [Next]_vars => [Rt!Next]_(Rt!vars) /\ [Ws!Next]_(Ws!vars)
  BY PartSteps DEF Rt!vars, Ws!vars, runtime, workspace
<1> QED BY <1>1, <1>2, PTL DEF Spec, Rt!Spec, Ws!Spec

(***************************************************************************)
(* Least and greatest numbers of a set of natural numbers.                 *)
(***************************************************************************)
LEMMA LeastNat ==
  ASSUME NEW S, S \subseteq Nat, S # {}
  PROVE  Min(S) \in S /\ \A x \in S : Min(S) <= x
<1>1. PICK x \in S : \A y \in S : <<y, x>> \notin OpToRel(<, Nat)
  BY WFMin, NatLessThanWellFounded
<1>2. ASSUME NEW y \in S PROVE ~(y < x)
  <2>1. <<y, x>> \in Nat \X Nat
    OBVIOUS
  <2>2. <<y, x>>[1] = y /\ <<y, x>>[2] = x
    OBVIOUS
  <2> QED BY <1>1, <2>1, <2>2, Zenon DEF OpToRel
<1>3. \A y \in S : x <= y
  BY <1>2
<1> QED BY <1>3, Zenon DEF Min

LEMMA GreatestNat ==
  ASSUME NEW n \in Nat, NEW S, S \subseteq 0 .. n, S # {}
  PROVE  Max(S) \in S /\ \A x \in S : x <= Max(S)
<1> DEFINE D == {n - x : x \in S}
<1>0. \A x \in S : x \in Nat /\ n - x \in Nat
  OBVIOUS
<1>1. D \subseteq Nat /\ D # {}
  BY <1>0
<1>2. Min(D) \in D /\ \A y \in D : Min(D) <= y
  BY <1>1, LeastNat
<1>3. PICK m \in S : Min(D) = n - m
  BY <1>2
<1>4. \A x \in S : n - m <= n - x
  BY <1>2, <1>3
<1>5. \A x \in S : m >= x
  BY <1>0, <1>4
<1>6. Max(S) \in S /\ \A x \in S : Max(S) >= x
  BY <1>5, Zenon DEF Max
<1> QED BY <1>0, <1>6

(***************************************************************************)
(* Resolve keeps the base of a path and may drop directories before it,    *)
(* those that are missing only.                                            *)
(***************************************************************************)
Near(w, f) ==
  /\ IsPrefix(w.root, f)
  /\ Last(f) = Last(w.name) /\ IsPrefix(Front(f), Front(w.name))
  /\ w.placed => f = w.name

LEMMA PrefixOfItself ==
  ASSUME NEW s \in Seq(STRING)
  PROVE  IsPrefix(s, s)
BY DEF IsPrefix

LEMMA AncestorIsPrefix ==
  ASSUME NEW d \in Seq(STRING), <<>> \in DOMAIN tree
  PROVE  /\ \E m \in 0 .. Len(d) : Ws!ExistingAncestor(d) = SubSeq(d, 1, m)
         /\ Ws!Exists(d) => Ws!ExistingAncestor(d) = d
<1> DEFINE S == {Len(p) : p \in {q \in Ws!Prefixes(d) : Ws!Exists(q)}}
<1>1. \A n \in 0 .. Len(d) : SubSeq(d, 1, n) \in Seq(STRING) /\ Len(SubSeq(d, 1, n)) = n
  BY SubSeqProperties, ElementOfSeq
<1>2. S \subseteq 0 .. Len(d)
  BY <1>1 DEF Ws!Prefixes
<1>3. SubSeq(d, 1, 0) = <<>> /\ SubSeq(d, 1, Len(d)) = d
  BY SubSeqEmpty, SubSeqFull
<1>4. <<>> \in Ws!Prefixes(d) /\ d \in Ws!Prefixes(d)
  <2>1. 0 \in 0 .. Len(d) /\ Len(d) \in 0 .. Len(d)
    OBVIOUS
  <2> QED BY <1>3, <2>1, Zenon DEF Ws!Prefixes
<1>5. S # {}
  BY <1>4 DEF Ws!Exists
<1>6. Max(S) \in S /\ \A x \in S : x <= Max(S)
  BY <1>2, <1>5, GreatestNat
<1>7. Ws!ExistingAncestor(d) = SubSeq(d, 1, Max(S))
  BY DEF Ws!ExistingAncestor, Max, Ws!Max
<1>8. ASSUME Ws!Exists(d) PROVE Max(S) = Len(d)
  <2>1. Len(d) \in S
    BY <1>4, <1>8
  <2> QED BY <1>2, <1>6, <2>1
<1> QED BY <1>2, <1>3, <1>6, <1>7, <1>8

LEMMA ResolveNear ==
  ASSUME NEW p \in Seq(STRING), <<>> \in DOMAIN tree
  PROVE  /\ Ws!Resolve(p) \in Seq(STRING)
         /\ Last(Ws!Resolve(p)) = Last(p) /\ IsPrefix(Front(Ws!Resolve(p)), Front(p))
         /\ Ws!Exists(p) \/ Ws!Exists(Ws!Parent(p)) => Ws!Resolve(p) = p
<1>1. Front(p) \in Seq(STRING)
  BY SubSeqProperties, ElementOfSeq DEF Front
<1>2. CASE Ws!Exists(p)
  BY <1>1, <1>2, PrefixOfItself DEF Ws!Resolve
<1>3. CASE ~Ws!Exists(p)
  <2>1. p # <<>>
    BY <1>3 DEF Ws!Exists
  <2> DEFINE d == Front(p)
             s == Ws!ExistingAncestor(d)
  <2>2. Len(p) \in Nat \ {0} /\ Len(d) = Len(p) - 1
    <3>1. Len(p) \in Nat \ {0}
      BY <2>1
    <3>2. PICK n \in Nat : Len(p) = n + 1
      <4>1. Len(p) - 1 \in Nat /\ Len(p) = (Len(p) - 1) + 1
        BY <3>1
      <4> QED BY <4>1
    <3>3. \A i \in 1 .. n : p[i] \in STRING
      BY <3>2, ElementOfSeq
    <3>4. Len(SubSeq(p, 1, n)) = IF 1 <= n THEN n - 1 + 1 ELSE 0
      BY <3>3, SubSeqProperties
    <3>5. Len(SubSeq(p, 1, n)) = n /\ Len(p) - 1 = n
      BY <3>2, <3>4
    <3> QED BY <3>1, <3>5 DEF Front
  <2>3. Ws!Parent(p) = d
    BY <2>1 DEF Ws!Parent, Front, Ws!Front
  <2>4. Ws!Resolve(p) = Append(s, Last(p))
    BY <1>3, <2>3 DEF Ws!Resolve, Last, Ws!Last
  <2>5. PICK m \in 0 .. Len(d) : s = SubSeq(d, 1, m)
    BY <1>1, AncestorIsPrefix
  <2>6. s \in Seq(STRING) /\ Len(s) = m
    BY <1>1, <2>5, SubSeqProperties, ElementOfSeq
  <2>7. Last(p) \in STRING
    BY <2>2, ElementOfSeq DEF Last
  <2>8. /\ Append(s, Last(p)) \in Seq(STRING)
        /\ Len(Append(s, Last(p))) = m + 1
        /\ Last(Append(s, Last(p))) = Last(p)
    BY <2>6, <2>7, AppendProperties DEF Last
  <2>9. Front(Append(s, Last(p))) = s
    BY <2>6, <2>7, <2>8 DEF Front
  <2>10. SubSeq(s, 1, m) = s
    BY <2>6, SubSeqFull
  <2>11. IsPrefix(s, d)
    BY <2>2, <2>5, <2>6, <2>10 DEF IsPrefix
  <2>12. ASSUME Ws!Exists(d) PROVE Append(s, Last(p)) = p
    <3>1. s = d
      BY <1>1, <2>12, AncestorIsPrefix
    <3> QED BY <2>1, <2>2, <2>7, <3>1 DEF Front, Last
  <2> QED BY <1>3, <2>3, <2>4, <2>8, <2>9, <2>11, <2>12
<1> QED BY <1>2, <1>3

(***************************************************************************)
(* Paths: whatever a call is about to write is near what it was asked for, *)
(* and the directory everything starts from is never removed.              *)
(***************************************************************************)
PathsInv ==
  /\ <<>> \in DOMAIN tree
  /\ \A p \in Processes : call[p] # NoCall => Near(call[p], call[p].node)
  /\ WritesLandNearby

LEMMA PathsInit == Ws!Init => PathsInv
<1> SUFFICES ASSUME Ws!Init PROVE PathsInv
  OBVIOUS
<1>1. PICK made \in SUBSET UserDirs :
        tree = [p \in UNION {Ws!Prefixes(d) : d \in {WorkspaceRoot, MemoryRoot} \cup made} |-> Directory]
  BY DEF Ws!Init
<1>2. <<>> \in Ws!Prefixes(WorkspaceRoot)
  <2>1. 0 \in 0 .. Len(WorkspaceRoot) /\ SubSeq(WorkspaceRoot, 1, 0) = <<>>
    BY ToolboxAssumption, SubSeqEmpty, LenProperties
  <2> QED BY <2>1, Zenon DEF Ws!Prefixes
<1>3. <<>> \in DOMAIN tree
  BY <1>1, <1>2
<1>4. WritesLandNearby
  BY <1>1 DEF WritesLandNearby, Holds
<1> QED BY <1>3, <1>4 DEF PathsInv, Ws!Init

(* Of what Put leaves, only the file that was put is new. *)
LEMMA PutOne ==
  ASSUME NEW p, NEW content, tree' = Ws!Put(p, content)
  PROVE  /\ DOMAIN tree \subseteq DOMAIN tree'
         /\ \A f \in DOMAIN tree' : Holds(f)' =>
              \/ f = p /\ tree'[f] = content
              \/ f \in DOMAIN tree /\ Holds(f) /\ tree'[f] = tree[f]
BY DEF Ws!Put, Ws!Exists, Holds

LEMMA PathsStep == PathsInv /\ [Ws!Next]_workspace => PathsInv'
<1> SUFFICES ASSUME PathsInv, [Ws!Next]_workspace PROVE PathsInv'
  OBVIOUS
<1> USE DEF PathsInv
<1>1. CASE UNCHANGED workspace
  BY <1>1 DEF workspace, WritesLandNearby, Holds
<1>2. ASSUME NEW p \in Processes, NEW r \in Requests, Ws!StartWrite(p, r) PROVE PathsInv'
  <2> DEFINE name == Ws!Named(r)
             node == Ws!Resolve(name)
             w == [root |-> Ws!RootOf(r), name |-> name, node |-> node,
                   placed |-> Ws!Exists(name) \/ Ws!Exists(Ws!Parent(name))]
  <2>1. call' = [call EXCEPT ![p] = w] /\ UNCHANGED <<tree, told>> /\ Ws!Allowed(w.root, name)
    BY <1>2 DEF Ws!StartWrite
  <2>2. IsPrefix(w.root, node)
    BY <2>1 DEF Ws!Allowed, IsPrefix, Ws!IsPrefix
  <2>3. Near(w, node)
    BY <2>2, ToolboxAssumption, ResolveNear DEF Near
  <2>4. \A q \in Processes : call'[q] # NoCall => Near(call'[q], call'[q].node)
    BY <2>1, <2>3
  <2> QED BY <2>1, <2>4 DEF WritesLandNearby, Holds
<1>3. ASSUME NEW p \in Processes, Ws!Finish(p)
      PROVE  \A q \in Processes : call'[q] # NoCall => call[q] # NoCall /\ call'[q] = call[q]
  BY <1>3 DEF Ws!Finish
<1>4. ASSUME NEW p \in Processes, Ws!WriteFile(p) PROVE PathsInv'
  <2> DEFINE w == call[p]
             file == [root |-> w.root, name |-> w.name, placed |-> w.placed]
  <2>1. w # NoCall /\ tree' = Ws!Put(w.node, file) /\ Ws!Finish(p)
    BY <1>4 DEF Ws!WriteFile
  <2>2. Near(file, w.node)
    BY <2>1 DEF Near
  <2>3. WritesLandNearby'
    BY <2>1, <2>2, PutOne DEF WritesLandNearby, Near
  <2> QED BY <1>3, <2>1, <2>3, PutOne
<1>5. ASSUME NEW p \in Processes, Ws!WriteTorn(p) PROVE PathsInv'
  <2>1. tree' = Ws!Put(call[p].node, Torn) /\ Ws!Finish(p)
    BY <1>5 DEF Ws!WriteTorn
  <2>2. WritesLandNearby'
    BY <2>1, PutOne DEF WritesLandNearby, Holds
  <2> QED BY <1>3, <2>1, <2>2, PutOne
<1>6. ASSUME NEW p \in Processes, Ws!WriteRefused(p) \/ Ws!Abandon(p) PROVE PathsInv'
  <2>1. Ws!Finish(p) /\ UNCHANGED tree
    BY <1>6 DEF Ws!WriteRefused, Ws!Abandon
  <2> QED BY <1>3, <2>1 DEF WritesLandNearby, Holds
<1>7. ASSUME NEW d \in UserDirs, Ws!MakeDir(d) PROVE PathsInv'
  <2>1. tree' = Ws!Put(d, Directory) /\ UNCHANGED call
    BY <1>7 DEF Ws!MakeDir
  <2>2. WritesLandNearby'
    BY <2>1, PutOne DEF WritesLandNearby, Holds
  <2> QED BY <2>1, <2>2, PutOne
<1>8. ASSUME NEW d \in UserDirs, Ws!RemoveAll(d) PROVE PathsInv'
  <2>1. /\ tree' = [p \in {q \in DOMAIN tree : ~Ws!IsPrefix(d, q)} |-> tree[p]]
        /\ UNCHANGED call
    BY <1>8 DEF Ws!RemoveAll
  <2>2. d \in Seq(STRING) /\ d # <<>> /\ Len(<<>>) = 0
    BY ToolboxAssumption
  <2>3. ~Ws!IsPrefix(d, <<>>)
    BY <2>2 DEF Ws!IsPrefix
  <2>4. WritesLandNearby'
    BY <2>1 DEF WritesLandNearby, Holds
  <2> QED BY <2>1, <2>3, <2>4
<1> QED BY <1>1, <1>2, <1>4, <1>5, <1>6, <1>7, <1>8 DEF Ws!Next, Ws!Write, Ws!User

(***************************************************************************)
(* The jail, for all paths, trees and steps of the user: what a tool wrote *)
(* lies below the root of its policy, under the base that was asked for,   *)
(* in the directory that was asked for or one above it.                    *)
(***************************************************************************)
THEOREM Jail == Spec => []WritesLandNearby
<1>1. Init => PathsInv
  BY PathsInit DEF Init
<1>2. PathsInv /\ [Next]_vars => PathsInv'
  BY PartSteps, PathsStep
<1>3. PathsInv => WritesLandNearby
  BY DEF PathsInv
<1> QED BY <1>1, <1>2, <1>3, PTL DEF Spec

(***************************************************************************)
(* Reading back.  The tree holds every directory above what it holds, and  *)
(* a write adds only what leads to its file: so a name that leads to a     *)
(* file goes on leading there, unless one of the excuses of Spared holds.  *)
(***************************************************************************)
LEMMA Cut ==
  ASSUME NEW s \in Seq(STRING), NEW n \in 0 .. Len(s)
  PROVE  SubSeq(s, 1, n) \in Seq(STRING) /\ Len(SubSeq(s, 1, n)) = n
         /\ \A i \in 1 .. n : SubSeq(s, 1, n)[i] = s[i]
<1>1. \A i \in 1 .. n : s[i] \in STRING
  BY ElementOfSeq
<1>2. /\ SubSeq(s, 1, n) \in Seq(STRING)
      /\ Len(SubSeq(s, 1, n)) = IF 1 <= n THEN n - 1 + 1 ELSE 0
      /\ \A i \in 1 .. n - 1 + 1 : SubSeq(s, 1, n)[i] = s[1 + i - 1]
  BY <1>1, SubSeqProperties
<1> QED BY <1>2

LEMMA CutCut ==
  ASSUME NEW s \in Seq(STRING), NEW n \in 0 .. Len(s), NEW m \in 0 .. n
  PROVE  SubSeq(SubSeq(s, 1, n), 1, m) = SubSeq(s, 1, m)
<1> DEFINE t == SubSeq(s, 1, n)
<1>1. t \in Seq(STRING) /\ Len(t) = n /\ \A i \in 1 .. n : t[i] = s[i]
  BY Cut
<1> HIDE DEF t
<1>2. m \in 0 .. Len(t) /\ m \in 0 .. Len(s)
  BY <1>1
<1>3. /\ SubSeq(t, 1, m) \in Seq(STRING) /\ Len(SubSeq(t, 1, m)) = m
      /\ \A i \in 1 .. m : SubSeq(t, 1, m)[i] = t[i]
  BY <1>1, <1>2, Cut
<1>4. /\ SubSeq(s, 1, m) \in Seq(STRING) /\ Len(SubSeq(s, 1, m)) = m
      /\ \A i \in 1 .. m : SubSeq(s, 1, m)[i] = s[i]
  BY <1>2, Cut
<1>5. SubSeq(t, 1, m) = SubSeq(s, 1, m)
  BY <1>1, <1>3, <1>4, SeqEqual
<1> QED BY <1>5 DEF t

\* The prefixes of a path.
LEMMA PrefixesOf ==
  ASSUME NEW s \in Seq(STRING)
  PROVE  /\ Ws!Prefixes(s) \subseteq Seq(STRING) /\ <<>> \in Ws!Prefixes(s) /\ s \in Ws!Prefixes(s)
         /\ \A t \in Ws!Prefixes(s) : Ws!Prefixes(t) \subseteq Ws!Prefixes(s)
         /\ \A t \in Seq(STRING) : t \in Ws!Prefixes(s) <=> Ws!IsPrefix(t, s)
         /\ Ws!Parent(s) \in Ws!Prefixes(s)
<1>0. Len(s) \in Nat /\ 0 \in 0 .. Len(s) /\ Len(s) \in 0 .. Len(s)
  OBVIOUS
<1>1. SubSeq(s, 1, 0) = <<>> /\ SubSeq(s, 1, Len(s)) = s
  BY SubSeqEmpty, SubSeqFull
<1>2. <<>> \in Ws!Prefixes(s) /\ s \in Ws!Prefixes(s)
  BY <1>0, <1>1, Zenon DEF Ws!Prefixes
<1>3. Ws!Prefixes(s) \subseteq Seq(STRING)
  BY Cut DEF Ws!Prefixes
<1>4. ASSUME NEW t \in Ws!Prefixes(s), NEW q \in Ws!Prefixes(t) PROVE q \in Ws!Prefixes(s)
  <2>1. PICK n \in 0 .. Len(s) : t = SubSeq(s, 1, n)
    BY DEF Ws!Prefixes
  <2>2. PICK m \in 0 .. Len(t) : q = SubSeq(t, 1, m)
    BY DEF Ws!Prefixes
  <2>3. m \in 0 .. n /\ m \in 0 .. Len(s)
    BY <1>0, <2>1, <2>2, Cut
  <2>4. q = SubSeq(s, 1, m)
    BY <2>1, <2>2, <2>3, CutCut
  <2> QED BY <2>3, <2>4 DEF Ws!Prefixes
<1>5. ASSUME NEW t \in Seq(STRING) PROVE t \in Ws!Prefixes(s) <=> Ws!IsPrefix(t, s)
  <2>1. SubSeq(t, 1, Len(t)) = t /\ Len(t) \in Nat
    BY SubSeqFull
  <2>2. ASSUME NEW n \in 0 .. Len(s), t = SubSeq(s, 1, n) PROVE n = Len(t)
    BY <2>2, Cut
  <2>3. ASSUME t \in Ws!Prefixes(s) PROVE Ws!IsPrefix(t, s)
    <3>1. PICK n \in 0 .. Len(s) : t = SubSeq(s, 1, n)
      BY <2>3 DEF Ws!Prefixes
    <3>2. n = Len(t)
      BY <2>2, <3>1
    <3>3. Len(t) <= Len(s)
      BY <1>0, <3>1, <3>2
    <3>4. SubSeq(t, 1, Len(t)) = SubSeq(s, 1, Len(t))
      BY <2>1, <3>1, <3>2
    <3> QED BY <3>3, <3>4 DEF Ws!IsPrefix
  <2>4. ASSUME Ws!IsPrefix(t, s) PROVE t \in Ws!Prefixes(s)
    <3>1. Len(t) <= Len(s) /\ SubSeq(t, 1, Len(t)) = SubSeq(s, 1, Len(t))
      BY <2>4 DEF Ws!IsPrefix
    <3>2. Len(t) \in 0 .. Len(s)
      BY <1>0, <2>1, <3>1
    <3> QED BY <2>1, <3>1, <3>2 DEF Ws!Prefixes
  <2> QED BY <2>3, <2>4
<1>6. Ws!Parent(s) \in Ws!Prefixes(s)
  <2>1. CASE s = <<>>
    BY <1>2, <2>1 DEF Ws!Parent
  <2>2. CASE s # <<>>
    <3>1. Len(s) - 1 \in 0 .. Len(s)
      BY <2>2, EmptySeq
    <3>2. Ws!Parent(s) = SubSeq(s, 1, Len(s) - 1)
      BY <2>2 DEF Ws!Parent, Ws!Front
    <3> QED BY <3>1, <3>2 DEF Ws!Prefixes
  <2> QED BY <2>1, <2>2
<1> QED BY <1>2, <1>3, <1>4, <1>5, <1>6

TreeOK ==
  /\ DOMAIN tree \subseteq Seq(STRING) /\ <<>> \in DOMAIN tree
  /\ \A q \in DOMAIN tree : Ws!Prefixes(q) \subseteq DOMAIN tree
CallsOK ==
  \A c \in Processes : call[c] # NoCall =>
    /\ \E r \in Requests : call[c].root = Ws!RootOf(r) /\ call[c].name = Ws!Named(r)
    /\ call[c].node \in Seq(STRING) /\ call[c].placed \in BOOLEAN
    /\ Last(call[c].node) = Last(call[c].name)
ReadInv == TreeOK /\ CallsOK /\ told \subseteq Seq(STRING) /\ WrittenIsReadBack

LEMMA PutTree ==
  ASSUME TreeOK, NEW p \in Seq(STRING), NEW content, tree' = Ws!Put(p, content)
  PROVE  /\ TreeOK' /\ DOMAIN tree' = DOMAIN tree \cup Ws!Prefixes(Ws!Parent(p)) \cup {p}
         /\ tree'[p] = content /\ \A q \in DOMAIN tree : q # p => tree'[q] = tree[q]
         /\ Ws!Exists(Ws!Parent(p)) => DOMAIN tree' = DOMAIN tree \cup {p}
<1>1. /\ DOMAIN tree' = DOMAIN tree \cup Ws!Prefixes(Ws!Parent(p)) \cup {p}
      /\ tree'[p] = content /\ \A q \in DOMAIN tree : q # p => tree'[q] = tree[q]
  BY DEF Ws!Put, Ws!Exists
<1>2. /\ Ws!Parent(p) \in Seq(STRING) /\ Ws!Prefixes(Ws!Parent(p)) \subseteq Seq(STRING)
      /\ \A t \in Ws!Prefixes(Ws!Parent(p)) : Ws!Prefixes(t) \subseteq Ws!Prefixes(Ws!Parent(p))
  BY PrefixesOf
<1>3. Ws!Prefixes(p) \subseteq Ws!Prefixes(Ws!Parent(p)) \cup {p}
  <2>1. CASE p = <<>>
    BY <2>1, PrefixesOf DEF Ws!Parent
  <2>2. CASE p # <<>>
    <3>1. Len(p) \in Nat \ {0} /\ Len(p) - 1 \in 0 .. Len(p)
      BY <2>2, EmptySeq
    <3>2. Ws!Parent(p) = SubSeq(p, 1, Len(p) - 1)
      BY <2>2 DEF Ws!Parent, Ws!Front
    <3> SUFFICES ASSUME NEW n \in 0 .. Len(p), n # Len(p)
                 PROVE  SubSeq(p, 1, n) \in Ws!Prefixes(Ws!Parent(p))
      BY SubSeqFull DEF Ws!Prefixes
    <3>3. n \in 0 .. Len(p) - 1 /\ Len(Ws!Parent(p)) = Len(p) - 1
      <4>1. Len(SubSeq(p, 1, Len(p) - 1)) = Len(p) - 1
        BY <3>1, Cut
      <4>2. n \in 0 .. Len(p) - 1
        BY <3>1
      <4> QED BY <3>2, <4>1, <4>2
    <3>4. SubSeq(p, 1, n) = SubSeq(Ws!Parent(p), 1, n)
      BY <3>1, <3>2, <3>3, CutCut
    <3> QED BY <3>3, <3>4 DEF Ws!Prefixes
  <2> QED BY <2>1, <2>2
<1>4. TreeOK'
  BY <1>1, <1>2, <1>3 DEF TreeOK
<1> QED BY <1>1, <1>4 DEF TreeOK, Ws!Exists

\* A file that is put below nothing the path runs through leaves the path as
\* it was resolved.
LEMMA StillResolved ==
  ASSUME TreeOK, TreeOK', NEW p \in Seq(STRING), NEW n \in Seq(STRING), ~Ws!IsPrefix(n, p),
         DOMAIN tree' = DOMAIN tree \cup {n}
  PROVE  Ws!Resolve(p)' = Ws!Resolve(p)
<1>1. /\ \A q \in Ws!Prefixes(p) : q \in DOMAIN tree' <=> q \in DOMAIN tree
      /\ Ws!Prefixes(Ws!Parent(p)) \subseteq Ws!Prefixes(p) /\ p \in Ws!Prefixes(p)
  BY PrefixesOf
<1>2. {q \in Ws!Prefixes(Ws!Parent(p)) : Ws!Exists(q)'} = {q \in Ws!Prefixes(Ws!Parent(p)) : Ws!Exists(q)}
  BY <1>1 DEF Ws!Exists
<1>3. Ws!ExistingAncestor(Ws!Parent(p))' = Ws!ExistingAncestor(Ws!Parent(p))
  BY <1>2 DEF Ws!ExistingAncestor
<1>4. Ws!Exists(p)' <=> Ws!Exists(p)
  BY <1>1 DEF Ws!Exists
<1> QED BY <1>3, <1>4 DEF Ws!Resolve

LEMMA SparedStays ==
  ASSUME TreeOK, NEW w, w.node \in Seq(STRING), Last(w.node) = Last(w.name),
         NEW content, tree' = Ws!Put(w.node, content),
         NEW p \in Seq(STRING), Ws!Spared(p, w), Ws!Resolve(p) \in DOMAIN tree
  PROVE  /\ Ws!Resolve(p)' = Ws!Resolve(p)
         /\ Ws!Resolve(p) \in DOMAIN tree' /\ tree'[Ws!Resolve(p)] = tree[Ws!Resolve(p)]
<1> DEFINE n == w.node
           f == Ws!Resolve(p)
<1>1. /\ TreeOK' /\ \A q \in DOMAIN tree : q # n => tree'[q] = tree[q]
      /\ DOMAIN tree \subseteq DOMAIN tree' /\ <<>> \in DOMAIN tree /\ <<>> \in DOMAIN tree'
      /\ Ws!Exists(Ws!Parent(n)) => DOMAIN tree' = DOMAIN tree \cup {n}
  <2> HIDE DEF n
  <2>1. n \in Seq(STRING) /\ tree' = Ws!Put(n, content)
    BY DEF n
  <2> QED BY <2>1, PutTree DEF TreeOK
<1>2. ~Ws!IsPrefix(n, p) /\ p # n
  BY PrefixesOf DEF Ws!Spared
<1>3. CASE Ws!Exists(Ws!Parent(p))
  <2>1. f = p
    BY <1>1, <1>3, ResolveNear
  <2>2. Ws!Exists(p)'
    BY <1>1, <2>1 DEF Ws!Exists
  <2>3. Ws!Resolve(p)' = p
    BY <2>2 DEF Ws!Resolve
  <2> QED BY <1>1, <1>2, <2>1, <2>3
<1>4. CASE ~Ws!Exists(Ws!Parent(p))
  <2>1. Ws!Exists(Ws!Parent(n)) /\ Last(p) # Last(n)
    BY <1>4 DEF Ws!Spared, Last, Ws!Last
  <2>2. Ws!Resolve(p)' = f
    BY <1>1, <1>2, <2>1, StillResolved
  <2>3. f # n
    BY <1>1, <2>1, ResolveNear
  <2> QED BY <1>1, <2>2, <2>3
<1> QED BY <1>3, <1>4

\* The nearest existing directory exists.
LEMMA AncestorExists ==
  ASSUME NEW d \in Seq(STRING), <<>> \in DOMAIN tree
  PROVE  Ws!ExistingAncestor(d) \in DOMAIN tree
<1> DEFINE P == {q \in Ws!Prefixes(d) : Ws!Exists(q)}
           S == {Len(q) : q \in P}
<1>1. /\ \A q \in P : Len(q) \in 0 .. Len(d) /\ q = SubSeq(d, 1, Len(q))
  BY Cut DEF Ws!Prefixes
<1>2. S \subseteq 0 .. Len(d) /\ S # {} /\ Len(d) \in Nat
  <2>1. <<>> \in P
    BY PrefixesOf DEF Ws!Exists
  <2>2. Len(<<>>) \in S
    BY <2>1
  <2>3. S \subseteq 0 .. Len(d)
    BY <1>1
  <2> QED BY <2>2, <2>3, LenProperties
<1>3. Max(S) \in S
  BY <1>2, GreatestNat
<1>4. PICK q \in P : Max(S) = Len(q)
  BY <1>3
<1>5. Ws!ExistingAncestor(d) = SubSeq(d, 1, Max(S))
  BY DEF Ws!ExistingAncestor, Max, Ws!Max
<1> QED BY <1>1, <1>4, <1>5 DEF Ws!Exists

LEMMA LastOfPath == ASSUME NEW p \in Seq(STRING), p # <<>> PROVE Last(p) \in STRING
<1>1. Len(p) \in 1 .. Len(p)
  BY EmptySeq
<1> QED BY <1>1, ElementOfSeq DEF Last

LEMMA ParentOfAppend ==
  ASSUME NEW s \in Seq(STRING), NEW e \in STRING
  PROVE  Ws!Parent(Append(s, e)) = s
<1>1. /\ Append(s, e) \in Seq(STRING) /\ Append(s, e) # <<>> /\ Len(Append(s, e)) = Len(s) + 1
      /\ \A i \in 1 .. Len(s) : Append(s, e)[i] = s[i]
  <2>1. /\ Append(s, e) \in Seq(STRING) /\ Append(s, e) # <<>>
        /\ Len(Append(s, e)) = Len(s) + 1
    BY AppendProperties
  <2>2. \A i \in 1 .. Len(s) : Append(s, e)[i] = s[i]
    BY AppendProperties
  <2> QED BY <2>1, <2>2
<1>2. Len(s) \in 0 .. Len(s) + 1 /\ Len(s) + 1 - 1 = Len(s)
  OBVIOUS
<1>3. /\ SubSeq(Append(s, e), 1, Len(s)) \in Seq(STRING) /\ Len(SubSeq(Append(s, e), 1, Len(s))) = Len(s)
      /\ \A i \in 1 .. Len(s) : SubSeq(Append(s, e), 1, Len(s))[i] = Append(s, e)[i]
  BY <1>1, <1>2, Cut
<1>4. SubSeq(Append(s, e), 1, Len(s)) = s
  BY <1>1, <1>3, SeqEqual
<1>5. Len(Append(s, e)) - 1 = Len(s)
  BY <1>1, <1>2
<1> QED BY <1>1, <1>4, <1>5 DEF Ws!Parent, Ws!Front

LEMMA FoundStays ==
  ASSUME TreeOK, NEW w, w.node \in Seq(STRING), w.name \in Seq(STRING), Ws!Found(w),
         NEW content, tree' = Ws!Put(w.node, content)
  PROVE  Ws!Resolve(w.name)' = w.node
<1> SUFFICES ASSUME NEW n, n = w.node, NEW p, p = w.name PROVE Ws!Resolve(p)' = n
  BY DEF Ws!Resolve, Ws!Exists, Ws!ExistingAncestor
<1>1. /\ n \in Seq(STRING) /\ p \in Seq(STRING) /\ Ws!Resolve(p) = n
      /\ n = p \/ ~Ws!IsPrefix(n, p)
      /\ tree' = Ws!Put(n, content) /\ <<>> \in DOMAIN tree
  BY DEF Ws!Found, TreeOK
<1>2. TreeOK' /\ n \in DOMAIN tree' /\ (Ws!Exists(Ws!Parent(n)) => DOMAIN tree' = DOMAIN tree \cup {n})
  BY <1>1, PutTree
<1>3. CASE n = p
  BY <1>2, <1>3 DEF Ws!Resolve, Ws!Exists
<1>4. CASE n # p
  <2>1. ~Ws!Exists(p) /\ ~Ws!Exists(Ws!Parent(p)) /\ p # <<>>
    BY <1>1, <1>4, ResolveNear DEF Ws!Exists
  <2> DEFINE d == Ws!Parent(p)
             s == Ws!ExistingAncestor(d)
  <2>2. d \in Seq(STRING)
    BY <1>1, PrefixesOf
  <2>3. s \in Seq(STRING) /\ s \in DOMAIN tree
    BY <1>1, <2>2, AncestorExists, PrefixesOf DEF TreeOK
  <2>4. n = Append(s, Last(p)) /\ Last(p) \in STRING
    BY <1>1, <2>1, LastOfPath DEF Ws!Resolve, Last, Ws!Last
  <2>5. Ws!Parent(n) = s
    BY <2>3, <2>4, ParentOfAppend
  <2> QED BY <1>1, <1>2, <1>4, <2>3, <2>5, StillResolved DEF Ws!Exists
<1> QED BY <1>3, <1>4

LEMMA ReadInit == Ws!Init => ReadInv
<1> SUFFICES ASSUME Ws!Init PROVE ReadInv
  OBVIOUS
<1>1. PICK made \in SUBSET UserDirs :
        tree = [p \in UNION {Ws!Prefixes(d) : d \in {WorkspaceRoot, MemoryRoot} \cup made} |-> Directory]
  BY DEF Ws!Init
<1> DEFINE D == {WorkspaceRoot, MemoryRoot} \cup made
<1>2. DOMAIN tree = UNION {Ws!Prefixes(d) : d \in D} /\ WorkspaceRoot \in D /\ D \subseteq Seq(STRING)
  BY <1>1, ToolboxAssumption
<1> HIDE DEF D
<1>3. /\ \A d \in D : Ws!Prefixes(d) \subseteq Seq(STRING) /\ <<>> \in Ws!Prefixes(d)
      /\ \A d \in D : \A t \in Ws!Prefixes(d) : Ws!Prefixes(t) \subseteq Ws!Prefixes(d)
  BY <1>2, PrefixesOf
<1>4. TreeOK
  BY <1>2, <1>3 DEF TreeOK
<1> QED BY <1>4 DEF Ws!Init, ReadInv, CallsOK, WrittenIsReadBack

\* A step that leaves the tree alone leaves every name where it led.
LEMMA SameTree ==
  ASSUME WrittenIsReadBack, TreeOK, tree' = tree, told' = told
  PROVE  WrittenIsReadBack' /\ TreeOK'
BY DEF WrittenIsReadBack, TreeOK, Holds, Ws!Resolve, Ws!Exists, Ws!ExistingAncestor

LEMMA FewerCalls ==
  ASSUME CallsOK, NEW c \in Processes, Ws!Finish(c)
  PROVE  CallsOK'
<1>1. \A q \in Processes : call'[q] # NoCall => call[q] # NoCall /\ call'[q] = call[q]
  BY DEF Ws!Finish
<1> QED BY <1>1 DEF CallsOK

LEMMA ReadStep == ReadInv /\ [Ws!Next]_workspace => ReadInv'
<1> SUFFICES ASSUME ReadInv, [Ws!Next]_workspace PROVE ReadInv'
  OBVIOUS
<1> USE DEF ReadInv
<1>1. CASE UNCHANGED workspace
  BY <1>1, SameTree DEF workspace, CallsOK
<1>2. ASSUME NEW c \in Processes, NEW r \in Requests, Ws!StartWrite(c, r) PROVE ReadInv'
  <2> DEFINE name == Ws!Named(r)
             node == Ws!Resolve(name)
             w == [root |-> Ws!RootOf(r), name |-> name, node |-> node,
                   placed |-> Ws!Exists(name) \/ Ws!Exists(Ws!Parent(name))]
  <2>1. call' = [call EXCEPT ![c] = w] /\ UNCHANGED <<tree, told>>
    BY <1>2 DEF Ws!StartWrite
  <2>2. name \in Seq(STRING) /\ <<>> \in DOMAIN tree
    BY ToolboxAssumption DEF TreeOK
  <2>3. node \in Seq(STRING) /\ Last(node) = Last(name)
    BY <2>2, ResolveNear
  <2>4. w.placed \in BOOLEAN /\ w.root = Ws!RootOf(r) /\ w.name = name /\ w.node = node
    OBVIOUS
  <2> HIDE DEF node, name, w
  <2>5. \A q \in Processes : call'[q] # NoCall => call'[q] = w \/ (call[q] # NoCall /\ call'[q] = call[q])
    BY <2>1
  <2>6. CallsOK'
    BY <2>3, <2>4, <2>5 DEF CallsOK, name
  <2> QED BY <2>1, <2>6, SameTree
<1>3. ASSUME NEW c \in Processes, call[c] # NoCall, NEW content, tree' = Ws!Put(call[c].node, content),
             NEW p \in told, Ws!Spared(p, call[c])
      PROVE  Ws!Resolve(p)' \in DOMAIN tree' /\ tree'[Ws!Resolve(p)'] = tree[Ws!Resolve(p)]
  <2> DEFINE w == call[c]
  <2>1. w.node \in Seq(STRING) /\ Last(w.node) = Last(w.name)
    BY <1>3 DEF CallsOK
  <2>2. Ws!Resolve(p) \in DOMAIN tree /\ p \in Seq(STRING)
    BY DEF WrittenIsReadBack
  <2>3. Ws!Spared(p, w) /\ tree' = Ws!Put(w.node, content)
    BY <1>3
  <2> HIDE DEF w
  <2> QED BY <2>1, <2>2, <2>3, SparedStays
<1>4. ASSUME NEW c \in Processes, Ws!WriteFile(c) PROVE ReadInv'
  <2>0. PICK w : w = call[c]
    OBVIOUS
  <2>1. PICK file : file = [root |-> w.root, name |-> w.name, placed |-> w.placed]
    OBVIOUS
  <2>2. /\ w # NoCall /\ tree' = Ws!Put(w.node, file) /\ Ws!Finish(c)
        /\ told' = {p \in told : Ws!Spared(p, w)} \cup (IF Ws!Found(w) THEN {w.name} ELSE {})
    BY <1>4, <2>0, <2>1 DEF Ws!WriteFile
  <2>3. PICK r \in Requests : w.root = Ws!RootOf(r) /\ w.name = Ws!Named(r)
    BY <2>0, <2>2 DEF CallsOK
  <2>4. /\ w.name \in Seq(STRING) /\ w.node \in Seq(STRING) /\ w.placed \in BOOLEAN
        /\ file \notin {Directory, Torn} /\ file.name = w.name
    BY <2>0, <2>1, <2>2, <2>3, ToolboxAssumption DEF CallsOK
  <2>5. TreeOK' /\ w.node \in DOMAIN tree' /\ tree'[w.node] = file
    BY <2>2, <2>4, PutTree
  <2>6. ASSUME NEW p \in told, Ws!Spared(p, w)
        PROVE  LET f == Ws!Resolve(p)' IN f \in DOMAIN tree' /\ tree'[f] \notin {Directory, Torn} /\ tree'[f].name = p
    BY <1>3, <2>0, <2>2, <2>6 DEF WrittenIsReadBack, Holds
  <2>7. ASSUME Ws!Found(w)
        PROVE  LET f == Ws!Resolve(w.name)' IN f \in DOMAIN tree' /\ tree'[f] \notin {Directory, Torn} /\ tree'[f].name = w.name
    <3>1. Ws!Resolve(w.name)' = w.node
      BY <2>2, <2>4, <2>7, FoundStays
    <3> QED BY <2>4, <2>5, <3>1
  <2>8. \A p \in told' : (p \in told /\ Ws!Spared(p, w)) \/ (Ws!Found(w) /\ p = w.name)
    BY <2>2
  <2>9. WrittenIsReadBack'
    BY <2>6, <2>7, <2>8 DEF WrittenIsReadBack, Holds
  <2> QED BY <2>2, <2>4, <2>5, <2>8, <2>9, FewerCalls
<1>5. ASSUME NEW c \in Processes, Ws!WriteTorn(c) PROVE ReadInv'
  <2>1. /\ call[c] # NoCall /\ tree' = Ws!Put(call[c].node, Torn) /\ Ws!Finish(c)
        /\ told' = {p \in told : Ws!Spared(p, call[c])}
    BY <1>5 DEF Ws!WriteTorn
  <2>2. TreeOK'
    BY <2>1, PutTree DEF CallsOK
  <2>3. WrittenIsReadBack'
    BY <1>3, <2>1 DEF WrittenIsReadBack, Holds
  <2> QED BY <2>1, <2>2, <2>3, FewerCalls
<1>6. ASSUME NEW c \in Processes, Ws!WriteRefused(c) \/ Ws!Abandon(c) PROVE ReadInv'
  <2>1. Ws!Finish(c) /\ tree' = tree /\ told' = told
    BY <1>6 DEF Ws!WriteRefused, Ws!Abandon
  <2> QED BY <2>1, SameTree, FewerCalls
<1>7. ASSUME NEW d \in UserDirs, Ws!MakeDir(d) PROVE ReadInv'
  <2>1. tree' = Ws!Put(d, Directory) /\ told' = {} /\ UNCHANGED call /\ d \in Seq(STRING)
    BY <1>7, ToolboxAssumption DEF Ws!MakeDir
  <2>2. TreeOK'
    BY <2>1, PutTree
  <2> QED BY <2>1, <2>2 DEF CallsOK, WrittenIsReadBack
<1>8. ASSUME NEW d \in UserDirs, Ws!RemoveAll(d) PROVE ReadInv'
  <2>1. /\ DOMAIN tree' = {q \in DOMAIN tree : ~Ws!IsPrefix(d, q)}
        /\ told' = {} /\ UNCHANGED call
    BY <1>8 DEF Ws!RemoveAll
  <2>2. d \in Seq(STRING) /\ ~Ws!IsPrefix(d, <<>>)
    <3>1. d \in Seq(STRING) /\ d # <<>> /\ Len(<<>>) = 0
      BY ToolboxAssumption
    <3> QED BY <3>1 DEF Ws!IsPrefix
  <2>3. ASSUME NEW q \in DOMAIN tree', NEW t \in Ws!Prefixes(q) PROVE t \in DOMAIN tree'
    <3>1. q \in Seq(STRING) /\ q \in DOMAIN tree /\ ~Ws!IsPrefix(d, q) /\ t \in DOMAIN tree
      BY <2>1 DEF TreeOK
    <3>2. t \in Seq(STRING) /\ Ws!Prefixes(t) \subseteq Ws!Prefixes(q)
      BY <3>1, PrefixesOf
    <3>3. ~Ws!IsPrefix(d, t)
      BY <2>2, <3>1, <3>2, PrefixesOf
    <3> QED BY <2>1, <3>1, <3>3
  <2>4. TreeOK'
    BY <2>1, <2>2, <2>3 DEF TreeOK
  <2> QED BY <2>1, <2>4 DEF CallsOK, WrittenIsReadBack
<1> QED BY <1>1, <1>2, <1>4, <1>5, <1>6, <1>7, <1>8 DEF Ws!Next, Ws!Write, Ws!User

(***************************************************************************)
(* What a tool answered "wrote" for is read back under the name it was     *)
(* given, through any number of later writes, until one of them, or a step *)
(* of the user, excuses it.                                                *)
(***************************************************************************)
THEOREM ReadBack == Spec => []WrittenIsReadBack
<1>1. Init => ReadInv
  BY ReadInit DEF Init
<1>2. ReadInv /\ [Next]_vars => ReadInv'
  BY PartSteps, ReadStep
<1>3. ReadInv => WrittenIsReadBack
  BY DEF ReadInv
<1> QED BY <1>1, <1>2, <1>3, PTL DEF Spec

(***************************************************************************)
(* The types of Runtime.                                                   *)
(***************************************************************************)
ToolLists == {f.tools : f \in Files}
Skills    == [id : Rt!Dirs, tools : ToolLists]
Procs     == [stage : {"down", "sync", "load", "up"}, doctor : BOOLEAN, left : SUBSET Rt!Dirs,
              held : Skills \cup {Nothing}, tools : SUBSET Rt!Tools, clean : BOOLEAN]

RuntimeTypeOK ==
  /\ disk \in [Rt!Dirs -> Files \cup {NoDir, Broken}]
  /\ registry \in [Rt!Dirs -> ToolLists \cup {NoRow}]
  /\ proc \in [Processes -> Procs]
  /\ fresh \in BOOLEAN

LEMMA SkillType ==
  ASSUME RuntimeTypeOK, NEW d \in Rt!OnDisk
  PROVE  /\ d \in Rt!Dirs /\ d \in Nat /\ disk[d] \in Files
         /\ Rt!Skill(d) \in Skills /\ Rt!Skill(d) # Nothing
         /\ Rt!Skill(d).id = Rt!IdOf(d) /\ Rt!Skill(d).tools = disk[d].tools
         /\ Rt!IdOf(d) \in Rt!Dirs /\ disk[d].tools \in ToolLists /\ disk[d].tools # NoRow
<1>1. d \in Rt!Dirs /\ disk[d] \in Files
  BY DEF RuntimeTypeOK, Rt!OnDisk
<1>2. Rt!IdOf(d) \in Rt!Dirs
  BY <1>1, ToolboxAssumption DEF Rt!IdOf
<1>3. d \in Nat
  BY <1>1, ToolboxAssumption DEF Rt!Dirs
<1>4. disk[d].tools \in ToolLists
  BY <1>1 DEF ToolLists
<1> QED BY <1>1, <1>2, <1>3, <1>4, ToolboxAssumption DEF Rt!Skill, Skills

LEMMA OfferedType == ASSUME NEW lists PROVE Rt!Offered(lists) \subseteq Rt!Registered
BY DEF Rt!Offered, Rt!FilterToolsBySkills

LEMMA DownType == Rt!Down \in Procs
BY DEF Rt!Down, Procs

LEMMA TypeStep == RuntimeTypeOK /\ [Rt!Next]_runtime => RuntimeTypeOK'
<1> SUFFICES ASSUME RuntimeTypeOK, [Rt!Next]_runtime PROVE RuntimeTypeOK'
  OBVIOUS
<1> USE DEF RuntimeTypeOK
<1>1. CASE UNCHANGED runtime
  BY <1>1 DEF runtime
<1>2. \A S : Rt!Disturbed(S) \in [Processes -> Procs]
  BY DEF Rt!Disturbed, Procs
<1>3. ASSUME NEW p \in Processes, NEW doctor \in BOOLEAN, Rt!Start(p, doctor) PROVE RuntimeTypeOK'
  <2>1. [Rt!Down EXCEPT !.stage = "sync", !.doctor = doctor, !.clean = (Rt!Syncing = {}),
                        !.left = {d \in Rt!Dirs : disk[d] # NoDir}] \in Procs
    BY DEF Rt!Down, Procs
  <2>2. [Rt!Down EXCEPT !.stage = "load"] \in Procs
    BY DEF Rt!Down, Procs
  <2> QED BY <1>2, <1>3, <2>1, <2>2 DEF Rt!Start
<1>4. ASSUME NEW p \in Processes, Rt!ReadSkill(p) PROVE RuntimeTypeOK'
  <2> DEFINE d == Rt!Min(proc[p].left)
  <2>1. (IF d \in Rt!OnDisk THEN Rt!Skill(d) ELSE Nothing) \in Skills \cup {Nothing}
    BY SkillType
  <2>2. [proc[p] EXCEPT !.left = @ \ {d},
                        !.held = IF d \in Rt!OnDisk THEN Rt!Skill(d) ELSE Nothing] \in Procs
    BY <2>1 DEF Procs
  <2> QED BY <1>4, <2>2 DEF Rt!ReadSkill
<1>5. ASSUME NEW p \in Processes, Rt!UpsertSkill(p) PROVE RuntimeTypeOK'
  <2>1. proc[p].held \in Skills
    BY <1>5 DEF Rt!UpsertSkill, Procs
  <2>2. proc[p].held.id \in Rt!Dirs /\ proc[p].held.tools \in ToolLists
    BY <2>1 DEF Skills
  <2> QED BY <1>5, <2>2 DEF Rt!UpsertSkill, Procs
<1>6. ASSUME NEW p \in Processes PROVE Rt!AfterSync(p) \in Procs
  BY DEF Rt!AfterSync, Rt!Down, Procs
<1>7. ASSUME NEW p \in Processes, Rt!UpsertFails(p) \/ Rt!EndSync(p) PROVE RuntimeTypeOK'
  BY <1>6, <1>7 DEF Rt!UpsertFails, Rt!EndSync, Procs
<1>8. ASSUME NEW p \in Processes, Rt!Load(p) \/ Rt!LoadFails(p) PROVE RuntimeTypeOK'
  <2>1. \A lists : Rt!Offered(lists) \subseteq Rt!Tools
    BY OfferedType DEF Rt!Registered
  <2> DEFINE calm == /\ Rt!Syncing = {}
                     /\ config.doctorSync => fresh
             tools == Rt!Offered(Rt!Lists(Rt!InRegistry))
             fallback == Rt!Offered(Rt!Lists({}))
  <2>2. tools \subseteq Rt!Tools /\ fallback \subseteq Rt!Tools
    BY <2>1
  <2>3. /\ [Rt!Down EXCEPT !.stage = "up", !.tools = tools, !.clean = calm] \in Procs
        /\ [Rt!Down EXCEPT !.stage = "up", !.tools = fallback] \in Procs
    BY <2>2 DEF Rt!Down, Procs
  <2>4. \/ proc' = [proc EXCEPT ![p] =
                     [Rt!Down EXCEPT !.stage = "up", !.tools = tools, !.clean = calm]]
        \/ proc' = [proc EXCEPT ![p] = [Rt!Down EXCEPT !.stage = "up", !.tools = fallback]]
    BY <1>8 DEF Rt!Load, Rt!LoadFails
  <2>5. proc' \in [Processes -> Procs]
    BY <2>3, <2>4
  <2> QED BY <1>8, <2>5 DEF Rt!Load, Rt!LoadFails
<1>9. ASSUME NEW p \in Processes, Rt!OpenFails(p) \/ Rt!Stop(p) \/ Rt!Crash(p) PROVE RuntimeTypeOK'
  BY <1>9, DownType DEF Rt!OpenFails, Rt!Stop, Rt!Crash
<1>10. CASE Rt!User
  BY <1>2, <1>10 DEF Rt!User, Rt!Edit
<1> QED BY <1>1, <1>3, <1>4, <1>5, <1>7, <1>8, <1>9, <1>10
        DEF Rt!Next, Rt!Begin, Rt!Step, Rt!Fault

(***************************************************************************)
(* Syncs: while the registry is calm (the last undisturbed sync has ended  *)
(* or is under way), what any sync holds is still on disk, with all that   *)
(* comes after it still to be read; so a row that is not what the last     *)
(* directory of its id says is still to be written.                        *)
(***************************************************************************)
Pending(q, d) == d \in proc[q].left \/ proc[q].held = Rt!Skill(d)

Known(q) ==
  /\ proc[q].held # Nothing =>
       \E d \in Rt!OnDisk : /\ proc[q].held = Rt!Skill(d)
                            /\ \A e \in Rt!OnDisk : e > d => e \in proc[q].left
  /\ \A d \in proc[q].left : \A e \in Rt!OnDisk : e > d => e \in proc[q].left

Calm    == fresh \/ \E p \in Rt!Syncing : proc[p].clean
Settled == \E p \in Processes : proc[p].stage = "up" /\ proc[p].clean

Alone  == \A p \in Rt!Syncing : proc[p].clean => Rt!Syncing = {p}
Idle   == \A p \in Processes \ Rt!Syncing : proc[p].held = Nothing /\ proc[p].left = {}
Seen   == Calm \/ Settled => \A q \in Rt!Syncing : Known(q)
Copied == Calm => \A id \in Ids : \/ registry[id] = Row(id)
                                  \/ \E q \in Rt!Syncing : Pending(q, Max(DirsOf(id)))
NoSync == ~config.doctorSync => Rt!Syncing = {} /\ \A id \in Rt!Dirs : registry[id] = NoRow

SyncInv == RuntimeTypeOK /\ Alone /\ Idle /\ Seen /\ Copied /\ NoSync

LEMMA LastDirOf ==
  ASSUME RuntimeTypeOK, NEW id \in Ids
  PROVE  /\ Max(DirsOf(id)) \in DirsOf(id) /\ Max(DirsOf(id)) \in Rt!OnDisk
         /\ \A d \in DirsOf(id) : d <= Max(DirsOf(id))
<1>1. DirsOf(id) \subseteq Rt!Dirs /\ DirsOf(id) \subseteq Rt!OnDisk /\ DirsOf(id) # {}
  BY DEF DirsOf, Rt!OnDisk, Ids
<1>2. DirsOf(id) \subseteq 0 .. LastDir
  BY <1>1, ToolboxAssumption DEF Rt!Dirs
<1> QED BY <1>1, <1>2, ToolboxAssumption, GreatestNat

LEMMA DiskKept ==
  ASSUME UNCHANGED disk
  PROVE  /\ Rt!OnDisk' = Rt!OnDisk /\ Ids' = Ids
         /\ \A d : Rt!Skill(d)' = Rt!Skill(d)
         /\ \A id : DirsOf(id)' = DirsOf(id) /\ Row(id)' = Row(id)
BY DEF Rt!OnDisk, Rt!Skill, Rt!IdOf, Ids, DirsOf, Row

(* A step of a sync that does not end it. *)
LEMMA SyncStep ==
  ASSUME SyncInv, NEW p \in Rt!Syncing, NEW st, st \in Procs,
         proc' = [proc EXCEPT ![p] = st], st.stage = "sync", st.clean = proc[p].clean
  PROVE  /\ Rt!Syncing' = Rt!Syncing
         /\ (\E q \in Rt!Syncing : proc[q].clean)' <=> (\E q \in Rt!Syncing : proc[q].clean)
         /\ Settled' <=> Settled
         /\ Alone' /\ Idle'
<1>1. p \in Processes /\ proc[p].stage = "sync" /\ proc \in [Processes -> Procs]
  BY DEF Rt!Syncing, SyncInv, RuntimeTypeOK
<1>2. \A q \in Processes : proc'[q].stage = proc[q].stage /\ proc'[q].clean = proc[q].clean
  BY <1>1
<1>3. Rt!Syncing' = Rt!Syncing
  BY <1>2 DEF Rt!Syncing
<1>4. \A q \in Rt!Syncing : q \in Processes
  BY DEF Rt!Syncing
<1>5. Alone'
  BY <1>2, <1>3, <1>4 DEF Alone, SyncInv
<1>6. Idle'
  BY <1>1, <1>3 DEF Idle, SyncInv
<1> QED BY <1>2, <1>3, <1>4, <1>5, <1>6 DEF Settled

LEMMA ReadSkillStep ==
  ASSUME SyncInv, NEW p \in Processes, Rt!ReadSkill(p), RuntimeTypeOK'
  PROVE  SyncInv' /\ (Settled' <=> Settled)
<1> DEFINE d  == Min(proc[p].left)
           h  == IF d \in Rt!OnDisk THEN Rt!Skill(d) ELSE Nothing
           st == [proc[p] EXCEPT !.left = @ \ {d}, !.held = h]
<1> USE DEF SyncInv
<1>1. /\ proc[p].stage = "sync" /\ proc[p].left # {} /\ proc[p].held = Nothing
      /\ UNCHANGED <<config, disk, registry, fresh>>
  BY DEF Rt!ReadSkill
<1>2. proc' = [proc EXCEPT ![p] = st]
  <2>1. Rt!Min(proc[p].left) = d
    BY DEF Rt!Min, Min
  <2>2. proc' = [proc EXCEPT ![p].left = @ \ {d}, ![p].held = h]
    BY <2>1 DEF Rt!ReadSkill
  <2>3. proc \in [Processes -> Procs]
    BY DEF RuntimeTypeOK
  <2> QED BY <2>2, <2>3 DEF Procs
<1>3. p \in Rt!Syncing /\ proc \in [Processes -> Procs] /\ proc' \in [Processes -> Procs]
  BY <1>1 DEF Rt!Syncing, RuntimeTypeOK
<1>4. st \in Procs /\ st.stage = "sync" /\ st.clean = proc[p].clean /\ st.left = proc[p].left \ {d} /\ st.held = h
  BY <1>1, <1>2, <1>3 DEF Procs
<1> HIDE DEF st
<1>5. /\ Rt!Syncing' = Rt!Syncing /\ Alone' /\ Idle'
      /\ Calm' <=> Calm
      /\ Settled' <=> Settled
  BY <1>1, <1>2, <1>3, <1>4, SyncStep DEF Calm
<1>6. proc[p].left \subseteq Nat
  BY <1>3, ToolboxAssumption DEF Procs, Rt!Dirs
<1>7. d \in proc[p].left /\ \A e \in proc[p].left : d <= e
  BY <1>1, <1>6, LeastNat
<1>8. \A e \in Rt!OnDisk : e \in Nat /\ Rt!Skill(e) # Nothing
  BY SkillType
<1> HIDE DEF d
<1>9. /\ proc'[p].left = proc[p].left \ {d}
      /\ proc'[p].held = h
      /\ \A q \in Processes \ {p} : proc'[q] = proc[q]
  BY <1>2, <1>3, <1>4
<1>10. ASSUME Known(p) PROVE Known(p)'
  <2>1. ASSUME d \in Rt!OnDisk, NEW e \in Rt!OnDisk, e > d PROVE e \in proc'[p].left
    <3>1. e \in proc[p].left
      BY <1>7, <1>10, <2>1 DEF Known
    <3>2. e # d
      BY <1>6, <1>7, <1>8, <2>1
    <3> QED BY <1>9, <3>1, <3>2
  <2>2. ASSUME NEW c \in proc'[p].left, NEW e \in Rt!OnDisk, e > c PROVE e \in proc'[p].left
    <3>1. c \in proc[p].left /\ d <= c /\ c \in Nat /\ d \in Nat /\ e \in Nat
      BY <1>6, <1>7, <1>8, <1>9
    <3>2. e \in proc[p].left /\ e # d
      BY <1>10, <2>2, <3>1 DEF Known
    <3> QED BY <1>9, <3>2
  <2>3. proc'[p].held # Nothing => d \in Rt!OnDisk /\ proc'[p].held = Rt!Skill(d)
    BY <1>9
  <2> QED BY <1>1, <2>1, <2>2, <2>3, DiskKept DEF Known
<1>11. ASSUME NEW q \in Rt!Syncing, q # p, Known(q) PROVE Known(q)'
  <2>1. proc'[q] = proc[q]
    BY <1>9, <1>11 DEF Rt!Syncing
  <2> QED BY <1>1, <1>11, <2>1, DiskKept DEF Known
<1>12. Seen'
  BY <1>5, <1>10, <1>11 DEF Seen
<1>13. ASSUME NEW q \in Rt!Syncing, NEW m \in Rt!OnDisk, Pending(q, m) PROVE Pending(q, m)'
  <2>1. CASE q # p
    <3>1. proc'[q] = proc[q]
      BY <1>9, <2>1 DEF Rt!Syncing
    <3> QED BY <1>1, <1>13, <3>1, DiskKept DEF Pending
  <2>2. CASE q = p
    <3>1. m \in proc[p].left
      BY <1>1, <1>8, <1>13, <2>2 DEF Pending
    <3> QED BY <1>1, <1>9, <2>2, <3>1, DiskKept DEF Pending
  <2> QED BY <2>1, <2>2
<1>14. Copied'
  <2>1. \A id \in Ids : Max(DirsOf(id)) \in Rt!OnDisk
    BY LastDirOf
  <2>2. ASSUME Calm', NEW id \in Ids'
        PROVE  \/ registry'[id] = Row(id)'
               \/ \E q \in Rt!Syncing' : Pending(q, Max(DirsOf(id)))'
    <3>1. id \in Ids /\ DirsOf(id)' = DirsOf(id) /\ Row(id)' = Row(id) /\ registry' = registry
      BY <1>1, <2>2, DiskKept
    <3>2. \/ registry[id] = Row(id)
          \/ \E q \in Rt!Syncing : Pending(q, Max(DirsOf(id)))
      BY <1>5, <2>2, <3>1 DEF Copied
    <3>3. \A q \in Rt!Syncing : Pending(q, Max(DirsOf(id))) => Pending(q, Max(DirsOf(id)))'
      <4>1. \A q \in Rt!Syncing : Pending(q, Max(DirsOf(id))) => (LET m == Max(DirsOf(id)) IN m \in proc'[q].left \/ proc'[q].held = Rt!Skill(m)')
        BY <1>13, <2>1, <3>1 DEF Pending
      <4> QED BY <3>1, <4>1 DEF Pending
    <3> QED BY <1>5, <3>1, <3>2, <3>3
  <2> QED BY <2>2 DEF Copied
<1>15. NoSync'
  BY <1>1, <1>5 DEF NoSync
<1> QED BY <1>5, <1>12, <1>14, <1>15

LEMMA UpsertSkillStep ==
  ASSUME SyncInv, NEW p \in Processes, Rt!UpsertSkill(p), RuntimeTypeOK'
  PROVE  /\ SyncInv' /\ (Settled' <=> Settled)
         /\ Settled => \A id \in Rt!Dirs \ Ids : registry'[id] = registry[id]
<1> DEFINE h  == proc[p].held
           st == [proc[p] EXCEPT !.held = Nothing]
<1> USE DEF SyncInv
<1>1. /\ h # Nothing /\ UNCHANGED <<config, disk, fresh>>
      /\ registry' = [registry EXCEPT ![h.id] = h.tools]
      /\ proc' = [proc EXCEPT ![p] = st]
  <2>1. proc \in [Processes -> Procs]
    BY DEF RuntimeTypeOK
  <2> QED BY <2>1 DEF Rt!UpsertSkill, Procs
<1>2. p \in Rt!Syncing /\ proc[p].stage = "sync" /\ proc \in [Processes -> Procs]
  BY <1>1 DEF Rt!Syncing, Idle, RuntimeTypeOK
<1>3. st \in Procs /\ st.stage = "sync" /\ st.clean = proc[p].clean /\ st.left = proc[p].left /\ st.held = Nothing
  BY <1>2 DEF Procs
<1> HIDE DEF st
<1>4. /\ Rt!Syncing' = Rt!Syncing /\ Alone' /\ Idle'
      /\ Calm' <=> Calm
      /\ Settled' <=> Settled
  BY <1>1, <1>2, <1>3, SyncStep DEF Calm
<1>5. /\ proc'[p].left = proc[p].left /\ proc'[p].held = Nothing
      /\ \A q \in Processes \ {p} : proc'[q] = proc[q]
  BY <1>1, <1>2, <1>3
<1>6. ASSUME NEW q \in Rt!Syncing, Known(q) PROVE Known(q)'
  <2>1. CASE q # p
    <3>1. proc'[q] = proc[q]
      BY <1>5, <2>1 DEF Rt!Syncing
    <3> QED BY <1>1, <1>6, <3>1, DiskKept DEF Known
  <2>2. CASE q = p
    BY <1>1, <1>5, <1>6, <2>2, DiskKept DEF Known
  <2> QED BY <2>1, <2>2
<1>7. Seen'
  BY <1>4, <1>6 DEF Seen
<1>8. ASSUME Calm \/ Settled
      PROVE \E d \in Rt!OnDisk : /\ h = Rt!Skill(d)
                                 /\ \A e \in Rt!OnDisk : e > d => e \in proc[p].left
  BY <1>1, <1>2, <1>8 DEF Seen, Known
<1>9. ASSUME NEW d \in Rt!OnDisk, h = Rt!Skill(d)
      PROVE  h.id = Rt!IdOf(d) /\ h.id \in Rt!Dirs /\ h.id \in Ids /\ d \in DirsOf(h.id)
  <2>1. h.id = Rt!IdOf(d) /\ h.id \in Rt!Dirs
    BY <1>9, SkillType
  <2>2. d \in DirsOf(h.id)
    BY <1>9, <2>1 DEF DirsOf
  <2> QED BY <2>1, <2>2 DEF Ids
<1>10. ASSUME Settled, NEW id \in Rt!Dirs \ Ids PROVE registry'[id] = registry[id]
  BY <1>1, <1>8, <1>9, <1>10 DEF RuntimeTypeOK
<1>11. ASSUME Calm, NEW id \in Ids
       PROVE  \/ registry'[id] = Row(id)
              \/ \E q \in Rt!Syncing : LET m == Max(DirsOf(id)) IN
                   m \in proc'[q].left \/ proc'[q].held = Rt!Skill(m)
  <2> DEFINE m == Max(DirsOf(id))
  <2>1. PICK d \in Rt!OnDisk : /\ h = Rt!Skill(d)
                               /\ \A e \in Rt!OnDisk : e > d => e \in proc[p].left
    BY <1>8, <1>11
  <2>2. m \in DirsOf(id) /\ m \in Rt!OnDisk /\ m \in Nat /\ \A e \in DirsOf(id) : e <= m
    BY LastDirOf, SkillType
  <2> HIDE DEF m
  <2>3. CASE h.id = id
    <3>1. d \in DirsOf(id) /\ d <= m /\ d \in Nat
      BY <1>9, <2>1, <2>2, <2>3, SkillType
    <3>2. CASE d = m
      <4>1. h.tools = disk[m].tools
        BY <2>1, <3>2, SkillType
      <4>2. registry'[id] = h.tools
        BY <1>1, <2>3 DEF RuntimeTypeOK, Ids
      <4> QED BY <4>1, <4>2 DEF Row, m
    <3>3. CASE d # m
      <4>1. m \in proc[p].left
        BY <2>1, <2>2, <3>1, <3>3
      <4> QED BY <1>2, <1>5, <4>1 DEF m
    <3> QED BY <3>2, <3>3
  <2>4. CASE h.id # id
    <3>1. registry'[id] = registry[id]
      BY <1>1, <2>4 DEF RuntimeTypeOK, Ids
    <3>2. h # Rt!Skill(m)
      <4>1. Rt!Skill(m).id = id
        BY <2>2, SkillType DEF DirsOf
      <4> QED BY <2>4, <4>1
    <3>3. \/ registry[id] = Row(id)
          \/ \E q \in Rt!Syncing : Pending(q, m)
      BY <1>11 DEF Copied, m
    <3>4. ASSUME NEW q \in Rt!Syncing, Pending(q, m)
          PROVE  m \in proc'[q].left \/ proc'[q].held = Rt!Skill(m)
      BY <1>5, <3>2, <3>4 DEF Pending, Rt!Syncing
    <3> QED BY <3>1, <3>3, <3>4 DEF m
  <2> QED BY <2>3, <2>4
<1>12. Copied'
  <2>1. ASSUME NEW id \in Ids PROVE Max(DirsOf(id))' = Max(DirsOf(id))
    BY <1>1, DiskKept
  <2> QED BY <1>1, <1>4, <1>11, DiskKept DEF Copied, Pending
<1>13. NoSync'
  BY <1>1, <1>2, <1>4 DEF NoSync
<1> QED BY <1>4, <1>7, <1>10, <1>12, <1>13

(* A sync ends: complete, or by a failure that takes the calm away. *)
LEMMA SyncEnds ==
  ASSUME SyncInv, RuntimeTypeOK', NEW p \in Rt!Syncing, NEW st \in Procs,
         proc' = [proc EXCEPT ![p] = st],
         st.stage \in {"down", "load"}, st.held = Nothing, st.left = {},
         UNCHANGED <<config, disk, registry>>,
         fresh' => Calm /\ proc[p].left = {} /\ proc[p].held = Nothing
  PROVE  SyncInv' /\ (Settled' => Settled)
<1> USE DEF SyncInv
<1>1. p \in Processes /\ proc \in [Processes -> Procs] /\ proc[p].stage = "sync"
  BY DEF Rt!Syncing, RuntimeTypeOK
<1>2. proc'[p] = st /\ \A q \in Processes \ {p} : proc'[q] = proc[q]
  BY <1>1
<1>3. Rt!Syncing' = Rt!Syncing \ {p}
  BY <1>1, <1>2 DEF Rt!Syncing
<1>4. Settled' => Settled
  BY <1>2 DEF Settled
<1>5. ASSUME NEW q \in Rt!Syncing' PROVE q \in Rt!Syncing /\ q # p /\ proc'[q] = proc[q] /\ ~proc[q].clean
  BY <1>2, <1>3, <1>5 DEF Alone, Rt!Syncing
<1>6. Alone'
  BY <1>5 DEF Alone
<1>7. Idle'
  BY <1>2, <1>3 DEF Idle
<1>8. Calm' => fresh' /\ Calm /\ proc[p].left = {} /\ proc[p].held = Nothing
  BY <1>5 DEF Calm
<1>9. Seen'
  <2>1. ASSUME NEW q \in Rt!Syncing', Known(q) PROVE Known(q)'
    BY <1>5, <2>1, DiskKept DEF Known
  <2> QED BY <1>4, <1>5, <1>8, <2>1 DEF Seen
<1>10. Copied'
  <2>1. ASSUME Calm', NEW id \in Ids
        PROVE  \/ registry'[id] = Row(id)
               \/ \E q \in Rt!Syncing' : LET m == Max(DirsOf(id)) IN
                    m \in proc'[q].left \/ proc'[q].held = Rt!Skill(m)
    <3>1. Rt!Skill(Max(DirsOf(id))) # Nothing
      BY LastDirOf, SkillType
    <3>2. ~Pending(p, Max(DirsOf(id)))
      BY <1>8, <2>1, <3>1 DEF Pending
    <3>3. \/ registry[id] = Row(id)
          \/ \E q \in Rt!Syncing : Pending(q, Max(DirsOf(id)))
      BY <1>8, <2>1 DEF Copied
    <3>4. ASSUME NEW q \in Rt!Syncing, Pending(q, Max(DirsOf(id))) PROVE q \in Rt!Syncing' /\ proc'[q] = proc[q]
      BY <1>2, <1>3, <3>2, <3>4 DEF Rt!Syncing
    <3> QED BY <3>3, <3>4 DEF Pending
  <2>2. ASSUME NEW id \in Ids PROVE Max(DirsOf(id))' = Max(DirsOf(id))
    BY DiskKept
  <2> QED BY <2>1, <2>2, DiskKept DEF Copied, Pending
<1>11. NoSync'
  BY <1>3 DEF NoSync
<1> QED BY <1>4, <1>6, <1>7, <1>9, <1>10, <1>11

(* A process that does not sync, before or after the step. *)
LEMMA OtherStep ==
  ASSUME SyncInv, RuntimeTypeOK', NEW p \in Processes \ Rt!Syncing, NEW st \in Procs,
         proc' = [proc EXCEPT ![p] = st],
         st.stage # "sync", st.held = Nothing, st.left = {},
         st.stage = "up" /\ st.clean => Rt!Syncing = {},
         UNCHANGED <<config, disk, registry, fresh>>
  PROVE  SyncInv' /\ Rt!Syncing' = Rt!Syncing
<1> USE DEF SyncInv
<1>1. proc'[p] = st /\ \A q \in Processes \ {p} : proc'[q] = proc[q]
  BY DEF RuntimeTypeOK
<1>2. Rt!Syncing' = Rt!Syncing /\ \A q \in Rt!Syncing : q \in Processes /\ proc'[q] = proc[q]
  BY <1>1 DEF Rt!Syncing
<1>3. Calm' <=> Calm
  BY <1>2 DEF Calm
<1>4. Alone' /\ Idle' /\ NoSync'
  BY <1>1, <1>2 DEF Alone, Idle, NoSync
<1>5. Seen'
  <2>1. ASSUME NEW q \in Rt!Syncing, Known(q) PROVE Known(q)'
    BY <1>2, <2>1, DiskKept DEF Known
  <2>2. Rt!Syncing # {} => (Settled' => Settled)
    BY <1>1 DEF Settled
  <2> QED BY <1>2, <1>3, <2>1, <2>2 DEF Seen
<1>6. Copied'
  <2>1. ASSUME NEW id \in Ids PROVE Max(DirsOf(id))' = Max(DirsOf(id))
    BY DiskKept
  <2> QED BY <1>2, <1>3, <2>1, DiskKept DEF Copied, Pending
<1> QED BY <1>2, <1>4, <1>5, <1>6

LEMMA DisturbedKeeps ==
  ASSUME RuntimeTypeOK, NEW S, NEW q \in Processes
  PROVE  /\ Rt!Disturbed(S)[q].stage = proc[q].stage /\ Rt!Disturbed(S)[q].left = proc[q].left
         /\ Rt!Disturbed(S)[q].held = proc[q].held /\ Rt!Disturbed(S)[q].tools = proc[q].tools
         /\ q \notin S => Rt!Disturbed(S)[q] = proc[q]
         /\ q \in S => Rt!Disturbed(S)[q].clean = FALSE
BY DEF RuntimeTypeOK, Procs, Rt!Disturbed

LEMMA SyncBegins ==
  ASSUME SyncInv, RuntimeTypeOK', NEW p \in Processes, NEW doctor \in BOOLEAN,
         Rt!Start(p, doctor), config.doctorSync
  PROVE  SyncInv' /\ (Settled' => Settled)
<1> USE DEF SyncInv
<1> DEFINE st == [Rt!Down EXCEPT !.stage = "sync", !.doctor = doctor, !.clean = (Rt!Syncing = {}),
                                 !.left = {d \in Rt!Dirs : disk[d] # NoDir}]
<1>1. /\ proc[p].stage = "down" /\ UNCHANGED <<config, disk, registry, fresh>>
      /\ proc' = [Rt!Disturbed(Rt!Syncing) EXCEPT ![p] = st]
  BY DEF Rt!Start
<1>2. /\ st.stage = "sync" /\ st.held = Nothing /\ st.clean = (Rt!Syncing = {})
      /\ st.left = {d \in Rt!Dirs : disk[d] # NoDir}
  BY DEF Rt!Down
<1> HIDE DEF st
<1>3. Rt!Disturbed(Rt!Syncing) = [q \in Processes |-> Rt!Disturbed(Rt!Syncing)[q]]
  BY DEF Rt!Disturbed
<1>4. /\ proc'[p] = st
      /\ \A q \in Processes \ {p} :
           /\ proc'[q].stage = proc[q].stage /\ proc'[q].left = proc[q].left
           /\ proc'[q].held = proc[q].held
           /\ q \notin Rt!Syncing => proc'[q] = proc[q]
           /\ q \in Rt!Syncing => proc'[q].clean = FALSE
  <2>1. proc'[p] = st /\ \A q \in Processes \ {p} : proc'[q] = Rt!Disturbed(Rt!Syncing)[q]
    BY <1>1, <1>3
  <2>2. ASSUME NEW q \in Processes \ {p}
        PROVE  /\ proc'[q].stage = proc[q].stage /\ proc'[q].left = proc[q].left
               /\ proc'[q].held = proc[q].held
               /\ q \notin Rt!Syncing => proc'[q] = proc[q]
               /\ q \in Rt!Syncing => proc'[q].clean = FALSE
    <3> DEFINE dist == Rt!Disturbed(Rt!Syncing)[q]
    <3>1. /\ dist.stage = proc[q].stage /\ dist.left = proc[q].left /\ dist.held = proc[q].held
          /\ q \notin Rt!Syncing => dist = proc[q]
          /\ q \in Rt!Syncing => dist.clean = FALSE
      BY DisturbedKeeps
    <3>2. proc'[q] = dist
      BY <2>1
    <3> HIDE DEF dist
    <3> QED BY <3>1, <3>2
  <2> QED BY <2>1, <2>2
<1>4a. p \notin Rt!Syncing /\ \A q \in Rt!Syncing : q \in Processes
  BY <1>1 DEF Rt!Syncing
<1>4b. Rt!Syncing' = Rt!Syncing \cup {p}
  BY <1>2, <1>4 DEF Rt!Syncing
<1>5. /\ Rt!Syncing' = Rt!Syncing \cup {p} /\ p \notin Rt!Syncing
      /\ \A q \in Rt!Syncing : /\ q \in Processes /\ q # p /\ ~proc'[q].clean
                               /\ proc'[q].left = proc[q].left /\ proc'[q].held = proc[q].held
  BY <1>4, <1>4a, <1>4b
<1>6. Settled' => Settled
  BY <1>2, <1>4 DEF Settled, Rt!Syncing
<1>7. Alone' /\ NoSync'
  BY <1>1, <1>2, <1>4, <1>5 DEF Alone, NoSync
<1>8. Idle'
  BY <1>4, <1>5 DEF Idle
<1>9. Calm' => fresh \/ Rt!Syncing = {}
  BY <1>1, <1>2, <1>4, <1>5 DEF Calm
<1>10. Rt!OnDisk \subseteq st.left
  BY <1>2 DEF Rt!OnDisk
<1>11. Known(p)'
  <2>1. proc'[p].held = Nothing /\ Rt!OnDisk \subseteq proc'[p].left
    BY <1>2, <1>4, <1>10
  <2> QED BY <1>1, <2>1, DiskKept DEF Known
<1>12. Seen'
  <2>1. ASSUME NEW q \in Rt!Syncing, Known(q) PROVE Known(q)'
    BY <1>1, <1>5, <2>1, DiskKept DEF Known
  <2>2. Calm' \/ Settled' => Calm \/ Settled \/ Rt!Syncing = {}
    BY <1>6, <1>9 DEF Calm
  <2> QED BY <1>5, <1>11, <2>1, <2>2 DEF Seen
<1>13. Copied'
  <2>1. ASSUME Calm', NEW id \in Ids
        PROVE  \/ registry'[id] = Row(id)
               \/ \E q \in Rt!Syncing' : LET m == Max(DirsOf(id)) IN
                    m \in proc'[q].left \/ proc'[q].held = Rt!Skill(m)
    <3>1. Max(DirsOf(id)) \in proc'[p].left
      BY <1>4, <1>10, LastDirOf
    <3> QED BY <1>5, <3>1
  <2>2. ASSUME NEW id \in Ids PROVE Max(DirsOf(id))' = Max(DirsOf(id))
    BY <1>1, DiskKept
  <2> QED BY <1>1, <2>1, <2>2, DiskKept DEF Copied, Pending
<1> QED BY <1>6, <1>7, <1>8, <1>12, <1>13

LEMMA EditStep ==
  ASSUME SyncInv, RuntimeTypeOK', Rt!User
  PROVE  SyncInv' /\ ~Settled' /\ (\A p \in Processes : proc'[p].tools = proc[p].tools)
<1> USE DEF SyncInv
<1>1. /\ UNCHANGED <<config, registry>> /\ fresh' = FALSE
      /\ proc' = Rt!Disturbed(Processes)
  BY DEF Rt!User, Rt!Edit
<1>2. \A q \in Processes : /\ proc'[q].stage = proc[q].stage /\ proc'[q].left = proc[q].left
                           /\ proc'[q].held = proc[q].held /\ proc'[q].tools = proc[q].tools
                           /\ ~proc'[q].clean
  BY <1>1, DisturbedKeeps
<1>3. Rt!Syncing' = Rt!Syncing /\ \A q \in Rt!Syncing : q \in Processes
  BY <1>2 DEF Rt!Syncing
<1>4. ~Calm' /\ ~Settled'
  BY <1>1, <1>2, <1>3 DEF Calm, Settled
<1>5. Alone' /\ Idle' /\ NoSync'
  BY <1>1, <1>2, <1>3 DEF Alone, Idle, NoSync
<1> QED BY <1>2, <1>4, <1>5 DEF Seen, Copied

LEMMA SyncInvStep == SyncInv /\ [Rt!Next]_runtime => SyncInv'
<1> SUFFICES ASSUME SyncInv, [Rt!Next]_runtime PROVE SyncInv'
  OBVIOUS
<1>0. RuntimeTypeOK /\ RuntimeTypeOK' /\ proc \in [Processes -> Procs]
  BY TypeStep DEF SyncInv, RuntimeTypeOK
<1>1. CASE UNCHANGED runtime
  <2>1. /\ Rt!Syncing' = Rt!Syncing /\ Calm' = Calm /\ Settled' = Settled
    BY <1>1 DEF runtime, Rt!Syncing, Calm, Settled
  <2>2. \A id : Max(DirsOf(id))' = Max(DirsOf(id))
    BY <1>1 DEF runtime, DirsOf, Rt!OnDisk, Rt!IdOf
  <2>3. \A q : Known(q)' = Known(q)
    BY <1>1, DiskKept DEF runtime, Known
  <2> QED BY <1>0, <1>1, <2>1, <2>2, <2>3, DiskKept
          DEF runtime, SyncInv, Alone, Idle, Seen, Copied, NoSync, Pending
<1>2. ASSUME NEW p \in Processes, NEW doctor \in BOOLEAN, Rt!Start(p, doctor) PROVE SyncInv'
  <2>1. CASE config.doctorSync
    BY <1>0, <1>2, <2>1, SyncBegins
  <2>2. CASE ~config.doctorSync
    <3> DEFINE st == [Rt!Down EXCEPT !.stage = "load"]
    <3>1. Rt!Syncing = {} /\ Rt!Disturbed(Rt!Syncing) = proc
      BY <1>0, <2>2 DEF SyncInv, NoSync, Rt!Disturbed
    <3>2. proc' = [proc EXCEPT ![p] = st] /\ UNCHANGED <<config, disk, registry, fresh>>
      BY <1>2, <2>2, <3>1 DEF Rt!Start
    <3>3. st \in Procs /\ st.stage # "sync" /\ st.held = Nothing /\ st.left = {}
      BY DEF Rt!Down, Procs
    <3> HIDE DEF st
    <3> QED BY <1>0, <3>1, <3>2, <3>3, OtherStep
  <2> QED BY <2>1, <2>2
<1>3. ASSUME NEW p \in Processes, Rt!ReadSkill(p) PROVE SyncInv'
  BY <1>0, <1>3, ReadSkillStep
<1>4. ASSUME NEW p \in Processes, Rt!UpsertSkill(p) PROVE SyncInv'
  BY <1>0, <1>4, UpsertSkillStep
<1>5. ASSUME NEW p \in Processes
      PROVE  /\ Rt!AfterSync(p) \in Procs /\ Rt!AfterSync(p).stage \in {"down", "load"}
             /\ Rt!AfterSync(p).held = Nothing /\ Rt!AfterSync(p).left = {}
  BY DEF Rt!AfterSync, Rt!Down, Procs
<1>6. ASSUME NEW p \in Processes, Rt!EndSync(p) PROVE SyncInv'
  <2>1. p \in Rt!Syncing
    BY <1>6 DEF Rt!EndSync, Rt!Syncing
  <2>2. fresh' => Calm /\ proc[p].left = {} /\ proc[p].held = Nothing
    BY <1>6, <2>1 DEF Rt!EndSync, Calm
  <2> QED BY <1>0, <1>5, <1>6, <2>1, <2>2, SyncEnds DEF Rt!EndSync
<1>7. ASSUME NEW p \in Processes, Rt!UpsertFails(p) PROVE SyncInv'
  <2>1. p \in Rt!Syncing
    BY <1>7 DEF Rt!UpsertFails, SyncInv, Idle
  <2> QED BY <1>0, <1>5, <1>7, <2>1, SyncEnds DEF Rt!UpsertFails
<1>8. /\ Rt!Down \in Procs /\ Rt!Down.stage = "down" /\ Rt!Down.held = Nothing /\ Rt!Down.left = {}
  BY DownType DEF Rt!Down
<1>9. ASSUME NEW p \in Processes, Rt!Crash(p) PROVE SyncInv'
  <2>1. p \in Rt!Syncing
    BY <1>9 DEF Rt!Crash, Rt!Syncing
  <2> QED BY <1>0, <1>8, <1>9, <2>1, SyncEnds DEF Rt!Crash
<1>10. ASSUME NEW p \in Processes, Rt!OpenFails(p) \/ Rt!Stop(p) PROVE SyncInv'
  <2>1. p \in Processes \ Rt!Syncing
    BY <1>10 DEF Rt!OpenFails, Rt!Stop, Rt!Syncing
  <2> QED BY <1>0, <1>8, <1>10, <2>1, OtherStep DEF Rt!OpenFails, Rt!Stop
<1>11. ASSUME NEW p \in Processes, Rt!Load(p) \/ Rt!LoadFails(p) PROVE SyncInv'
  <2> DEFINE st == proc'[p]
  <2>1. p \in Processes \ Rt!Syncing
    BY <1>11 DEF Rt!Load, Rt!LoadFails, Rt!Syncing
  <2>2. proc' = [proc EXCEPT ![p] = st] /\ UNCHANGED <<config, disk, registry, fresh>>
    BY <1>0, <1>11 DEF Rt!Load, Rt!LoadFails
  <2>3. st.stage = "up" /\ st.held = Nothing /\ st.left = {} /\ (st.clean => Rt!Syncing = {})
    BY <1>0, <1>11 DEF Rt!Load, Rt!LoadFails, Rt!Down
  <2>4. st \in Procs
    BY <1>0 DEF RuntimeTypeOK
  <2> HIDE DEF st
  <2> QED BY <1>0, <2>1, <2>2, <2>3, <2>4, OtherStep
<1>12. CASE Rt!User
  BY <1>0, <1>12, EditStep
<1> QED BY <1>1, <1>2, <1>3, <1>4, <1>6, <1>7, <1>9, <1>10, <1>11, <1>12
        DEF Rt!Next, Rt!Begin, Rt!Step, Rt!Fault

LEMMA SyncInit == Rt!Init => SyncInv
<1> SUFFICES ASSUME Rt!Init PROVE SyncInv
  OBVIOUS
<1>1. RuntimeTypeOK
  BY DownType DEF Rt!Init, RuntimeTypeOK
<1>2. \A p \in Processes : /\ proc[p].stage = "down" /\ proc[p].held = Nothing /\ proc[p].left = {}
  BY DEF Rt!Init, Rt!Down
<1>3. Rt!Syncing = {} /\ ~fresh /\ \A id \in Rt!Dirs : registry[id] = NoRow
  BY <1>2 DEF Rt!Syncing, Rt!Init
<1> QED BY <1>1, <1>2, <1>3 DEF SyncInv, Alone, Idle, Seen, Copied, NoSync, Calm

(***************************************************************************)
(* After an undisturbed sync the registry says of every id on disk what    *)
(* the last directory of that id says, whatever syncs came after it.       *)
(***************************************************************************)
THEOREM RegistryFollows == Spec => []RegistryFollowsDisk
<1>1. Init => SyncInv
  BY SyncInit DEF Init
<1>2. SyncInv /\ [Next]_vars => SyncInv'
  BY PartSteps, SyncInvStep
<1>3. SyncInv => RegistryFollowsDisk
  BY DEF SyncInv, Copied, Calm, RegistryFollowsDisk
<1> QED BY <1>1, <1>2, <1>3, PTL DEF Spec

(***************************************************************************)
(* The tools of a process are those the registry gave it, and stay what    *)
(* the skills give until an edit: no sync changes what they list.          *)
(***************************************************************************)
LEMMA OfferedIsDue ==
  ASSUME NEW lists, UNION lists = Listed
  PROVE  Rt!Offered(lists) = Due
BY DEF Rt!Offered, Rt!FilterToolsBySkills, Due

LEMMA LoadGivesDue ==
  ASSUME SyncInv, Rt!Syncing = {}, config.doctorSync => fresh
  PROVE  Rt!Offered(Rt!Lists(Rt!InRegistry)) = Due
<1> USE DEF SyncInv
<1>1. CASE ~config.doctorSync
  <2>1. Rt!InRegistry = {}
    BY <1>1 DEF NoSync, Rt!InRegistry
  <2> QED BY <1>1, <2>1, OfferedIsDue DEF Rt!Lists, Listed
<1>2. CASE config.doctorSync
  <2>1. \A id \in Ids : registry[id] = Row(id) /\ id \in Rt!Dirs
    BY <1>2 DEF Copied, Calm, Ids
  <2>2. \A id \in Ids : registry[id] # NoRow
    BY <2>1, LastDirOf, SkillType DEF Row
  <2>3. Rt!InRegistry = {Row(id) : id \in Ids} \cup {registry[id] : id \in Orphans}
    BY <2>1, <2>2 DEF Rt!InRegistry, Orphans
  <2>4. CASE Rt!InRegistry # {}
    BY <1>2, <2>3, <2>4, OfferedIsDue DEF Rt!Lists, Listed
  <2>5. CASE Rt!InRegistry = {}
    <3>1. Ids = {}
      BY <2>3, <2>5
    <3>2. \A d \in Rt!OnDisk : Rt!IdOf(d) \in Ids
      BY SkillType DEF Ids, DirsOf
    <3>3. Rt!InFiles = {}
      BY <3>1, <3>2 DEF Rt!InFiles
    <3>4. Listed = {} /\ UNION Rt!InFiles = {}
      BY <1>2, <2>3, <2>5, <3>3 DEF Listed
    <3> QED BY <2>5, <3>4, OfferedIsDue DEF Rt!Lists
  <2> QED BY <2>4, <2>5
<1> QED BY <1>1, <1>2

LEMMA DueKept ==
  ASSUME UNCHANGED <<config, disk>>, \A id \in Rt!Dirs \ Ids : registry'[id] = registry[id]
  PROVE  Due' = Due
<1>1. Ids' = Ids /\ (\A id : Row(id)' = Row(id)) /\ Rt!InFiles' = Rt!InFiles
  BY DiskKept DEF Rt!InFiles
<1>2. Orphans' = Orphans /\ \A id \in Orphans : registry'[id] = registry[id]
  BY <1>1 DEF Orphans
<1>3. Rt!Registered' = Rt!Registered
  BY DEF Rt!Registered
<1>4. {Row(id)' : id \in Ids'} = {Row(id) : id \in Ids}
  BY <1>1, Zenon
<1>5. {registry'[id] : id \in Orphans'} = {registry[id] : id \in Orphans}
  BY <1>2, Zenon
<1>6. Listed' = Listed
  BY <1>1, <1>4, <1>5, Zenon DEF Listed
<1> QED BY <1>3, <1>6 DEF Due

ToolsInv == SyncInv /\ ToolsFollowDisk

LEMMA ToolsStep == ToolsInv /\ [Rt!Next]_runtime => ToolsInv'
<1> SUFFICES ASSUME ToolsInv, [Rt!Next]_runtime PROVE ToolsFollowDisk'
  BY SyncInvStep DEF ToolsInv
<1>0. SyncInv /\ SyncInv' /\ RuntimeTypeOK' /\ proc \in [Processes -> Procs] /\ ToolsFollowDisk
  BY SyncInvStep DEF ToolsInv, SyncInv, RuntimeTypeOK
<1>1. ASSUME UNCHANGED <<config, disk, registry>> PROVE Due' = Due /\ Rt!Registered' = Rt!Registered
  BY <1>1, DueKept DEF Rt!Registered
(* Everybody keeps its tools, and nobody comes up or gets clean. *)
<1>2. ASSUME UNCHANGED <<config, disk, registry>>,
             \A q \in Processes : \/ proc'[q].tools = {} /\ proc'[q].stage # "up"
                                  \/ /\ proc'[q].tools = proc[q].tools
                                     /\ proc'[q].stage = proc[q].stage
                                     /\ proc'[q].clean => proc[q].clean
      PROVE  ToolsFollowDisk'
  BY <1>0, <1>1, <1>2 DEF ToolsFollowDisk
<1>3. CASE UNCHANGED runtime
  BY <1>2, <1>3 DEF runtime
<1>4. ASSUME NEW p \in Processes, NEW doctor \in BOOLEAN, Rt!Start(p, doctor) PROVE ToolsFollowDisk'
  <2>1. proc'[p].tools = {} /\ proc'[p].stage # "up"
    BY <1>4 DEF Rt!Start, Rt!Down, Rt!Disturbed
  <2>2. ASSUME NEW q \in Processes \ {p}
        PROVE  /\ proc'[q].tools = proc[q].tools /\ proc'[q].stage = proc[q].stage
               /\ proc'[q].clean => proc[q].clean
    <3> DEFINE dist == Rt!Disturbed(Rt!Syncing)[q]
    <3>1. /\ dist.stage = proc[q].stage /\ dist.tools = proc[q].tools
          /\ dist.clean => proc[q].clean
      BY <1>0, DisturbedKeeps DEF SyncInv
    <3>2. proc'[q] = dist
      BY <1>4 DEF Rt!Start, Rt!Disturbed
    <3> HIDE DEF dist
    <3> QED BY <3>1, <3>2
  <2> QED BY <1>2, <1>4, <2>1, <2>2 DEF Rt!Start
<1>5. ASSUME NEW p \in Processes, Rt!ReadSkill(p) PROVE ToolsFollowDisk'
  <2>1. \A q \in Processes : /\ proc'[q].tools = proc[q].tools /\ proc'[q].stage = proc[q].stage
                             /\ proc'[q].clean = proc[q].clean
    BY <1>0, <1>5 DEF Rt!ReadSkill, Procs
  <2> QED BY <1>2, <1>5, <2>1 DEF Rt!ReadSkill
<1>6. ASSUME NEW p \in Processes, Rt!UpsertSkill(p) PROVE ToolsFollowDisk'
  <2>1. \A q \in Processes : /\ proc'[q].tools = proc[q].tools /\ proc'[q].stage = proc[q].stage
                             /\ proc'[q].clean = proc[q].clean
    BY <1>0, <1>6 DEF Rt!UpsertSkill, Procs
  <2>2. UNCHANGED <<config, disk>> /\ Rt!Registered' = Rt!Registered
    BY <1>6 DEF Rt!UpsertSkill, Rt!Registered
  <2>3. Settled => Due' = Due
    BY <1>0, <1>6, <2>2, UpsertSkillStep, DueKept
  <2> QED BY <1>0, <2>1, <2>2, <2>3 DEF ToolsFollowDisk, Settled
<1>7. ASSUME NEW p \in Processes
      PROVE  /\ Rt!AfterSync(p).tools = {} /\ Rt!AfterSync(p).stage # "up"
             /\ Rt!Down.tools = {} /\ Rt!Down.stage # "up"
  BY DEF Rt!AfterSync, Rt!Down
<1>8. ASSUME NEW p \in Processes, Rt!UpsertFails(p) \/ Rt!EndSync(p) PROVE ToolsFollowDisk'
  <2>1. UNCHANGED <<config, disk, registry>> /\ proc' = [proc EXCEPT ![p] = Rt!AfterSync(p)]
    BY <1>8 DEF Rt!UpsertFails, Rt!EndSync
  <2> QED BY <1>0, <1>2, <1>7, <2>1
<1>9. ASSUME NEW p \in Processes, Rt!OpenFails(p) \/ Rt!Stop(p) \/ Rt!Crash(p) PROVE ToolsFollowDisk'
  <2>1. UNCHANGED <<config, disk, registry>> /\ proc' = [proc EXCEPT ![p] = Rt!Down]
    BY <1>9 DEF Rt!OpenFails, Rt!Stop, Rt!Crash
  <2> QED BY <1>0, <1>2, <1>7, <2>1
<1>10. ASSUME NEW p \in Processes, Rt!Load(p) \/ Rt!LoadFails(p) PROVE ToolsFollowDisk'
  <2>1. UNCHANGED <<config, disk, registry>> /\ \A q \in Processes \ {p} : proc'[q] = proc[q]
    BY <1>0, <1>10 DEF Rt!Load, Rt!LoadFails
  <2>2. proc'[p].tools \subseteq Rt!Registered /\ (proc'[p].clean => proc'[p].tools = Due)
    <3>1. CASE Rt!Load(p)
      <4> DEFINE tools == Rt!Offered(Rt!Lists(Rt!InRegistry))
      <4>1. /\ proc'[p].tools = tools
            /\ proc'[p].clean => Rt!Syncing = {} /\ (config.doctorSync => fresh)
        BY <1>0, <3>1 DEF Rt!Load, Rt!Down
      <4>2. tools \subseteq Rt!Registered
        BY OfferedType
      <4> HIDE DEF tools
      <4>3. Rt!Syncing = {} /\ (config.doctorSync => fresh) => tools = Due
        BY <1>0, LoadGivesDue DEF tools
      <4> QED BY <4>1, <4>2, <4>3
    <3>2. CASE Rt!LoadFails(p)
      <4>1. proc'[p].tools = Rt!Offered(Rt!Lists({})) /\ ~proc'[p].clean
        BY <1>0, <3>2 DEF Rt!LoadFails, Rt!Down
      <4> QED BY <4>1, OfferedType
    <3> QED BY <1>10, <3>1, <3>2
  <2> QED BY <1>0, <1>1, <2>1, <2>2 DEF ToolsFollowDisk
<1>11. CASE Rt!User
  <2>1. ~Settled' /\ \A q \in Processes : proc'[q].tools = proc[q].tools
    BY <1>0, <1>11, EditStep
  <2>2. Rt!Registered' = Rt!Registered
    BY <1>11 DEF Rt!User, Rt!Edit, Rt!Registered
  <2> QED BY <1>0, <2>1, <2>2 DEF ToolsFollowDisk, Settled
<1> QED BY <1>3, <1>4, <1>5, <1>6, <1>8, <1>9, <1>10, <1>11
        DEF Rt!Next, Rt!Begin, Rt!Step, Rt!Fault

(***************************************************************************)
(* A process that came up on an undisturbed registry has just the tools    *)
(* that the skills give it, until the next edit.                           *)
(***************************************************************************)
THEOREM ToolsFollow == Spec => []ToolsFollowDisk
<1>1. Init => ToolsInv
  <2>1. Init => \A p \in Processes : proc[p].tools = {} /\ proc[p].stage = "down"
    <3>1. Rt!Down.tools = {} /\ Rt!Down.stage = "down"
      BY DEF Rt!Down
    <3> QED BY <3>1 DEF Init, Rt!Init
  <2> QED BY <2>1, SyncInit DEF Init, ToolsInv, ToolsFollowDisk
<1>2. ToolsInv /\ [Next]_vars => ToolsInv'
  BY PartSteps, ToolsStep
<1>3. ToolsInv => ToolsFollowDisk
  BY DEF ToolsInv
<1> QED BY <1>1, <1>2, <1>3, PTL DEF Spec
=============================================================================
