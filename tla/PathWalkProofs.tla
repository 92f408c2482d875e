--------------------------- MODULE PathWalkProofs ---------------------------
(***************************************************************************)
(* Proofs about PathWalk, for every file system and every way it may       *)
(* change, every set of roots and requests, and whatever the bounds.       *)
(*                                                                         *)
(* The walk is confined whatever path resolution (EvalSymlinks, Confined)  *)
(* says and whatever a link's text is made into: the first part does not   *)
(* look at them.  The second part shows that while nothing changes the     *)
(* walk finds what path resolution finds, and looks into both.             *)
(***************************************************************************)
EXTENDS PathWalk, WellFoundedInduction, TLAPS

\* Where a request has a directory or a file in hand.
Holding == {"lstat", "open", "again", "readlink", "walked", "describe", "sniff",
            "close"}

\* What is in hand or was opened is beneath a root, and only files were read.
Beneath ==
    /\ dir \in Inside \union {Absent}
    /\ NeverEscapes

\* Which descriptor is held where, and for which request.
InHand ==
    /\ DescriptorsBalance
    /\ pc \in Holding => dir # Absent
    /\ pc \in {"confine", "go", "root"} => dir = Absent
    /\ pc = "describe" => op = "list"
    /\ leaf = "self" => op = "stat"
    /\ pc \in {"sniff", "close"} => op = "stat"

\* A link is read only on a turn that may be followed by another.
TurnsLeft == pc \in Holding => hops <= MaxHops

WalkInv == TypeOK /\ Beneath /\ InHand /\ TurnsLeft

-----------------------------------------------------------------------------
(* What the walk meets.                                                    *)

\* A directory beneath a root holds what is beneath it, or links.
LEMMA LookInside ==
    ASSUME IsTree(tree), NEW d \in Inside \union {Absent}, NEW n
    PROVE  Look(d, n) \in Inside \union Links \union {Absent}
BY TreeAssumption DEF IsTree, Look, Dirs

\* Every turn starts from the directory of a configured root.
LEMMA LocatesRoot ==
    ASSUME NEW p, NEW at \in locate(p)
    PROVE  at.root.dir \in Dirs \intersect Inside
<1>1. ASSUME NEW q, NEW m \in matchRoot(q) PROVE m.root \in Roots
  <2>1. PICK n \in Roots \X Spellings(q) :
               m = [root |-> n[1], rest |-> SubSeq(q, Len(n[2]) + 1, Len(q))]
    BY <1>1 DEF matchRoot
  <2> QED BY <2>1
<1>2. at.root \in Roots
  BY <1>1 DEF locate
<1> QED BY <1>2, RootsAssumption

\* The steps a turn can go on with.
LEMMA StepForTypes ==
    ASSUME NEW elems
    PROVE  StepFor(elems) \in {"walked", "lstat", "open"}
BY DEF StepFor

\* What another program does leaves a tree.
LEMMA ChangeIsTree ==
    ASSUME IsTree(tree), NEW d \in Dirs, NEW n \in Names, NEW o \in MayName[d][n],
           Change(d, n, o)
    PROVE  IsTree(tree')
<1>1. o \in Objects \union {Absent}
  BY TreeAssumption
<1>2. tree \in [Dirs -> [Names -> Objects \union {Absent}]]
  BY DEF IsTree
<1>3. tree' = [tree EXCEPT ![d] = [tree[d] EXCEPT ![n] = o]]
  BY <1>2 DEF Change
<1>4. [tree[d] EXCEPT ![n] = o] \in [Names -> Objects \union {Absent}]
  BY <1>1, <1>2
<1>5. tree' \in [Dirs -> [Names -> Objects \union {Absent}]]
  BY <1>2, <1>3, <1>4
<1>6. ASSUME NEW e \in Dirs, NEW m \in Names PROVE tree'[e][m] \in MayName[e][m]
  BY <1>2, <1>3, <1>6 DEF IsTree
<1> QED BY <1>5, <1>6 DEF IsTree

-----------------------------------------------------------------------------
(* The end of a request.                                                   *)

\* What is open is closed.
LEMMA EndsKeeps ==
    ASSUME WalkInv, pc # "done",
           NEW e \in {"not_found", "bad_request", "forbidden", "cancelled", "ok"},
           e = "ok" => op # "open",
           Ends(e)
    PROVE  WalkInv'
<1>1. TypeOK'
  BY TreeAssumption DEF WalkInv, TypeOK, Ends, kept, IsTree, request
<1>2. Beneath'
  BY DEF WalkInv, Beneath, NeverEscapes, Ends
<1>3. InHand'
  BY DEF WalkInv, InHand, DescriptorsBalance, Ends, request, Holding
<1>4. TurnsLeft'
  BY DEF TurnsLeft, Ends, Holding
<1> QED BY <1>1, <1>2, <1>3, <1>4 DEF WalkInv

-----------------------------------------------------------------------------
(* The first steps: nothing is open yet.                                   *)

LEMMA ConfineKeeps ==
    ASSUME WalkInv, Confine
    PROVE  WalkInv'
<1>1. CASE Ends("forbidden")
  BY <1>1, EndsKeeps DEF Confine
<1>2. CASE pc' = "go" /\ UNCHANGED <<tree, changed, request, walking, kept,
                                     record, answer>>
  <2>1. TypeOK'
    BY <1>2 DEF WalkInv, TypeOK, IsTree, request, walking, kept, record
  <2>2. Beneath'
    BY <1>2 DEF WalkInv, Beneath, NeverEscapes, walking, record
  <2>3. InHand'
    BY <1>2 DEF WalkInv, InHand, DescriptorsBalance, Confine, Holding, request,
                walking, record
  <2>4. TurnsLeft'
    BY <1>2 DEF TurnsLeft, Holding
  <2> QED BY <2>1, <2>2, <2>3, <2>4 DEF WalkInv
<1> QED BY <1>1, <1>2 DEF Confine

LEMMA StartKeeps ==
    ASSUME WalkInv, Start
    PROVE  WalkInv'
<1>1. /\ pc = "go" /\ pc' = "root" /\ leaf' \in {"any", "dir", "self"}
      /\ leaf' = "self" => op = "stat"
      /\ UNCHANGED <<tree, changed, request, hops, dir, phys, todo, tries,
                     fault, kept, record, answer>>
  BY DEF Start
<1>2. TypeOK'
  BY <1>1 DEF WalkInv, TypeOK, IsTree, request, kept, record
<1>3. Beneath'
  BY <1>1 DEF WalkInv, Beneath, NeverEscapes, record
<1>4. InHand'
  BY <1>1 DEF WalkInv, InHand, DescriptorsBalance, Holding, request, record
<1>5. TurnsLeft'
  BY <1>1 DEF TurnsLeft, Holding
<1> QED BY <1>2, <1>3, <1>4, <1>5 DEF WalkInv

-----------------------------------------------------------------------------
(* The turns of the walk.                                                  *)

LEMMA OpenRootKeeps ==
    ASSUME WalkInv, OpenRoot
    PROVE  WalkInv'
<1>1. CASE \E e \in {"bad_request", "forbidden"} : Ends(e)
  BY <1>1, EndsKeeps DEF OpenRoot
<1>2. ASSUME ~TooDeep, NEW at \in locate(goal),
             dir' = at.root.dir, tries' = 0, fault' = "none", fds' = fds + 1,
             opened' = opened \union {at.root.dir}, pc' = StepFor(at.rest),
             UNCHANGED <<tree, changed, request, goal, leaf, hops, kept, bytes,
                         answer>>
      PROVE  WalkInv'
  <2>1. at.root.dir \in Dirs \intersect Inside
    BY LocatesRoot
  <2>2. pc' \in {"walked", "lstat", "open"}
    BY <1>2, StepForTypes
  <2>3. at.root.dir \in Objects /\ at.root.dir # Absent
    BY <2>1, TreeAssumption DEF Dirs
  <2>4. TypeOK'
    BY <1>2, <2>2, <2>3, BoundsAssumption
    DEF WalkInv, TypeOK, IsTree, request, kept
  <2>5. Beneath'
    BY <1>2, <2>1 DEF WalkInv, Beneath, NeverEscapes
  <2>6. InHand'
    BY <1>2, <2>2, <2>3
    DEF WalkInv, InHand, DescriptorsBalance, OpenRoot, Holding, request
  <2>7. TurnsLeft'
    BY <1>2, BoundsAssumption DEF WalkInv, TypeOK, TurnsLeft, TooDeep
  <2> QED BY <2>4, <2>5, <2>6, <2>7 DEF WalkInv
<1> QED BY <1>1, <1>2 DEF OpenRoot

\* A step that leaves what is in hand as it is, on the same turn.
LEMMA GoesOnKeeps ==
    ASSUME WalkInv, pc \in {"lstat", "open", "again"},
           NEW step \in {"lstat", "open", "again", "readlink", "walked"},
           WalkGoes(step),
           tries' \in 0..MaxAttempts - 1,
           fault' \in {"none", "not_found", "loop", "not_dir"}
    PROVE  WalkInv'
<1>1. TypeOK'
  BY DEF WalkInv, TypeOK, IsTree, WalkGoes, request, kept, record
<1>2. Beneath'
  BY DEF WalkInv, Beneath, NeverEscapes, WalkGoes, record
<1>3. InHand'
  BY DEF WalkInv, InHand, DescriptorsBalance, WalkGoes, Holding, request, record
<1>4. TurnsLeft'
  BY DEF WalkInv, TurnsLeft, WalkGoes, Holding
<1> QED BY <1>1, <1>2, <1>3, <1>4 DEF WalkInv

LEMMA LookAtLeafKeeps ==
    ASSUME WalkInv, LookAtLeaf
    PROVE  WalkInv'
<1>1. pc = "lstat" /\ TypeOK
  BY DEF LookAtLeaf, WalkInv
<1>2. CASE \E e \in {"not_found", "bad_request"} : Ends(e)
  BY <1>1, <1>2, EndsKeeps
<1>3. CASE \E step \in {"readlink", "open"} :
             WalkGoes(step) /\ UNCHANGED <<tries, fault>>
  BY <1>1, <1>3, GoesOnKeeps DEF TypeOK
<1> QED BY <1>2, <1>3 DEF LookAtLeaf

LEMMA OpenElementKeeps ==
    ASSUME WalkInv, OpenElement
    PROVE  WalkInv'
<1>1. pc = "open" /\ TypeOK
  BY DEF OpenElement, WalkInv
<1>2. CASE Openable(Here)
  <2>1. /\ dir' = Here /\ opened' = opened \union {Here}
        /\ tries' = 0 /\ fault' = "none" /\ pc' = StepFor(Tail(todo))
        /\ UNCHANGED <<tree, changed, request, goal, leaf, hops, kept, fds,
                       bytes, answer>>
    BY <1>2 DEF OpenElement
  <2>2. Here \in Inside \union Links \union {Absent}
    BY <1>1, LookInside DEF WalkInv, Beneath, Here, TypeOK
  <2>3. Here \in Inside /\ Here \in Objects /\ Here # Absent
    BY <1>2, <2>2, TreeAssumption DEF Openable, Links
  <2>4. pc' \in {"walked", "lstat", "open"}
    BY <2>1, StepForTypes
  <2>5. TypeOK'
    BY <2>1, <2>3, <2>4, BoundsAssumption
    DEF WalkInv, TypeOK, IsTree, request, kept
  <2>6. Beneath'
    BY <2>1, <2>3 DEF WalkInv, Beneath, NeverEscapes
  <2>7. InHand'
    BY <1>1, <2>1, <2>3, <2>4
    DEF WalkInv, InHand, DescriptorsBalance, Holding, request
  <2>8. TurnsLeft'
    BY <1>1, <2>1 DEF WalkInv, TurnsLeft, Holding
  <2> QED BY <2>5, <2>6, <2>7, <2>8 DEF WalkInv
<1>3. CASE ~Openable(Here)
  <2>1. /\ WalkGoes("again") /\ tries' = tries
        /\ fault' \in {"not_found", "loop", "not_dir"}
    BY <1>3 DEF OpenElement
  <2> QED BY <1>1, <2>1, GoesOnKeeps DEF TypeOK
<1> QED BY <1>2, <1>3

LEMMA LookAgainKeeps ==
    ASSUME WalkInv, LookAgain
    PROVE  WalkInv'
<1>1. pc = "again" /\ TypeOK
  BY DEF LookAgain, WalkInv
<1>2. CASE \E e \in {"not_found", "forbidden", "bad_request"} : Ends(e)
  BY <1>1, <1>2, EndsKeeps
<1>3. CASE WalkGoes("readlink") /\ UNCHANGED <<tries, fault>>
  BY <1>1, <1>3, GoesOnKeeps DEF TypeOK
<1>4. CASE /\ Counted < MaxAttempts
           /\ WalkGoes(StepFor(todo)) /\ tries' = Counted /\ fault' = "none"
  <2>1. tries' \in 0..MaxAttempts - 1
    BY <1>1, <1>4, BoundsAssumption DEF TypeOK, Counted
  <2>2. StepFor(todo) \in {"walked", "lstat", "open"}
    BY StepForTypes
  <2> QED BY <1>1, <1>4, <2>1, <2>2, GoesOnKeeps
<1> QED BY <1>2, <1>3, <1>4 DEF LookAgain

LEMMA ReadLinkKeeps ==
    ASSUME WalkInv, ReadLink
    PROVE  WalkInv'
<1>1. CASE Ends("forbidden")
  BY <1>1, EndsKeeps DEF ReadLink
<1>2. CASE Here \in Links
  <2>1. /\ pc = "readlink" /\ pc' = "root"
        /\ hops' = hops + 1 /\ dir' = Absent /\ fds' = fds - 1
        /\ UNCHANGED <<tree, changed, request, leaf, phys, todo, tries, fault,
                       kept, opened, bytes, answer>>
    BY <1>2 DEF ReadLink
  <2>2. hops \in 0..MaxHops + 1 /\ hops <= MaxHops /\ dir # Absent /\ fds = 1
    BY <2>1 DEF WalkInv, TypeOK, TurnsLeft, InHand, DescriptorsBalance, Holding
  <2>3. hops' \in 0..MaxHops + 1
    BY <2>1, <2>2, BoundsAssumption
  <2>4. TypeOK'
    BY <2>1, <2>3 DEF WalkInv, TypeOK, IsTree, request, kept
  <2>5. Beneath'
    BY <2>1 DEF WalkInv, Beneath, NeverEscapes
  <2>6. InHand'
    BY <2>1, <2>2 DEF WalkInv, InHand, DescriptorsBalance, Holding, request
  <2>7. TurnsLeft'
    BY <2>1 DEF TurnsLeft, Holding
  <2> QED BY <2>4, <2>5, <2>6, <2>7 DEF WalkInv
<1> QED BY <1>1, <1>2 DEF ReadLink

-----------------------------------------------------------------------------
(* What is done with the descriptor.                                       *)

LEMMA VerifyKeeps ==
    ASSUME WalkInv, Verify
    PROVE  WalkInv'
<1>1. pc = "walked" /\ op = "open"
  BY DEF Verify
<1>2. CASE Ends("bad_request")
  BY <1>1, <1>2, EndsKeeps
<1>3. CASE Kind[dir] = "file"
  <2>1. /\ pc' = "done" /\ answer' = "ok" /\ bytes' = bytes \union {dir}
        /\ UNCHANGED <<tree, changed, request, walking, kept, fds, opened>>
    BY <1>3 DEF Verify
  <2>2. dir # Absent /\ dir \in Inside
    BY <1>1 DEF WalkInv, InHand, Holding, Beneath
  <2>3. TypeOK'
    BY <2>1 DEF WalkInv, TypeOK, IsTree, request, walking, kept
  <2>4. Beneath'
    BY <1>3, <2>1, <2>2 DEF WalkInv, Beneath, NeverEscapes, walking
  <2>5. InHand'
    BY <1>1, <2>1, <2>2
    DEF WalkInv, InHand, DescriptorsBalance, Holding, request, walking
  <2>6. TurnsLeft'
    BY <2>1 DEF TurnsLeft, Holding
  <2> QED BY <2>3, <2>4, <2>5, <2>6 DEF WalkInv
<1> QED BY <1>2, <1>3 DEF Verify

\* A step that only notes what it sees, with the directory in hand.
LEMMA NotesKeeps ==
    ASSUME WalkInv, pc \in {"walked", "describe"},
           pc' \in {"describe", "sniff", "close"},
           pc' = "describe" => op = "list",
           pc' \in {"sniff", "close"} => op = "stat",
           names' \subseteq Names,
           UNCHANGED <<tree, changed, request, walking, record, answer>>
    PROVE  WalkInv'
<1>1. TypeOK'
  BY DEF WalkInv, TypeOK, IsTree, request, walking, record
<1>2. Beneath'
  BY DEF WalkInv, Beneath, NeverEscapes, walking, record
<1>3. InHand'
  BY DEF WalkInv, InHand, DescriptorsBalance, Holding, request, walking, record
<1>4. TurnsLeft'
  BY DEF WalkInv, TurnsLeft, Holding, walking
<1> QED BY <1>1, <1>2, <1>3, <1>4 DEF WalkInv

LEMMA ReadNamesKeeps ==
    ASSUME WalkInv, ReadNames
    PROVE  WalkInv'
BY NotesKeeps DEF ReadNames

LEMMA DescribeKeeps ==
    ASSUME WalkInv, Describe
    PROVE  WalkInv'
<1>1. pc = "describe" /\ op = "list" /\ names \subseteq Names
  BY DEF Describe, WalkInv, InHand, TypeOK
<1>2. CASE Ends("ok")
  BY <1>1, <1>2, EndsKeeps
<1>3. CASE /\ names' \subseteq names /\ pc' = pc
           /\ UNCHANGED <<tree, changed, request, walking, record, answer>>
  BY <1>1, <1>3, NotesKeeps
<1> QED BY <1>2, <1>3 DEF Describe

LEMMA DescribeSelfKeeps ==
    ASSUME WalkInv, DescribeSelf
    PROVE  WalkInv'
BY NotesKeeps DEF DescribeSelf, WalkInv, InHand, TypeOK

LEMMA DescribeLeafKeeps ==
    ASSUME WalkInv, DescribeLeaf
    PROVE  WalkInv'
<1>1. CASE Ends("not_found")
  BY <1>1, EndsKeeps DEF DescribeLeaf
<1>2. CASE /\ pc' \in {"sniff", "close"}
           /\ UNCHANGED <<tree, changed, request, walking, names, record, answer>>
  BY <1>2, NotesKeeps DEF DescribeLeaf, WalkInv, TypeOK
<1> QED BY <1>1, <1>2 DEF DescribeLeaf

\* What is opened once more is in the directory in hand, and no link.
LEMMA SniffKeeps ==
    ASSUME WalkInv, Sniff
    PROVE  WalkInv'
<1> DEFINE o == Look(dir, Last(path))
<1>1. /\ pc = "sniff" /\ pc' = "close"
      /\ UNCHANGED <<tree, changed, request, walking, kept, fds, answer>>
  BY DEF Sniff
<1>2. o \in Inside \union Links \union {Absent}
  BY LookInside DEF WalkInv, Beneath, TypeOK
<1>3. /\ opened' \subseteq opened \union (Inside \intersect {o})
      /\ bytes' \subseteq bytes \union {x \in Inside \intersect {o} : Kind[x] = "file"}
  <2>1. CASE o \in Objects \ Links
    <3>1. o \in Inside
      BY <1>2, <2>1, TreeAssumption
    <3> QED BY <2>1, <3>1 DEF Sniff
  <2>2. CASE o \notin Objects \ Links
    BY <2>2 DEF Sniff
  <2> QED BY <2>1, <2>2
<1>4. TypeOK'
  BY <1>1 DEF WalkInv, TypeOK, IsTree, request, walking, kept
<1>5. Beneath'
  BY <1>1, <1>3 DEF WalkInv, Beneath, NeverEscapes, walking
<1>6. InHand'
  BY <1>1 DEF WalkInv, InHand, DescriptorsBalance, Holding, request, walking
<1>7. TurnsLeft'
  BY <1>1 DEF WalkInv, TurnsLeft, Holding, walking
<1> QED BY <1>4, <1>5, <1>6, <1>7 DEF WalkInv

LEMMA CloseKeeps ==
    ASSUME WalkInv, Close
    PROVE  WalkInv'
<1>1. pc = "close" /\ op = "stat"
  BY DEF Close, WalkInv, InHand
<1> QED BY <1>1, EndsKeeps DEF Close

LEMMA CancelledKeeps ==
    ASSUME WalkInv, Cancelled
    PROVE  WalkInv'
BY EndsKeeps DEF Cancelled

LEMMA ChangeKeeps ==
    ASSUME WalkInv, NEW d \in Dirs, NEW n \in Names, NEW o \in MayName[d][n],
           Change(d, n, o)
    PROVE  WalkInv'
<1>1. IsTree(tree')
  BY ChangeIsTree DEF WalkInv, TypeOK
<1>2. /\ changed' = TRUE
      /\ UNCHANGED <<request, pc, walking, kept, record, answer>>
  BY DEF Change
<1>3. TypeOK'
  BY <1>1, <1>2 DEF WalkInv, TypeOK, request, walking, kept, record
<1>4. Beneath'
  BY <1>2 DEF WalkInv, Beneath, NeverEscapes, walking, record
<1>5. InHand'
  BY <1>2 DEF WalkInv, InHand, DescriptorsBalance, Holding, request, walking,
              record
<1>6. TurnsLeft'
  BY <1>2 DEF WalkInv, TurnsLeft, Holding, walking
<1> QED BY <1>3, <1>4, <1>5, <1>6 DEF WalkInv

-----------------------------------------------------------------------------
(* The theorems.                                                           *)

\* Every request keeps the invariant, whatever others do to the tree.
THEOREM WalkInvariant == Spec => []WalkInv
<1>1. Init => WalkInv
  <2> SUFFICES ASSUME Init PROVE WalkInv
    OBVIOUS
  <2>1. TypeOK
    <3>1. IsTree(tree)
      BY TreeAssumption DEF Init
    <3>2. hops \in 0..MaxHops + 1 /\ tries \in 0..MaxAttempts - 1
      BY BoundsAssumption DEF Init
    <3> QED BY <3>1, <3>2 DEF Init, TypeOK
  <2>2. Beneath
    BY DEF Init, Beneath, NeverEscapes
  <2>3. InHand
    BY DEF Init, InHand, DescriptorsBalance, Holding
  <2>4. TurnsLeft
    BY DEF Init, TurnsLeft, Holding
  <2> QED BY <2>1, <2>2, <2>3, <2>4 DEF WalkInv
<1>2. WalkInv /\ [Next]_vars => WalkInv'
  <2> SUFFICES ASSUME WalkInv, [Next]_vars PROVE WalkInv'
    OBVIOUS
  <2>1. CASE Step
    BY <2>1, ConfineKeeps, StartKeeps, OpenRootKeeps, LookAtLeafKeeps,
       OpenElementKeeps, LookAgainKeeps, ReadLinkKeeps, VerifyKeeps,
       ReadNamesKeeps, DescribeKeeps, DescribeSelfKeeps, DescribeLeafKeeps,
       SniffKeeps, CloseKeeps DEF Step
  <2>2. CASE Cancelled
    BY <2>2, CancelledKeeps
  <2>3. CASE \E d \in Dirs : \E n \in Names : \E o \in MayName[d][n] :
               Change(d, n, o)
    BY <2>3, ChangeKeeps
  <2>4. CASE UNCHANGED vars
    BY <2>4 DEF vars, WalkInv, TypeOK, IsTree, Beneath, NeverEscapes, InHand,
                DescriptorsBalance, TurnsLeft, Holding, request, walking, kept,
                record
  <2> QED BY <2>1, <2>2, <2>3, <2>4 DEF Next, Answered
<1> QED BY <1>1, <1>2, PTL DEF Spec

\* The variables of a request keep their types.
THEOREM TypeCorrect == Spec => []TypeOK
<1>1. WalkInv => TypeOK
  BY DEF WalkInv
<1> QED BY <1>1, WalkInvariant, PTL

\* No rename or link, made at any moment of a request, has it open or read what
\* is not beneath a browse root.
THEOREM Confinement == Spec => []NeverEscapes
<1>1. WalkInv => NeverEscapes
  BY DEF WalkInv, Beneath
<1> QED BY <1>1, WalkInvariant, PTL

\* No path through the walk, no error and no cancellation leaks a descriptor.
THEOREM NoDescriptorLeaks == Spec => []DescriptorsBalance
<1>1. WalkInv => DescriptorsBalance
  BY DEF WalkInv, InHand
<1> QED BY <1>1, WalkInvariant, PTL

-----------------------------------------------------------------------------
(* While nothing changes.                                                  *)

\* Nothing is described yet.
Walking == {"confine", "go", "root", "lstat", "open", "again", "readlink", "walked"}

\* What is listed of the directory in hand.
Listing(these) == {<<n, KindOf(Look(dir, n))>> : n \in these}
Present        == {n \in Names : Look(dir, n) # Absent}

\* A device or a pipe is not opened, not even to look at it: the leaf was looked
\* at before its open, the entry before it is sniffed.  A listing describes
\* what the directory holds.
QuietInv ==
    ~changed =>
      /\ \A o \in opened : Kind[o] # "other"
      /\ pc = "open" /\ Leafy(todo) => Here \notin Objects \/ Kind[Here] # "other"
      /\ pc = "sniff" => Kind[Look(dir, Last(path))] = "file"
      /\ pc \in Walking => found = {}
      /\ pc = "describe" => names \subseteq Present /\ found = Listing(Present \ names)

\* Where a turn goes on, a leaf is looked at first.
LEMMA StepForLooks ==
    ASSUME NEW elems, StepFor(elems) = "open"
    PROVE  ~Leafy(elems)
BY DEF StepFor

\* The end of a request opens nothing.
LEMMA EndsQuiet ==
    ASSUME QuietInv, NEW e, Ends(e)
    PROVE  QuietInv'
BY DEF QuietInv, Ends, Walking, Here, Look

\* So does a step that goes elsewhere with what it has found so far.
LEMMA GoesQuiet ==
    ASSUME QuietInv, UNCHANGED <<changed, opened, found>>,
           pc' \notin {"open", "sniff", "describe"},
           pc' \in Walking => pc \in Walking
    PROVE  QuietInv'
BY DEF QuietInv

LEMMA FirstStepsQuiet ==
    ASSUME QuietInv, Confine \/ Start
    PROVE  QuietInv'
<1>1. CASE Ends("forbidden")
  BY <1>1, EndsQuiet
<1>2. CASE ~Ends("forbidden")
  <2>1. /\ pc \in {"confine", "go"} /\ pc' \in {"go", "root"}
        /\ UNCHANGED <<changed, opened, found>>
    BY <1>2 DEF Confine, Start, record, kept
  <2> QED BY <2>1, GoesQuiet DEF Walking
<1> QED BY <1>1, <1>2

LEMMA OpenRootQuiet ==
    ASSUME QuietInv, OpenRoot
    PROVE  QuietInv'
<1>1. CASE \E e : Ends(e)
  BY <1>1, EndsQuiet
<1>2. ASSUME NEW at \in locate(goal), todo' = at.rest, pc' = StepFor(at.rest),
             opened' = opened \union {at.root.dir},
             UNCHANGED <<changed, leaf, kept>>
      PROVE  QuietInv'
  <2>1. Kind[at.root.dir] # "other"
    BY LocatesRoot DEF Dirs
  <2>2. pc' \in {"walked", "lstat", "open"} /\ (pc' = "open" => ~Leafy(todo)')
    BY <1>2, StepForTypes, StepForLooks DEF Leafy
  <2>3. pc = "root"
    BY DEF OpenRoot
  <2> QED BY <1>2, <2>1, <2>2, <2>3 DEF QuietInv, Walking, kept
<1> QED BY <1>1, <1>2 DEF OpenRoot

LEMMA LookAtLeafQuiet ==
    ASSUME QuietInv, LookAtLeaf
    PROVE  QuietInv'
<1>0. pc = "lstat"
  BY DEF LookAtLeaf
<1>1. CASE \E e : Ends(e)
  BY <1>1, EndsQuiet
<1>2. CASE WalkGoes("readlink")
  BY <1>0, <1>2, GoesQuiet DEF WalkGoes, record, kept, Walking
<1>3. CASE WalkGoes("open") /\ Here \in Objects /\ Kind[Here] \in {"dir", "file"}
  <2>1. Here' = Here
    BY <1>3 DEF WalkGoes, Here, Look
  <2> QED BY <1>0, <1>3, <2>1 DEF QuietInv, WalkGoes, record, kept, Walking
<1> QED BY <1>1, <1>2, <1>3 DEF LookAtLeaf

LEMMA OpenElementQuiet ==
    ASSUME QuietInv, OpenElement
    PROVE  QuietInv'
<1>0. pc = "open"
  BY DEF OpenElement
<1>1. CASE ~Openable(Here)
  <2>1. WalkGoes("again")
    BY <1>1 DEF OpenElement
  <2> QED BY <1>0, <2>1, GoesQuiet DEF WalkGoes, record, kept, Walking
<1>2. CASE Openable(Here)
  <2>1. /\ opened' = opened \union {Here} /\ todo' = Tail(todo)
        /\ pc' = StepFor(Tail(todo)) /\ UNCHANGED <<changed, leaf, kept>>
    BY <1>2 DEF OpenElement
  <2>2. pc' \in {"walked", "lstat", "open"} /\ (pc' = "open" => ~Leafy(todo)')
    BY <2>1, StepForTypes, StepForLooks DEF Leafy
  <2>3. ~changed => Kind[Here] # "other"
    BY <1>0, <1>2 DEF Openable, QuietInv
  <2> QED BY <1>0, <2>1, <2>2, <2>3 DEF QuietInv, Walking, kept
<1> QED BY <1>1, <1>2

LEMMA LookAgainQuiet ==
    ASSUME QuietInv, LookAgain
    PROVE  QuietInv'
<1>0. pc = "again"
  BY DEF LookAgain
<1>1. CASE \E e : Ends(e)
  BY <1>1, EndsQuiet
<1>2. CASE WalkGoes("readlink")
  BY <1>0, <1>2, GoesQuiet DEF WalkGoes, record, kept, Walking
<1>3. CASE WalkGoes(StepFor(todo))
  <2>1. /\ pc' = StepFor(todo)
        /\ UNCHANGED <<changed, leaf, todo, opened, found>>
    BY <1>3 DEF WalkGoes, record, kept
  <2>2. pc' \in {"walked", "lstat", "open"} /\ (pc' = "open" => ~Leafy(todo)')
    BY <2>1, StepForTypes, StepForLooks DEF Leafy
  <2> QED BY <1>0, <2>1, <2>2 DEF QuietInv, Walking
<1> QED BY <1>1, <1>2, <1>3 DEF LookAgain

LEMMA ReadLinkQuiet ==
    ASSUME QuietInv, ReadLink
    PROVE  QuietInv'
<1>1. CASE \E e : Ends(e)
  BY <1>1, EndsQuiet
<1>2. CASE Here \in Links
  BY <1>2, GoesQuiet DEF ReadLink, kept, Walking
<1> QED BY <1>1, <1>2 DEF ReadLink

\* A listing grows by what is there.
LEMMA ListedOneMore ==
    ASSUME NEW these, NEW n
    PROVE  Listing(these \union {n}) =
             Listing(these) \union {<<n, KindOf(Look(dir, n))>>}
<1> DEFINE Line(m) == <<m, KindOf(Look(dir, m))>>
<1>1. \A s : Listing(s) = {Line(m) : m \in s}
  BY DEF Listing
<1> HIDE DEF Line
<1>2. {Line(m) : m \in these \union {n}} = {Line(m) : m \in these} \union {Line(n)}
  OBVIOUS
<1> QED BY <1>1, <1>2 DEF Line

LEMMA DescribeQuiet ==
    ASSUME QuietInv, ReadNames \/ Describe
    PROVE  QuietInv'
<1>1. CASE \E e : Ends(e)
  BY <1>1, EndsQuiet
<1>2. CASE ReadNames
  <2>1. /\ pc = "walked" /\ pc' = "describe" /\ names' = Present
        /\ UNCHANGED <<changed, tree, dir, opened, found>>
    BY <1>2 DEF ReadNames, Present, walking, record
  <2>2. /\ Present' = Present
        /\ \A these : Listing(these)' = Listing(these)
    BY <2>1 DEF Present, Listing, Look
  <2>3. Listing(Present \ Present) = {}
    BY DEF Listing
  <2>4. ~changed => found = {}
    BY <2>1 DEF QuietInv, Walking
  <2> QED BY <2>1, <2>2, <2>3, <2>4 DEF QuietInv
<1>3. ASSUME NEW n \in names, pc = "describe", pc' = "describe",
             found' = found \union {<<n, KindOf(Look(dir, n))>>},
             names' = names \ {n},
             UNCHANGED <<changed, tree, dir, opened>>
      PROVE  QuietInv'
  <2>1. /\ Present' = Present
        /\ \A these : Listing(these)' = Listing(these)
    BY <1>3 DEF Present, Listing, Look
  <2> SUFFICES ASSUME ~changed
               PROVE  QuietInv'
    BY <1>3 DEF QuietInv
  <2>2. names \subseteq Present /\ found = Listing(Present \ names)
    BY <1>3 DEF QuietInv
  <2>3. Present \ names' = (Present \ names) \union {n}
    BY <1>3, <2>2
  <2>4. found' = Listing(Present \ names')
    <3> DEFINE rest == Present \ names
               more == Present \ names'
    <3>1. more = rest \union {n} /\ found = Listing(rest)
      BY <2>2, <2>3
    <3> HIDE DEF rest, more
    <3>2. Listing(rest \union {n}) = found'
      BY <1>3, <3>1, ListedOneMore
    <3> QED BY <3>1, <3>2 DEF more
  <2>5. (Listing(Present \ names))' = Listing(Present \ names')
    BY <1>3, <2>1 DEF Listing, Look
  <2>6. (names \subseteq Present)'
    BY <1>3, <2>1, <2>2
  <2> QED BY <1>3, <2>4, <2>5, <2>6 DEF QuietInv, Walking
<1> QED BY <1>1, <1>2, <1>3 DEF Describe, walking, record

LEMMA DescribeOneQuiet ==
    ASSUME QuietInv, DescribeSelf \/ DescribeLeaf
    PROVE  QuietInv'
<1>1. CASE \E e : Ends(e)
  BY <1>1, EndsQuiet
<1>2. CASE ~\E e : Ends(e)
  <2>1. /\ pc' \in {"sniff", "close"}
        /\ UNCHANGED <<changed, opened, tree, dir, path>>
        /\ pc' = "sniff" => Kind[Look(dir, Last(path))] = "file"
    BY <1>2 DEF DescribeSelf, DescribeLeaf, walking, record, request
  <2>2. Look(dir, Last(path))' = Look(dir, Last(path))
    BY <2>1 DEF Look
  <2> QED BY <2>1, <2>2 DEF QuietInv, Walking
<1> QED BY <1>1, <1>2

LEMMA LastStepsQuiet ==
    ASSUME QuietInv, Verify \/ Sniff \/ Close \/ Cancelled
    PROVE  QuietInv'
<1>1. CASE \E e : Ends(e)
  BY <1>1, EndsQuiet
<1>2. CASE Verify /\ ~\E e : Ends(e)
  BY <1>2 DEF Verify, kept, Walking, QuietInv
<1>3. CASE Sniff
  <2>1. /\ pc = "sniff" /\ pc' = "close" /\ changed' = changed
        /\ \A o \in opened' : o \in opened \/ o = Look(dir, Last(path))
    BY <1>3 DEF Sniff
  <2> QED BY <2>1 DEF QuietInv, Walking
<1> QED BY <1>1, <1>2, <1>3 DEF Close, Cancelled

\* The quiet invariant holds in every state.
THEOREM QuietInvariant == Spec => []QuietInv
<1>1. Init => QuietInv
  BY DEF Init, QuietInv, Walking
<1>2. QuietInv /\ [Next]_vars => QuietInv'
  <2> SUFFICES ASSUME QuietInv, [Next]_vars PROVE QuietInv'
    OBVIOUS
  <2>1. CASE Step
    BY <2>1, FirstStepsQuiet, OpenRootQuiet, LookAtLeafQuiet, OpenElementQuiet,
       LookAgainQuiet, ReadLinkQuiet, DescribeQuiet, DescribeOneQuiet,
       LastStepsQuiet DEF Step
  <2>2. CASE Cancelled
    BY <2>2, LastStepsQuiet
  <2>3. CASE \E d \in Dirs : \E n \in Names : \E o \in MayName[d][n] :
               Change(d, n, o)
    BY <2>3 DEF Change, QuietInv
  <2>4. CASE UNCHANGED vars
    <3>1. UNCHANGED <<changed, opened, pc, found, names, todo, leaf, tree, dir, path>>
      BY <2>4 DEF vars, request, walking, kept, record
    <3>2. /\ Here' = Here /\ Leafy(todo)' = Leafy(todo) /\ Present' = Present
          /\ Look(dir, Last(path))' = Look(dir, Last(path))
          /\ \A these : Listing(these)' = Listing(these)
      BY <3>1 DEF Here, Leafy, Present, Listing, Look
    <3> QED BY <3>1, <3>2 DEF QuietInv
  <2> QED BY <2>1, <2>2, <2>3, <2>4 DEF Next, Answered
<1> QED BY <1>1, <1>2, PTL DEF Spec

\* Where nobody changes the tree during a request, it opens files and
\* directories only, whatever they are reached through, and while it lists a
\* directory it has described exactly the entries it is done with.
THEOREM QuietOpensPlain ==
    Spec => [](/\ ~changed => \A o \in opened : Kind[o] # "other"
               /\ ~changed /\ pc = "describe" /\ names = {} =>
                    found = Listing(Present))
<1>1. QuietInv =>
        /\ ~changed => \A o \in opened : Kind[o] # "other"
        /\ ~changed /\ pc = "describe" /\ names = {} => found = Listing(Present)
  BY DEF QuietInv
<1> QED BY <1>1, QuietInvariant, PTL

-----------------------------------------------------------------------------
(* Recursive definitions.  Each has the values it defines because some     *)
(* measure of the argument gets smaller.                                   *)

\* Numbers have a least one.
LEMMA LeastNat ==
    ASSUME NEW S \in SUBSET Nat, S # {}
    PROVE  \E n \in S : \A k \in S : n <= k
<1> DEFINE R == OpToRel(<, Nat)
<1>1. IsWellFoundedOn(R, Nat)
  BY NatLessThanWellFounded
<1>2. \A x, y \in Nat : <<x, y>> \in R <=> x < y
  BY DEF OpToRel
<1> HIDE DEF R
<1>3. PICK n \in S : \A k \in S : ~ (<<k, n>> \in R)
  BY <1>1, WFMin
<1>4. ASSUME NEW k \in S PROVE n <= k
  <2>1. n \in Nat /\ k \in Nat /\ ~(k < n)
    BY <1>2, <1>3
  <2> QED BY <2>1
<1> QED BY <1>4

Below(a, b) == a[1] < b[1] \/ (a[1] = b[1] /\ a[2] < b[2])

\* Among any things measured by pairs of numbers there is one that is nowhere undercut.
LEMMA Least ==
    ASSUME NEW D, NEW S \in SUBSET D, S # {}, NEW m \in [D -> Nat \X Nat]
    PROVE  \E x \in S : \A y \in S : ~Below(m[y], m[x])
<1> DEFINE A == {n \in Nat : \E x \in S : m[x][1] = n}
<1>1. PICK a \in A : \A k \in A : a <= k
  <2>1. A # {} /\ A \in SUBSET Nat
    OBVIOUS
  <2> QED BY <2>1, LeastNat
<1> DEFINE B == {n \in Nat : \E x \in S : m[x][1] = a /\ m[x][2] = n}
<1>2. PICK b \in B : \A k \in B : b <= k
  <2>1. B # {} /\ B \in SUBSET Nat
    OBVIOUS
  <2> QED BY <2>1, LeastNat
<1>3. PICK x \in S : m[x][1] = a /\ m[x][2] = b
  OBVIOUS
<1>4. ASSUME NEW y \in S PROVE ~Below(m[y], m[x])
  <2>1. m[y] \in Nat \X Nat
    OBVIOUS
  <2>2. m[y][1] \in A /\ (m[y][1] = a => m[y][2] \in B)
    BY <2>1
  <2> QED BY <1>1, <1>2, <1>3, <2>1, <2>2 DEF Below
<1> QED BY <1>3, <1>4

\* Each value of a recursive definition is that of its base, or made from the value one step back.
Solves(F, D, R, base, back, val, make) ==
    /\ F \in [D -> R]
    /\ \A x \in D : F[x] = IF x \in base THEN val[x] ELSE make[<<x, F[back[x]]>>]

\* A recursive definition whose argument gets smaller has a solution: the
\* least relation that it is closed under is a function.
LEMMA Solvable ==
    ASSUME NEW D, NEW R, NEW m \in [D -> Nat \X Nat], NEW base \in SUBSET D,
           NEW back \in [D -> D], NEW val \in [D -> R], NEW make \in [D \X R -> R],
           \A x \in D \ base : Below(m[back[x]], m[x])
    PROVE  \E F : Solves(F, D, R, base, back, val, make)
<1> DEFINE Closed(G) ==
             /\ \A x \in base : <<x, val[x]>> \in G
             /\ \A x \in D \ base : \A r \in R :
                  <<back[x], r>> \in G => <<x, make[<<x, r>>]>> \in G
           All == {G \in SUBSET (D \X R) : Closed(G)}
           I == {p \in D \X R : \A G \in All : p \in G}
<1>1. Closed(I)
  <2>1. \A x \in base : <<x, val[x]>> \in I
    OBVIOUS
  <2>2. ASSUME NEW x \in D \ base, NEW r \in R, <<back[x], r>> \in I
        PROVE  <<x, make[<<x, r>>]>> \in I
    <3>1. <<x, make[<<x, r>>]>> \in D \X R
      OBVIOUS
    <3>2. \A G \in All : <<x, make[<<x, r>>]>> \in G
      BY <2>2
    <3> QED BY <3>1, <3>2
  <2> QED BY <2>1, <2>2
<1>2. \A G \in SUBSET (D \X R) : Closed(G) => I \subseteq G
  OBVIOUS
<1> DEFINE Single(x) == \E r \in R : <<x, r>> \in I /\ \A q \in R : <<x, q>> \in I => q = r
<1> HIDE DEF I
<1>3. ASSUME NEW x \in D, x \in base \/ Single(back[x])
      PROVE  Single(x)
  <2>1. PICK r \in R : /\ <<x, r>> \in I
                       /\ x \in base => r = val[x]
                       /\ x \notin base => \A q \in R : <<back[x], q>> \in I => r = make[<<x, q>>]
    <3>1. CASE x \in base
      <4>1. val[x] \in R /\ <<x, val[x]>> \in I
        BY <1>1, <3>1
      <4> QED BY <3>1, <4>1
    <3>2. CASE x \notin base
      <4>1. PICK q \in R : <<back[x], q>> \in I /\ \A o \in R : <<back[x], o>> \in I => o = q
        BY <1>3, <3>2
      <4>2. make[<<x, q>>] \in R /\ <<x, make[<<x, q>>]>> \in I
        BY <1>1, <3>2, <4>1
      <4> QED BY <3>2, <4>1, <4>2
    <3> QED BY <3>1, <3>2
  <2> DEFINE G == {p \in I : p[1] = x => p[2] = r}
  <2>2. G \in SUBSET (D \X R)
    BY DEF I
  <2>3. Closed(G)
    <3>1. \A y \in base : <<y, val[y]>> \in G
      BY <1>1, <2>1
    <3>2. ASSUME NEW y \in D \ base, NEW q \in R, <<back[y], q>> \in G
          PROVE  <<y, make[<<y, q>>]>> \in G
      <4>1. <<back[y], q>> \in I
        BY <3>2
      <4> QED BY <1>1, <2>1, <4>1
    <3> QED BY <3>1, <3>2
  <2>4. I \subseteq G
    BY <1>2, <2>2, <2>3
  <2> QED BY <2>1, <2>4
<1>4. \A x \in D : Single(x)
  <2> DEFINE S == {x \in D : ~Single(x)}
  <2> SUFFICES ASSUME S # {} PROVE FALSE
    OBVIOUS
  <2>1. PICK x \in S : \A y \in S : ~Below(m[y], m[x])
    BY Least
  <2> HIDE DEF Single
  <2>2. x \in base \/ back[x] \notin S
    BY <2>1
  <2> QED BY <1>3, <2>1, <2>2
<1> DEFINE F == [x \in D |-> CHOOSE r \in R : <<x, r>> \in I]
<1>5. ASSUME NEW x \in D PROVE F[x] \in R /\ <<x, F[x]>> \in I /\ \A q \in R : <<x, q>> \in I => q = F[x]
  BY <1>4
<1>6. ASSUME NEW x \in D PROVE F[x] = IF x \in base THEN val[x] ELSE make[<<x, F[back[x]]>>]
  <2> HIDE DEF F
  <2>1. CASE x \in base
    BY <1>1, <1>5, <2>1
  <2>2. CASE x \notin base
    <3>1. F[back[x]] \in R /\ <<back[x], F[back[x]]>> \in I
      BY <1>5
    <3>2. <<x, make[<<x, F[back[x]]>>]>> \in I
      BY <1>1, <2>2, <3>1
    <3>3. make[<<x, F[back[x]]>>] \in R
      BY <3>1
    <3> QED BY <1>5, <2>2, <3>2, <3>3
  <2> QED BY <2>1, <2>2
<1>7. F \in [D -> R]
  BY <1>5
<1> QED BY <1>6, <1>7 DEF Solves

-----------------------------------------------------------------------------
(* Path resolution: stages, and where they lead.                           *)

Things == Objects \union {Absent}

\* A path without its last element.
LEMMA FrontShorter ==
    ASSUME NEW S, NEW p \in Seq(S), p # <<>>
    PROVE  /\ Front(p) \in Seq(S) /\ Last(p) \in S
           /\ Len(Front(p)) = Len(p) - 1 /\ p = Append(Front(p), Last(p))
<1>1. Front(p) = [i \in 1..Len(p) - 1 |-> p[i]] /\ Len(p) \in Nat \ {0}
  BY DEF Front
<1>2. Front(p) \in Seq(S) /\ Len(Front(p)) = Len(p) - 1 /\ Last(p) \in S
  BY <1>1 DEF Last
<1>3. Append(Front(p), Last(p)) = p
  <2>1. Len(Append(Front(p), Last(p))) = Len(p) /\ Append(Front(p), Last(p)) \in Seq(S)
    BY <1>2
  <2>2. \A i \in 1..Len(p) : Append(Front(p), Last(p))[i] = p[i]
    BY <1>1, <1>2 DEF Last
  <2> QED BY <2>1, <2>2
<1> QED BY <1>2, <1>3

\* What a directory is asked for is an object, or nothing.
LEMMA LookType ==
    ASSUME IsTree(tree), NEW d, NEW n PROVE Look(d, n) \in Things
BY DEF IsTree, Look, Things

\* What a spelling stands for, as it is defined.
LEMMA DirAtSolves ==
    ASSUME IsTree(tree)
    PROVE  /\ DirAt \in [Seq(Names) -> Things]
           /\ DirAt[<<>>] = Top
           /\ \A p \in Seq(Names) : p # <<>> => DirAt[p] = Look(DirAt[Front(p)], Last(p))
<1> DEFINE D == Seq(Names)
           m == [p \in D |-> <<0, Len(p)>>]
           back == [p \in D |-> IF p = <<>> THEN p ELSE Front(p)]
           val == [p \in D |-> Top]
           make == [x \in D \X Things |-> Look(x[2], Last(x[1]))]
           Eq(g) == g = [p \in Seq(Names) |-> IF p = <<>> THEN Top ELSE Look(g[Front(p)], Last(p))]
<1>1. PICK F : Solves(F, D, Things, {<<>>}, back, val, make)
  <2>1. m \in [D -> Nat \X Nat] /\ {<<>>} \in SUBSET D
    OBVIOUS
  <2>2. back \in [D -> D]
    BY FrontShorter
  <2>3. val \in [D -> Things]
    BY TextAssumption DEF Dirs, Things
  <2>4. make \in [D \X Things -> Things]
    BY LookType
  <2>5. ASSUME NEW x \in D \ {<<>>} PROVE Below(m[back[x]], m[x])
    <3>1. back[x] = Front(x) /\ Front(x) \in D /\ Len(Front(x)) = Len(x) - 1
      BY FrontShorter
    <3> QED BY <3>1 DEF Below
  <2> HIDE DEF D, m, back, val, make
  <2> QED BY <2>1, <2>2, <2>3, <2>4, <2>5, Solvable
<1>2. Eq(F)
  <2>1. F = [p \in Seq(Names) |-> F[p]]
    BY <1>1 DEF Solves
  <2>2. ASSUME NEW p \in Seq(Names) PROVE F[p] = IF p = <<>> THEN Top ELSE Look(F[Front(p)], Last(p))
    BY <1>1, FrontShorter DEF Solves
  <2> QED BY <2>1, <2>2
<1>3. DirAt = CHOOSE g : Eq(g)
  BY DEF DirAt
<1>4. Eq(DirAt)
  <2> HIDE DEF Eq
  <2> QED BY <1>2, <1>3
<1>5. DirAt \in [Seq(Names) -> Things]
  <2>1. ASSUME NEW p \in Seq(Names) PROVE DirAt[p] \in Things
    BY <1>4, LookType, TextAssumption DEF Dirs, Things
  <2> QED BY <1>4, <2>1
<1>6. \A p \in Seq(Names) : DirAt[p] = IF p = <<>> THEN Top ELSE Look(DirAt[Front(p)], Last(p))
  BY <1>4
<1>7. <<>> \in Seq(Names)
  OBVIOUS
<1> HIDE DEF Eq
<1> QED BY <1>5, <1>6, <1>7

\* The first element of a path that is continued.
LEMMA HeadAndTail ==
    ASSUME NEW S, NEW p \in Seq(S), p # <<>>, NEW q \in Seq(S)
    PROVE  /\ Head(p) \in S /\ Tail(p) \in Seq(S) /\ Len(Tail(p)) = Len(p) - 1
           /\ p \o q # <<>> /\ Head(p \o q) = Head(p) /\ Tail(p \o q) = Tail(p) \o q
           /\ p \o q \in Seq(S) /\ (Tail(p \o q) = <<>> => Tail(p) = <<>> /\ q = <<>>)
<1>1. /\ Head(p) \in S /\ Tail(p) \in Seq(S) /\ Len(Tail(p)) = Len(p) - 1 /\ Len(p) \in Nat \ {0}
      /\ p \o q \in Seq(S) /\ Len(p \o q) = Len(p) + Len(q) /\ Len(q) \in Nat
  OBVIOUS
<1>2. p \o q # <<>> /\ Head(p \o q) = Head(p)
  BY <1>1
<1>3. Tail(p \o q) = Tail(p) \o q
  <2>1. /\ Tail(p \o q) \in Seq(S) /\ Len(Tail(p \o q)) = Len(p) + Len(q) - 1
        /\ Tail(p) \o q \in Seq(S) /\ Len(Tail(p) \o q) = Len(p) + Len(q) - 1
    BY <1>1, <1>2
  <2>2. ASSUME NEW i \in 1..Len(p) + Len(q) - 1
        PROVE  Tail(p \o q)[i] = (Tail(p) \o q)[i]
    <3>1. Tail(p \o q)[i] = (p \o q)[i + 1]
      BY <1>1, <1>2
    <3>2. CASE i <= Len(p) - 1
      BY <1>1, <3>1, <3>2
    <3>3. CASE i > Len(p) - 1
      BY <1>1, <3>1, <3>3
    <3> QED BY <1>1, <3>2, <3>3
  <2> QED BY <2>1, <2>2
<1>4. Tail(p) \o q = <<>> => Tail(p) = <<>> /\ q = <<>>
  BY <1>1
<1> QED BY <1>1, <1>2, <1>3, <1>4

\* An element more.
LEMMA DirAtAppend ==
    ASSUME IsTree(tree), NEW p \in Seq(Names), NEW n \in Names
    PROVE  DirAt[Append(p, n)] = Look(DirAt[p], n)
<1>1. /\ Append(p, n) \in Seq(Names) /\ Append(p, n) # <<>>
      /\ Front(Append(p, n)) = p /\ Last(Append(p, n)) = n
  BY DEF Front, Last
<1> QED BY <1>1, DirAtSolves

Stands(p) == DirAt[p] \in Objects \ Links

\* What is there is in a directory.
LEMMA DirAtParent ==
    ASSUME IsTree(tree), NEW p \in Seq(Names), DirAt[p] # Absent
    PROVE  Parent(p) \in Seq(Names) /\ DirAt[Parent(p)] \in Dirs
<1>1. CASE p = <<>>
  BY <1>1, DirAtSolves, TextAssumption DEF Parent
<1>2. CASE p # <<>>
  <2>1. /\ Parent(p) = Front(p) /\ Front(p) \in Seq(Names)
        /\ DirAt[p] = Look(DirAt[Front(p)], Last(p))
    BY <1>2, FrontShorter, DirAtSolves DEF Parent
  <2> QED BY <2>1 DEF Look
<1> QED BY <1>1, <1>2

Elements == Names \union {".."}
Outcomes == [ok : BOOLEAN, path : Seq(Names), links : Nat]
Rank(s) == <<IF s.links < LibHops THEN LibHops - s.links ELSE 0, Len(s.rest)>>
Over(s) == s.rest = <<>> \/ Stuck(s)

\* A step of path resolution: up, through a link, or down; it leaves fewer links
\* to follow, or fewer elements.
LEMMA OnwardCases ==
    ASSUME IsTree(tree), NEW s \in Stages, ~Over(s)
    PROVE  /\ Onward(s) \in Stages /\ Below(Rank(Onward(s)), Rank(s))
           /\ \/ /\ Head(s.rest) = ".."
                 /\ Onward(s) = Stage(Tail(s.rest), Parent(s.done), s.links)
              \/ /\ Head(s.rest) \in Names /\ Met(s) \in Links /\ s.links < LibHops
                 /\ Onward(s) = Stage(Text[Met(s)].path \o Tail(s.rest),
                                      IF Text[Met(s)].abs THEN <<>> ELSE s.done, s.links + 1)
              \/ /\ Head(s.rest) \in Names /\ Met(s) \in Objects \ Links
                 /\ Kind[Met(s)] = "dir" \/ Tail(s.rest) = <<>>
                 /\ Onward(s) = Stage(Tail(s.rest), Append(s.done, Head(s.rest)), s.links)
<1>1. /\ s.rest \in Seq(Elements) /\ s.rest # <<>> /\ s.done \in Seq(Names) /\ s.links \in Nat
      /\ LibHops \in Nat
  BY BoundsAssumption DEF Stages, Over, Elements
<1>2. /\ Head(s.rest) \in Elements /\ Tail(s.rest) \in Seq(Elements)
      /\ Len(Tail(s.rest)) = Len(s.rest) - 1 /\ Len(s.rest) \in Nat
  BY <1>1
<1>3. Parent(s.done) \in Seq(Names)
  BY <1>1, FrontShorter DEF Parent
<1>4. CASE Head(s.rest) = ".."
  <2>1. Onward(s) = Stage(Tail(s.rest), Parent(s.done), s.links)
    BY <1>4 DEF Onward
  <2>2. Onward(s) \in Stages
    BY <1>1, <1>2, <1>3, <2>1 DEF Stage, Stages, Elements
  <2>3. Below(Rank(Onward(s)), Rank(s))
    BY <1>1, <1>2, <2>1 DEF Stage, Rank, Below
  <2> QED BY <1>4, <2>1, <2>2, <2>3
<1>5. CASE Head(s.rest) # ".." /\ Met(s) \in Links
  <2>1. s.links < LibHops
    BY <1>1, <1>5 DEF Over, Stuck
  <2>2. Text[Met(s)].path \in Seq(Elements)
    BY <1>5, TextAssumption DEF Elements
  <2>3. Onward(s) = Stage(Text[Met(s)].path \o Tail(s.rest),
                          IF Text[Met(s)].abs THEN <<>> ELSE s.done, s.links + 1)
    BY <1>5 DEF Onward
  <2>4. Onward(s) \in Stages
    BY <1>1, <1>2, <2>2, <2>3 DEF Stage, Stages, Elements
  <2>5. Below(Rank(Onward(s)), Rank(s))
    <3>1. Onward(s).links = s.links + 1
      BY <2>3 DEF Stage
    <3>2. Rank(s)[1] = LibHops - s.links
      BY <2>1 DEF Rank
    <3>3. Rank(Onward(s))[1] < LibHops - s.links
      BY <1>1, <2>1, <3>1 DEF Rank
    <3> QED BY <3>2, <3>3 DEF Below
  <2>6. Head(s.rest) \in Names
    BY <1>2, <1>5 DEF Elements
  <2> QED BY <1>5, <2>1, <2>3, <2>4, <2>5, <2>6
<1>6. CASE Head(s.rest) # ".." /\ Met(s) \notin Links
  <2>1. Head(s.rest) \in Names
    BY <1>2, <1>6 DEF Elements
  <2>2. Met(s) \in Objects \ Links /\ (Kind[Met(s)] = "dir" \/ Tail(s.rest) = <<>>)
    <3>1. Met(s) \in Objects \union {Absent}
      BY LookType DEF Met, Things
    <3> QED BY <1>1, <1>6, <3>1 DEF Over, Stuck, Links
  <2>3. Onward(s) = Stage(Tail(s.rest), Append(s.done, Head(s.rest)), s.links)
    BY <1>6 DEF Onward
  <2>4. Onward(s) \in Stages
    BY <1>1, <1>2, <2>1, <2>3 DEF Stage, Stages, Elements
  <2>5. Below(Rank(Onward(s)), Rank(s))
    BY <1>1, <1>2, <2>3 DEF Stage, Rank, Below
  <2> QED BY <2>1, <2>2, <2>3, <2>4, <2>5
<1> QED BY <1>4, <1>5, <1>6

\* Induction over path resolution: what fails somewhere, fails first somewhere.
LEMMA LeastStage ==
    ASSUME IsTree(tree), NEW S \in SUBSET Stages, S # {}
    PROVE  \E s \in S : ~Over(s) => Onward(s) \in Stages \ S
<1> DEFINE m == [x \in Stages |-> Rank(x)]
<1>1. m \in [Stages -> Nat \X Nat]
  BY BoundsAssumption DEF Rank, Stages
<1>2. PICK s \in S : \A y \in S : ~Below(m[y], m[s])
  <2> HIDE DEF m
  <2> QED BY <1>1, Least
<1>3. ~Over(s) => Onward(s) \in Stages /\ Below(m[Onward(s)], m[s])
  BY OnwardCases
<1> QED BY <1>2, <1>3

Outcome(s) == [ok |-> s.rest = <<>>, path |-> s.done, links |-> s.links]

\* Path resolution, as it is defined.
LEMMA ResolveSolves ==
    ASSUME IsTree(tree), NEW s \in Stages
    PROVE  /\ Resolve[s] = IF Over(s) THEN Outcome(s) ELSE Resolve[Onward(s)]
           /\ Resolve[s] \in Outcomes
<1> DEFINE m == [x \in Stages |-> Rank(x)]
           base == {x \in Stages : Over(x)}
           back == [x \in Stages |-> IF Over(x) THEN x ELSE Onward(x)]
           val == [x \in Stages |-> Outcome(x)]
           make == [x \in Stages \X Outcomes |-> x[2]]
           Eq(g) == g = [x \in Stages |-> IF Over(x) THEN Outcome(x) ELSE g[Onward(x)]]
<1>1. PICK F : Solves(F, Stages, Outcomes, base, back, val, make)
  <2>1. m \in [Stages -> Nat \X Nat]
    BY BoundsAssumption DEF Rank, Stages
  <2>2. base \in SUBSET Stages
    OBVIOUS
  <2>3. back \in [Stages -> Stages]
    BY OnwardCases
  <2>4. val \in [Stages -> Outcomes]
    BY DEF Outcome, Outcomes, Stages
  <2>5. make \in [Stages \X Outcomes -> Outcomes]
    OBVIOUS
  <2>6. \A x \in Stages \ base : Below(m[back[x]], m[x])
    BY OnwardCases
  <2> HIDE DEF m, back, val, make, base
  <2> QED BY <2>1, <2>2, <2>3, <2>4, <2>5, <2>6, Solvable
<1>2. Eq(F)
  <2>1. F = [x \in Stages |-> F[x]]
    BY <1>1 DEF Solves
  <2>2. ASSUME NEW x \in Stages PROVE F[x] = IF Over(x) THEN Outcome(x) ELSE F[Onward(x)]
    <3>1. F[x] = (IF x \in base THEN val[x] ELSE make[<<x, F[back[x]]>>]) /\ F \in [Stages -> Outcomes]
      BY <1>1 DEF Solves
    <3>2. back[x] \in Stages
      BY OnwardCases
    <3>3. make[<<x, F[back[x]]>>] = F[back[x]]
      BY <3>1, <3>2
    <3> QED BY <3>1, <3>3
  <2> QED BY <2>1, <2>2
<1>3. Resolve = CHOOSE g : Eq(g)
  BY DEF Resolve, Outcome, Over
<1>4. Eq(Resolve)
  <2> HIDE DEF Eq
  <2> QED BY <1>2, <1>3
<1>5. \A x \in Stages : Resolve[x] = IF Over(x) THEN Outcome(x) ELSE Resolve[Onward(x)]
  BY <1>4
<1>6. \A x \in Stages : Resolve[x] \in Outcomes
  <2> DEFINE Bad == {x \in Stages : Resolve[x] \notin Outcomes}
  <2> SUFFICES ASSUME Bad # {} PROVE FALSE
    OBVIOUS
  <2>1. PICK x \in Bad : ~Over(x) => Onward(x) \in Stages \ Bad
    BY LeastStage
  <2>2. Outcome(x) \in Outcomes
    BY DEF Outcome, Outcomes, Stages
  <2>3. ~Over(x)
    BY <1>5, <2>2
  <2> QED BY <1>5, <2>1, <2>3
<1> QED BY <1>5, <1>6

StageTypes(s) == s.rest \in Seq(Elements) /\ s.done \in Seq(Names) /\ s.links \in Nat

LEMMA StageFields ==
    ASSUME NEW r \in Seq(Elements), NEW d \in Seq(Names), NEW n \in Nat
    PROVE  /\ Stage(r, d, n) \in Stages
           /\ Stage(r, d, n).rest = r /\ Stage(r, d, n).done = d /\ Stage(r, d, n).links = n
BY DEF Stage, Stages, Elements

LEMMA StageOf ==
    ASSUME NEW s \in Stages
    PROVE  StageTypes(s) /\ s = Stage(s.rest, s.done, s.links)
BY DEF Stage, Stages, Elements, StageTypes

LEMMA OutcomeFields ==
    ASSUME NEW s
    PROVE  /\ Outcome(s).ok = (s.rest = <<>>)
           /\ Outcome(s).path = s.done /\ Outcome(s).links = s.links
BY DEF Outcome

\* What resolves stands for something that is not a link; links are only added.
LEMMA ResolvedStands ==
    ASSUME IsTree(tree), NEW s \in Stages, Stands(s.done)
    PROVE  /\ Resolve[s].links \in Nat /\ Resolve[s].links >= s.links
           /\ Resolve[s].path \in Seq(Names)
           /\ Resolve[s].ok => Stands(Resolve[s].path)
<1> DEFINE Good(x) == Stands(x.done) => /\ Resolve[x].links >= x.links
                                        /\ Resolve[x].ok => Stands(Resolve[x].path)
           Bad == {x \in Stages : ~Good(x)}
<1>1. Bad = {}
  <2> SUFFICES ASSUME Bad # {} PROVE FALSE
    OBVIOUS
  <2>1. PICK x \in Bad : ~Over(x) => Onward(x) \in Stages \ Bad
    BY LeastStage
  <2> HIDE DEF Good
  <2>2. StageTypes(x)
    BY StageOf
  <2>3. CASE Over(x)
    <3>1. Resolve[x] = Outcome(x)
      BY <2>3, ResolveSolves
    <3>2. Resolve[x].links = x.links /\ Resolve[x].path = x.done
      BY <3>1 DEF Outcome
    <3> QED BY <2>2, <3>2 DEF Good, StageTypes
  <2>4. CASE ~Over(x)
    <3> DEFINE y == Onward(x)
    <3>1. y \in Stages /\ Good(y) /\ Resolve[x] = Resolve[y] /\ Resolve[y] \in Outcomes
      BY <2>1, <2>4, ResolveSolves
    <3>2. Stands(x.done) => Stands(y.done) /\ y.links >= x.links
      <4> SUFFICES ASSUME Stands(x.done) PROVE Stands(y.done) /\ y.links >= x.links
        OBVIOUS
      <4>1. Parent(x.done) \in Seq(Names) /\ Stands(Parent(x.done))
        <5>1. DirAt[x.done] # Absent
          BY TreeAssumption DEF Stands
        <5> QED BY <2>2, <5>1, DirAtParent DEF StageTypes, Stands, Dirs, Links
      <4>2. Stands(<<>>)
        BY DirAtSolves, TextAssumption DEF Stands, Dirs, Links
      <4>3. Head(x.rest) \in Names /\ Met(x) \in Objects \ Links => Stands(Append(x.done, Head(x.rest)))
        BY <2>2, DirAtAppend DEF Stands, Met, StageTypes
      <4>4. /\ \/ y.done \in {Parent(x.done), <<>>, x.done}
               \/ /\ y.done = Append(x.done, Head(x.rest))
                  /\ Head(x.rest) \in Names /\ Met(x) \in Objects \ Links
            /\ y.links \in {x.links, x.links + 1}
        <5>1. CASE Onward(x) = Stage(Tail(x.rest), Parent(x.done), x.links)
          <6>1. y.done = Parent(x.done) /\ y.links = x.links
            BY <5>1 DEF Stage
          <6> QED BY <6>1
        <5>2. CASE Onward(x) = Stage(Text[Met(x)].path \o Tail(x.rest),
                                     IF Text[Met(x)].abs THEN <<>> ELSE x.done, x.links + 1)
          <6>1. /\ y.done = IF Text[Met(x)].abs THEN <<>> ELSE x.done
                /\ y.links = x.links + 1
            BY <5>2 DEF Stage
          <6> QED BY <6>1
        <5>3. CASE /\ Head(x.rest) \in Names /\ Met(x) \in Objects \ Links
                   /\ Onward(x) = Stage(Tail(x.rest), Append(x.done, Head(x.rest)), x.links)
          BY <5>3 DEF Stage
        <5> QED BY <2>4, <5>1, <5>2, <5>3, OnwardCases
      <4> HIDE DEF y
      <4>5. y.links >= x.links
        BY <2>2, <4>4 DEF StageTypes
      <4>6. Stands(y.done)
        BY <4>1, <4>2, <4>3, <4>4
      <4> QED BY <4>5, <4>6
    <3>3. x.links \in Nat /\ y.links \in Nat /\ Resolve[y].links \in Nat
      BY <2>2, <3>1, StageOf DEF StageTypes, Outcomes
    <3> HIDE DEF y
    <3> QED BY <3>1, <3>2, <3>3 DEF Good
  <2> QED BY <2>3, <2>4
<1> QED BY <1>1, ResolveSolves DEF Outcomes

\* A resolution that the library does not give up is the same with fewer links
\* met before.
Short(s, k)    == Stage(s.rest, s.done, s.links - k)
Same(a, b, k)  == a.ok = b.ok /\ a.path = b.path /\ a.links = b.links - k
Shortens(s, k) == k <= s.links /\ ~GaveUp(Resolve[s]) => Same(Resolve[Short(s, k)], Resolve[s], k)

\* One step of the induction.
LEMMA ShortensStep ==
    ASSUME IsTree(tree), NEW s \in Stages, NEW k \in Nat,
           ~Over(s) => Shortens(Onward(s), k)
    PROVE  Shortens(s, k)
<1> SUFFICES ASSUME k <= s.links, ~GaveUp(Resolve[s])
             PROVE  Same(Resolve[Short(s, k)], Resolve[s], k)
  BY DEF Shortens
<1> DEFINE t == Short(s, k)
<1>1. StageTypes(s) /\ LibHops \in Nat
  BY StageOf, BoundsAssumption
<1>2. t \in Stages /\ t.rest = s.rest /\ t.done = s.done /\ t.links = s.links - k
  BY <1>1, StageFields DEF StageTypes, Short
<1> HIDE DEF t
<1>3. Met(t) = Met(s)
  BY <1>2 DEF Met
<1>4. CASE Over(s)
  <2>1. Resolve[s] = Outcome(s)
    BY <1>4, ResolveSolves
  <2>2. Stuck(s) => s.links < LibHops
    <3>1. Outcome(s).ok = (s.rest = <<>>) /\ Outcome(s).links = s.links
      BY OutcomeFields
    <3>2. Resolve[s].links = s.links /\ (Stuck(s) => ~Resolve[s].ok)
      BY <2>1, <3>1 DEF Stuck
    <3>3. Stuck(s) => ~(s.links >= LibHops)
      BY <3>2 DEF GaveUp
    <3> QED BY <1>1, <3>3 DEF StageTypes
  <2>3. Over(t)
    BY <1>1, <1>2, <1>3, <1>4, <2>2 DEF Over, Stuck, StageTypes
  <2>4. Resolve[t] = Outcome(t)
    BY <1>2, <2>3, ResolveSolves
  <2>5. Same(Outcome(t), Outcome(s), k)
    BY <1>2, OutcomeFields DEF Same
  <2> QED BY <2>1, <2>4, <2>5 DEF t
<1>5. CASE ~Over(s)
  <2>1. Onward(s) \in Stages /\ Shortens(Onward(s), k) /\ Resolve[s] = Resolve[Onward(s)]
    BY <1>5, ResolveSolves, OnwardCases
  <2>2. ~Over(t)
    BY <1>1, <1>2, <1>3, <1>5 DEF Over, Stuck, StageTypes
  <2>3. Onward(t) = Short(Onward(s), k) /\ k <= Onward(s).links
    <3>1. CASE Head(s.rest) = ".."
      BY <1>1, <1>2, <3>1 DEF Onward, Short, Stage
    <3>2. CASE Head(s.rest) # ".." /\ Met(s) \in Links
      <4>1. s.links \in Nat /\ s.links + 1 - k = s.links - k + 1 /\ k <= s.links + 1
        BY <1>1 DEF StageTypes
      <4> DEFINE rest == Text[Met(s)].path \o Tail(s.rest)
                 from == IF Text[Met(s)].abs THEN <<>> ELSE s.done
      <4>2. Onward(s) = Stage(rest, from, s.links + 1)
        BY <3>2 DEF Onward
      <4>3. Onward(t) = Stage(rest, from, s.links - k + 1)
        BY <1>2, <1>3, <3>2 DEF Onward
      <4> HIDE DEF rest, from
      <4>4. Onward(s).rest = rest /\ Onward(s).done = from /\ Onward(s).links = s.links + 1
        BY <4>2 DEF Stage
      <4>5. Short(Onward(s), k) = Stage(rest, from, s.links + 1 - k)
        <5>1. Onward(s).links - k = s.links + 1 - k
          <6>1. Onward(s).links \in Nat /\ s.links \in Nat /\ Onward(s).links = s.links + 1
            BY <2>1, <4>1, <4>4 DEF Stages
          <6> QED BY <6>1
        <5> QED BY <4>4, <5>1 DEF Short
      <4> QED BY <4>1, <4>3, <4>4, <4>5
    <3>3. CASE Head(s.rest) # ".." /\ Met(s) \notin Links
      BY <1>1, <1>2, <1>3, <3>3 DEF Onward, Short, Stage
    <3> QED BY <3>1, <3>2, <3>3
  <2>4. Resolve[t] = Resolve[Short(Onward(s), k)]
    BY <1>2, <2>2, <2>3, ResolveSolves
  <2> QED BY <2>1, <2>3, <2>4 DEF Shortens, t
<1> QED BY <1>4, <1>5

\* Links met before count against the limit only.
LEMMA Fewer ==
    ASSUME IsTree(tree), NEW s \in Stages, NEW k \in Nat, k <= s.links,
           ~GaveUp(Resolve[s])
    PROVE  Same(Resolve[Short(s, k)], Resolve[s], k)
<1> DEFINE Bad == {x \in Stages : ~Shortens(x, k)}
<1>1. Bad = {}
  <2> SUFFICES ASSUME Bad # {} PROVE FALSE
    OBVIOUS
  <2>1. PICK x \in Bad : ~Over(x) => Onward(x) \in Stages \ Bad
    BY LeastStage
  <2> QED BY <2>1, ShortensStep
<1> QED BY <1>1 DEF Shortens

-----------------------------------------------------------------------------
(* A path in two parts.                                                    *)

\* Paths are put together in any order.
LEMMA ConcatAssoc ==
    ASSUME NEW S, NEW a \in Seq(S), NEW b \in Seq(S), NEW c \in Seq(S)
    PROVE  (a \o b) \o c = a \o (b \o c)
OBVIOUS

\* A path in two parts resolves as its first part does and then, from where that
\* leads, its second.
With(s, q)  == Stage(s.rest \o q, s.done, s.links)
After(e, q) == Resolve[Stage(q, e.path, e.links)]
Splits(s, q) ==
    LET e == Resolve[s]  w == Resolve[With(s, q)] IN
    /\ ~e.ok => w = e
    /\ e.ok /\ (q = <<>> \/ DirAt[e.path] \in Dirs) => w = After(e, q)
    /\ e.ok /\ q # <<>> /\ DirAt[e.path] \notin Dirs => ~w.ok /\ w.links = e.links

\* A stage with more to resolve.
LEMMA WithFields ==
    ASSUME NEW s \in Stages, NEW q \in Seq(Names)
    PROVE  /\ With(s, q) \in Stages
           /\ With(s, q).rest = s.rest \o q /\ With(s, q).done = s.done
           /\ With(s, q).links = s.links
           /\ s.rest = <<>> => With(s, q).rest = q
           /\ s.rest # <<>> =>
                /\ With(s, q).rest # <<>> /\ Head(With(s, q).rest) = Head(s.rest)
                /\ Tail(With(s, q).rest) = Tail(s.rest) \o q
                /\ Tail(With(s, q).rest) = <<>> => Tail(s.rest) = <<>> /\ q = <<>>
                /\ Tail(s.rest) \in Seq(Elements) /\ Met(With(s, q)) = Met(s)
<1>1. s.rest \in Seq(Elements) /\ s.done \in Seq(Names) /\ s.links \in Nat /\ q \in Seq(Elements)
  BY DEF Stages, Elements
<1>2. s.rest \o q \in Seq(Elements)
  BY <1>1
<1>3. /\ With(s, q) \in Stages
      /\ With(s, q).rest = s.rest \o q /\ With(s, q).done = s.done
      /\ With(s, q).links = s.links
  BY <1>1, <1>2 DEF With, Stage, Stages, Elements
<1>4. s.rest = <<>> => s.rest \o q = q
  BY <1>1
<1>5. ASSUME s.rest # <<>>
      PROVE  /\ Tail(s.rest) \in Seq(Elements)
             /\ s.rest \o q # <<>> /\ Head(s.rest \o q) = Head(s.rest)
             /\ Tail(s.rest \o q) = Tail(s.rest) \o q
             /\ (Tail(s.rest \o q) = <<>> => Tail(s.rest) = <<>> /\ q = <<>>)
  <2> DEFINE r == s.rest
  <2>1. r \in Seq(Elements) /\ r # <<>> /\ q \in Seq(Elements)
    BY <1>1, <1>5
  <2> HIDE DEF r
  <2>2. Tail(r \o q) = Tail(r) \o q
    BY <2>1, HeadAndTail
  <2>3. r \o q # <<>> /\ Head(r \o q) = Head(r) /\ Tail(r) \in Seq(Elements)
    BY <2>1, HeadAndTail
  <2>4. Tail(r \o q) = <<>> => Tail(r) = <<>> /\ q = <<>>
    BY <2>1, HeadAndTail
  <2> QED BY <2>2, <2>3, <2>4 DEF r
<1> QED BY <1>3, <1>4, <1>5 DEF Met

\* Where the first part is resolved.
LEMMA SplitsAtEnd ==
    ASSUME IsTree(tree), NEW s \in Stages, NEW q \in Seq(Names), s.rest = <<>>
    PROVE  Splits(s, q)
<1> DEFINE w == With(s, q)
<1>1. w \in Stages /\ w.rest = q /\ w.done = s.done /\ w.links = s.links
  BY WithFields
<1>2. Resolve[s] = Outcome(s)
  BY ResolveSolves DEF Over
<1>3. Resolve[s].ok /\ Resolve[s].path = s.done /\ Resolve[s].links = s.links
  BY <1>2, OutcomeFields
<1>4. Resolve[w] = After(Resolve[s], q)
  <2>1. w = Stage(q, s.done, s.links)
    BY <1>1, StageOf
  <2> QED BY <1>3, <2>1 DEF After
<1>5. ASSUME q # <<>>, DirAt[s.done] \notin Dirs
      PROVE  ~Resolve[w].ok /\ Resolve[w].links = s.links
  <2>1. Head(q) \in Names /\ Head(q) # ".."
    BY <1>5, TextAssumption
  <2>2. Met(w) = Absent
    BY <1>1, <1>5 DEF Met, Look
  <2>3. Over(w)
    BY <1>1, <1>5, <2>1, <2>2 DEF Over, Stuck
  <2>4. Resolve[w] = Outcome(w)
    BY <1>1, <2>3, ResolveSolves
  <2> QED BY <1>1, <1>5, <2>4, OutcomeFields
<1> QED BY <1>3, <1>4, <1>5 DEF Splits

\* Where it cannot be.
LEMMA SplitsWhereStuck ==
    ASSUME IsTree(tree), NEW s \in Stages, NEW q \in Seq(Names), Stuck(s)
    PROVE  Splits(s, q)
<1> DEFINE w == With(s, q)
<1>0. s.rest # <<>>
  BY DEF Stuck
<1>1. /\ w \in Stages /\ w.rest # <<>> /\ w.done = s.done /\ w.links = s.links
      /\ Head(w.rest) = Head(s.rest) /\ Met(w) = Met(s)
      /\ Tail(w.rest) = <<>> => Tail(s.rest) = <<>>
  BY <1>0, WithFields
<1>2. Resolve[s] = Outcome(s)
  BY ResolveSolves DEF Over
<1>3. Over(w)
  BY <1>1 DEF Over, Stuck
<1>4. Resolve[w] = Outcome(w)
  BY <1>1, <1>3, ResolveSolves
<1>5. (s.rest = <<>>) = FALSE /\ (w.rest = <<>>) = FALSE
  BY <1>0, <1>1
<1>6. Outcome(w) = Outcome(s) /\ ~Outcome(s).ok
  BY <1>1, <1>5 DEF Outcome
<1> QED BY <1>2, <1>4, <1>6 DEF Splits

\* One step of the induction.
LEMMA SplitsOnward ==
    ASSUME IsTree(tree), NEW s \in Stages, NEW q \in Seq(Names), ~Over(s),
           Splits(Onward(s), q)
    PROVE  Splits(s, q)
<1> DEFINE w == With(s, q)
           t == Onward(s)
<1>0. s.rest # <<>> /\ StageTypes(s) /\ q \in Seq(Elements)
  BY StageOf DEF Over, Elements
<1>1. /\ w \in Stages /\ w.rest # <<>> /\ w.done = s.done /\ w.links = s.links
      /\ Head(w.rest) = Head(s.rest) /\ Met(w) = Met(s)
      /\ Tail(w.rest) = Tail(s.rest) \o q /\ Tail(s.rest) \in Seq(Elements)
      /\ Tail(w.rest) = <<>> => Tail(s.rest) = <<>> /\ q = <<>>
  BY <1>0, WithFields
<1>2. t \in Stages /\ Resolve[s] = Resolve[t]
  BY ResolveSolves, OnwardCases
<1> HIDE DEF w
<1>3. CASE Over(w)
  <2>1. /\ Head(s.rest) # ".." /\ Met(s) \in Objects \ Links /\ Kind[Met(s)] # "dir"
        /\ Tail(s.rest) = <<>> /\ q # <<>>
    <3>1. Met(s) \in Objects \union {Absent}
      BY LookType DEF Met, Things
    <3>2. Stuck(w) /\ ~Stuck(s)
      BY <1>1, <1>3 DEF Over
    <3> QED BY <1>0, <1>1, <3>1, <3>2 DEF Stuck, Links
  <2>2. t = Stage(<<>>, Append(s.done, Head(s.rest)), s.links) /\ Head(s.rest) \in Names
    BY <2>1, OnwardCases
  <2> HIDE DEF t
  <2>3. t.rest = <<>> /\ t.done = Append(s.done, Head(s.rest)) /\ t.links = s.links
    BY <2>2 DEF Stage
  <2>4. Resolve[t] = Outcome(t)
    BY <1>2, <2>3, ResolveSolves DEF Over
  <2>5. Resolve[s].ok /\ Resolve[s].path = t.done /\ Resolve[s].links = s.links
    <3>1. Outcome(t).ok = (t.rest = <<>>) /\ Outcome(t).path = t.done /\ Outcome(t).links = t.links
      BY OutcomeFields
    <3> QED BY <1>2, <2>3, <2>4, <3>1
  <2>6. DirAt[t.done] \notin Dirs
    <3>1. DirAt[t.done] = Met(s)
      BY <1>0, <2>2, <2>3, DirAtAppend DEF Met, StageTypes
    <3> QED BY <2>1, <3>1 DEF Dirs
  <2>7. ~Resolve[w].ok /\ Resolve[w].links = s.links
    <3>1. Resolve[w] = Outcome(w)
      BY <1>1, <1>3, ResolveSolves
    <3> QED BY <1>1, <3>1, OutcomeFields
  <2> QED BY <2>1, <2>5, <2>6, <2>7 DEF Splits, w
<1>4. CASE ~Over(w)
  <2>1. Onward(w) = With(t, q)
    <3>1. CASE Head(s.rest) = ".."
      <4>1. t.rest = Tail(s.rest) /\ t.done = Parent(s.done) /\ t.links = s.links
        BY <3>1 DEF Onward, Stage
      <4> QED BY <1>1, <3>1, <4>1 DEF Onward, With
    <3>2. CASE Head(s.rest) # ".." /\ Met(s) \in Links
      <4> DEFINE text == Text[Met(s)].path
                 rest == Tail(s.rest)
                 from == IF Text[Met(s)].abs THEN <<>> ELSE s.done
      <4>1. text \in Seq(Elements)
        BY <3>2, TextAssumption DEF Elements
      <4>2. rest \in Seq(Elements) /\ Tail(w.rest) = rest \o q
        BY <1>1
      <4>3. t.rest = text \o rest /\ t.done = from /\ t.links = s.links + 1
        BY <3>2 DEF Onward, Stage
      <4>4. Onward(w) = Stage(text \o Tail(w.rest), from, s.links + 1)
        BY <1>1, <3>2 DEF Onward
      <4> HIDE DEF text, rest, from, t
      <4>5. (text \o rest) \o q = text \o (rest \o q)
        BY <1>0, <4>1, <4>2, ConcatAssoc
      <4> QED BY <4>2, <4>3, <4>4, <4>5 DEF With
    <3>3. CASE Head(s.rest) # ".." /\ Met(s) \notin Links
      <4>1. t.rest = Tail(s.rest) /\ t.done = Append(s.done, Head(s.rest)) /\ t.links = s.links
        BY <3>3 DEF Onward, Stage
      <4> QED BY <1>1, <3>3, <4>1 DEF Onward, With
    <3> QED BY <3>1, <3>2, <3>3
  <2>2. Resolve[w] = Resolve[With(t, q)]
    BY <1>1, <1>4, <2>1, ResolveSolves
  <2> HIDE DEF t
  <2> QED BY <1>2, <2>2 DEF Splits, w, t
<1> QED BY <1>3, <1>4

\* Every path splits.
LEMMA Compose ==
    ASSUME IsTree(tree), NEW s \in Stages, NEW q \in Seq(Names)
    PROVE  Splits(s, q)
<1> DEFINE Bad == {x \in Stages : ~Splits(x, q)}
<1>1. Bad = {}
  <2> SUFFICES ASSUME Bad # {} PROVE FALSE
    OBVIOUS
  <2>1. PICK x \in Bad : ~Over(x) => Onward(x) \in Stages \ Bad
    BY LeastStage
  <2> QED BY <2>1, SplitsAtEnd, SplitsWhereStuck, SplitsOnward DEF Over
<1> QED BY <1>1

\* A path has no "..", a text may.
LEMMA NamesAreElements ==
    /\ Seq(Names) \subseteq Seq(Elements)
    /\ <<>> \in Seq(Elements) /\ <<>> \in Seq(Names)
BY DEF Elements

\* One element that is no link.
LEMMA OneElement ==
    ASSUME IsTree(tree), NEW p \in Seq(Names), NEW n \in Names, NEW k \in Nat,
           DirAt[Append(p, n)] \in Objects \ Links
    PROVE  Resolve[Stage(<<n>>, p, k)] = Outcome(Stage(<<>>, Append(p, n), k))
<1> DEFINE s == Stage(<<n>>, p, k)
           t == Stage(<<>>, Append(p, n), k)
<1>0. <<n>> \in Seq(Elements) /\ Append(p, n) \in Seq(Names)
  BY DEF Elements
<1>1. /\ s \in Stages /\ s.rest = <<n>> /\ s.done = p /\ s.links = k
      /\ t \in Stages /\ t.rest = <<>> /\ t.done = Append(p, n)
  BY <1>0 DEF Stage, Stages, Elements
<1>2. Head(<<n>>) = n /\ Tail(<<n>>) = <<>> /\ <<n>> # <<>> /\ n # ".."
  BY TextAssumption
<1>3. Met(s) \in Objects \ Links
  BY <1>1, <1>2, DirAtAppend DEF Met
<1>4. ~Over(s) /\ Onward(s) = t
  <2> HIDE DEF s
  <2>1. Met(s) # Absent
    BY <1>3, TreeAssumption
  <2> QED BY <1>1, <1>2, <1>3, <2>1 DEF Over, Stuck, Onward
<1>5. Over(t)
  BY <1>1 DEF Over
<1> HIDE DEF s, t
<1>6. Resolve[s] = Outcome(t)
  BY <1>1, <1>4, <1>5, ResolveSolves
<1> QED BY <1>6 DEF s, t

\* What a spelling without links stands for is what it resolves to.
Straight(p, k) == Resolve[Stage(p, <<>>, k)] = Outcome(Stage(<<>>, p, k))

\* One step of the induction.
LEMMA StraightStep ==
    ASSUME IsTree(tree), NEW p \in Seq(Names), NEW k \in Nat, Stands(p),
           p # <<>> => Straight(Front(p), k)
    PROVE  Straight(p, k)
<1>1. CASE p = <<>>
  <2>1. Stage(<<>>, <<>>, k) \in Stages /\ Over(Stage(<<>>, <<>>, k))
    BY StageFields, NamesAreElements DEF Over
  <2> QED BY <1>1, <2>1, ResolveSolves DEF Straight
<1>2. CASE p # <<>>
  <2> DEFINE f == Front(p)
             n == Last(p)
             s == Stage(f, <<>>, k)
             e == Outcome(Stage(<<>>, f, k))
  <2>1. f \in Seq(Names) /\ n \in Names /\ p = Append(f, n) /\ f \in Seq(Elements)
    BY <1>2, FrontShorter DEF Elements
  <2>2. DirAt[f] \in Dirs
    <3>1. DirAt[p] # Absent
      BY TreeAssumption DEF Stands
    <3> QED BY <1>2, <3>1, DirAtParent DEF Parent
  <2>3. Resolve[s] = e
    BY <1>2 DEF Straight
  <2> HIDE DEF f, n
  <2>4. s \in Stages /\ s.rest = f /\ s.done = <<>> /\ s.links = k
    BY <2>1 DEF Stage, Stages, Elements
  <2>5. e.ok /\ e.path = f /\ e.links = k
    <3>1. Stage(<<>>, f, k).rest = <<>> /\ Stage(<<>>, f, k).done = f /\ Stage(<<>>, f, k).links = k
      BY <2>1 DEF Stage, Stages, Elements
    <3> QED BY <3>1, OutcomeFields
  <2> HIDE DEF s, e
  <2>6. <<n>> \in Seq(Names) /\ <<n>> # <<>>
    BY <2>1
  <2>7. Resolve[With(s, <<n>>)] = Resolve[Stage(<<n>>, f, k)]
    <3>1. Splits(s, <<n>>)
      BY <2>4, <2>6, Compose
    <3> QED BY <2>2, <2>3, <2>5, <2>6, <3>1 DEF Splits, After
  <2>8. With(s, <<n>>) = Stage(p, <<>>, k)
    <3>1. f \o <<n>> = Append(f, n)
      BY <2>1
    <3> QED BY <2>1, <2>4, <3>1 DEF With
  <2>9. Resolve[Stage(<<n>>, f, k)] = Outcome(Stage(<<>>, p, k))
    BY <2>1, OneElement DEF Stands
  <2> QED BY <2>7, <2>8, <2>9 DEF Straight
<1> QED BY <1>1, <1>2

\* A spelling without links resolves to itself.
LEMMA ResolvesStraight ==
    ASSUME IsTree(tree), NEW p \in Seq(Names), NEW k \in Nat, Stands(p)
    PROVE  /\ Resolve[Stage(p, <<>>, k)].ok
           /\ Resolve[Stage(p, <<>>, k)].path = p
           /\ Resolve[Stage(p, <<>>, k)].links = k
<1> DEFINE Bad == {q \in Seq(Names) : Stands(q) /\ ~Straight(q, k)}
           Lens == {Len(q) : q \in Bad}
<1>0. Bad \in SUBSET Seq(Names)
  OBVIOUS
<1>1. Bad = {}
  <2> SUFFICES ASSUME Bad # {} PROVE FALSE
    OBVIOUS
  <2>1. Lens \in SUBSET Nat /\ Lens # {}
    <3> HIDE DEF Bad
    <3>1. \A q \in Bad : Len(q) \in Nat
      BY <1>0
    <3> QED BY <3>1
  <2>2. PICK l \in Lens : \A m \in Lens : l <= m
    BY <2>1, LeastNat
  <2>3. PICK q \in Bad : Len(q) = l
    OBVIOUS
  <2>4. q # <<>> /\ ~Straight(Front(q), k)
    BY <2>3, StraightStep
  <2>5. Front(q) \in Seq(Names) /\ Len(Front(q)) = Len(q) - 1 /\ Len(q) \in Nat
    <3>1. q \in Seq(Names) /\ q # <<>>
      BY <2>3, <2>4
    <3> HIDE DEF Bad
    <3> QED BY <3>1, FrontShorter
  <2>6. Stands(Front(q))
    <3>1. DirAt[q] # Absent /\ Parent(q) = Front(q)
      BY <2>3, <2>4, TreeAssumption DEF Stands, Parent
    <3> QED BY <2>3, <3>1, DirAtParent DEF Stands, Dirs, Links
  <2>7. Front(q) \in Bad /\ Len(Front(q)) \in Lens
    BY <2>4, <2>5, <2>6
  <2> QED BY <2>2, <2>3, <2>5, <2>7
<1>2. Straight(p, k)
  BY <1>1
<1>3. LET t == Stage(<<>>, p, k) IN t.rest = <<>> /\ t.done = p /\ t.links = k
  BY DEF Stage, Stages, Elements
<1> QED BY <1>2, <1>3, OutcomeFields DEF Straight

\* A directory by its spelling without links, and what is asked for in it.
LEMMA FromDirectory ==
    ASSUME IsTree(tree), NEW p \in Seq(Names), NEW q \in Seq(Names), NEW k \in Nat,
           DirAt[p] \in Dirs
    PROVE  Resolve[Stage(p \o q, <<>>, k)] = Resolve[Stage(q, p, k)]
<1> DEFINE s == Stage(p, <<>>, k)
<1>1. p \in Seq(Elements)
  BY DEF Elements
<1>2. s \in Stages /\ s.rest = p /\ s.done = <<>> /\ s.links = k
  BY <1>1 DEF Stage, Stages, Elements
<1>3. Stands(p)
  BY DEF Stands, Dirs, Links
<1>4. Resolve[s].ok /\ Resolve[s].path = p /\ Resolve[s].links = k
  BY <1>3, ResolvesStraight
<1> HIDE DEF s
<1>5. Splits(s, q)
  BY <1>2, Compose
<1>6. Resolve[With(s, q)] = Resolve[Stage(q, p, k)]
  BY <1>4, <1>5 DEF Splits, After
<1>7. With(s, q) = Stage(p \o q, <<>>, k)
  BY <1>2 DEF With
<1> QED BY <1>6, <1>7

-----------------------------------------------------------------------------
(* ".." as text, and as the directory above.                               *)

LEMMA ParentNames ==
    ASSUME NEW p \in Seq(Names)
    PROVE  Parent(p) \in Seq(Names)
BY FrontShorter, NamesAreElements DEF Parent

CleanStep(f, p) == IF Last(p) = ".." THEN Parent(f) ELSE Append(f, Last(p))

\* filepath.Clean, as it is defined.
LEMMA CleanSolves ==
    /\ Clean \in [Seq(Elements) -> Seq(Names)]
    /\ Clean[<<>>] = <<>>
    /\ \A p \in Seq(Elements) : p # <<>> => Clean[p] = CleanStep(Clean[Front(p)], p)
<1> DEFINE D == Seq(Elements)
           R == Seq(Names)
           m == [p \in D |-> <<0, Len(p)>>]
           base == {<<>>}
           back == [p \in D |-> IF p = <<>> THEN p ELSE Front(p)]
           val == [p \in D |-> <<>>]
           make == [x \in D \X R |-> IF x[1] = <<>> THEN <<>> ELSE CleanStep(x[2], x[1])]
           Eq(g) == g = [p \in D |-> IF p = <<>> THEN <<>> ELSE CleanStep(g[Front(p)], p)]
<1>1. PICK F : Solves(F, D, R, base, back, val, make)
  <2>1. m \in [D -> Nat \X Nat] /\ base \in SUBSET D
    OBVIOUS
  <2>2. back \in [D -> D]
    BY FrontShorter
  <2>3. val \in [D -> R]
    OBVIOUS
  <2>4. make \in [D \X R -> R]
    <3>1. ASSUME NEW p \in D, NEW f \in R, p # <<>> PROVE CleanStep(f, p) \in R
      <4>1. Last(p) \in Elements
        BY <3>1, FrontShorter
      <4> QED BY <4>1, ParentNames DEF CleanStep, Elements
    <3> HIDE DEF D
    <3> QED BY <3>1
  <2>5. ASSUME NEW x \in D \ {<<>>} PROVE Below(m[back[x]], m[x])
    <3>1. back[x] = Front(x) /\ Front(x) \in D /\ Len(Front(x)) = Len(x) - 1
      BY FrontShorter
    <3> QED BY <3>1 DEF Below
  <2> HIDE DEF D, R, m, back, val, make
  <2> QED BY <2>1, <2>2, <2>3, <2>4, <2>5, Solvable
<1>2. Eq(F)
  <2>1. F = [p \in D |-> F[p]]
    BY <1>1 DEF Solves
  <2>2. ASSUME NEW p \in D PROVE F[p] = IF p = <<>> THEN <<>> ELSE CleanStep(F[Front(p)], p)
    <3>1. F \in [D -> R] /\ F[p] = IF p \in base THEN val[p] ELSE make[<<p, F[back[p]]>>]
      BY <1>1 DEF Solves
    <3>2. CASE p = <<>>
      BY <3>1, <3>2
    <3>3. CASE p # <<>>
      <4>1. back[p] = Front(p) /\ Front(p) \in D
        BY <3>3, FrontShorter
      <4> QED BY <3>1, <3>3, <4>1
    <3> QED BY <3>2, <3>3
  <2> QED BY <2>1, <2>2
<1>3. Clean = CHOOSE g : Eq(g)
  BY DEF Clean, CleanStep, Elements
<1>4. Eq(Clean)
  <2> HIDE DEF Eq
  <2> QED BY <1>2, <1>3
<1>5. \A p \in D : Clean[p] = F[p]
  <2> DEFINE Bad == {p \in D : Clean[p] # F[p]}
             Lens == {Len(p) : p \in Bad}
  <2> SUFFICES ASSUME Bad # {} PROVE FALSE
    OBVIOUS
  <2>1. Lens \in SUBSET Nat /\ Lens # {}
    <3>1. \A p \in Bad : Len(p) \in Nat
      OBVIOUS
    <3> HIDE DEF Bad
    <3> QED BY <3>1
  <2>2. PICK l \in Lens : \A n \in Lens : l <= n
    BY <2>1, LeastNat
  <2>3. PICK p \in Bad : Len(p) = l
    OBVIOUS
  <2>4. p # <<>> /\ Front(p) \notin Bad
    <3>1. p # <<>>
      BY <1>2, <1>4
    <3>2. Front(p) \in D /\ Len(Front(p)) = Len(p) - 1 /\ Len(p) \in Nat
      <4>1. p \in Seq(Elements)
        OBVIOUS
      <4> HIDE DEF Bad
      <4> QED BY <3>1, <4>1, FrontShorter
    <3>3. Front(p) \in Bad => Len(Front(p)) \in Lens
      OBVIOUS
    <3> HIDE DEF Bad, Lens
    <3> QED BY <2>2, <2>3, <3>1, <3>2, <3>3
  <2>5. Front(p) \in D
    <3>1. p \in Seq(Elements) /\ p # <<>>
      BY <2>4
    <3> HIDE DEF Bad
    <3> QED BY <3>1, FrontShorter
  <2>6. Clean[Front(p)] = F[Front(p)]
    BY <2>4, <2>5
  <2> QED BY <1>2, <1>4, <2>3, <2>4, <2>6
<1>6. Clean \in [D -> R]
  <2>1. Clean = [p \in D |-> Clean[p]]
    BY <1>4
  <2>2. \A p \in D : F[p] \in R
    BY <1>1 DEF Solves
  <2> HIDE DEF D, R
  <2> QED BY <1>5, <2>1, <2>2
<1>7. \A p \in D : Clean[p] = IF p = <<>> THEN <<>> ELSE CleanStep(Clean[Front(p)], p)
  BY <1>4
<1>8. <<>> \in D
  OBVIOUS
<1> HIDE DEF Eq
<1> QED BY <1>6, <1>7, <1>8

\* A path without ".." is clean.
LEMMA CleanPlain ==
    ASSUME NEW p \in Seq(Names)
    PROVE  Clean[p] = p
<1> DEFINE Bad == {q \in Seq(Names) : Clean[q] # q}
           Lens == {Len(q) : q \in Bad}
<1>1. Bad = {}
  <2> SUFFICES ASSUME Bad # {} PROVE FALSE
    OBVIOUS
  <2>1. Lens \in SUBSET Nat /\ Lens # {}
    <3>1. \A q \in Bad : Len(q) \in Nat
      OBVIOUS
    <3> HIDE DEF Bad
    <3> QED BY <3>1
  <2>2. PICK l \in Lens : \A n \in Lens : l <= n
    BY <2>1, LeastNat
  <2>3. PICK q \in Bad : Len(q) = l
    OBVIOUS
  <2>4. q \in Seq(Names) /\ q # <<>> /\ Clean[q] # q
    BY <2>3, CleanSolves
  <2>5. Front(q) \in Bad => Len(Front(q)) \in Lens
    OBVIOUS
  <2>6. Front(q) \in Seq(Names) \ Bad => Clean[Front(q)] = Front(q)
    OBVIOUS
  <2> HIDE DEF Bad, Lens
  <2>7. /\ Front(q) \in Seq(Names) /\ Last(q) \in Names
        /\ Len(Front(q)) = Len(q) - 1 /\ Len(q) \in Nat /\ q = Append(Front(q), Last(q))
    BY <2>4, FrontShorter
  <2>8. Clean[Front(q)] = Front(q)
    BY <2>2, <2>3, <2>5, <2>6, <2>7
  <2>9. Clean[q] = CleanStep(Front(q), q) /\ Last(q) # ".."
    BY <2>4, <2>7, <2>8, CleanSolves, NamesAreElements, TextAssumption
  <2> QED BY <2>4, <2>7, <2>9 DEF CleanStep
<1> QED BY <1>1

\* The last element of a path that continues another.
LEMMA FrontOfConcat ==
    ASSUME NEW S, NEW a \in Seq(S), NEW y \in Seq(S), y # <<>>
    PROVE  /\ a \o y \in Seq(S) /\ a \o y # <<>>
           /\ Front(a \o y) = a \o Front(y) /\ Last(a \o y) = Last(y)
<1>1. /\ a \o y \in Seq(S) /\ Len(a \o y) = Len(a) + Len(y)
      /\ Len(a) \in Nat /\ Len(y) \in Nat /\ Len(y) >= 1
  OBVIOUS
<1>2. a \o y # <<>>
  BY <1>1
<1>3. Last(a \o y) = Last(y)
  BY <1>1 DEF Last
<1>4. Front(y) \in Seq(S) /\ Len(Front(y)) = Len(y) - 1 /\ \A i \in 1..Len(y) - 1 : Front(y)[i] = y[i]
  BY FrontShorter DEF Front
<1>5. Front(a \o y) = a \o Front(y)
  <2> DEFINE z == a \o y
             f == Front(y)
             g == Front(z)
             h == a \o f
  <2>0. /\ z \in Seq(S) /\ z # <<>> /\ Len(z) = Len(a) + Len(y)
        /\ \A i \in 1..Len(a) : z[i] = a[i]
        /\ \A i \in Len(a) + 1..Len(a) + Len(y) - 1 : z[i] = y[i - Len(a)]
    BY <1>1, <1>2
  <2>1. g \in Seq(S) /\ Len(g) = Len(z) - 1
    <3> HIDE DEF z
    <3> QED BY <2>0, FrontShorter
  <2>2. \A i \in 1..Len(z) - 1 : g[i] = z[i]
    <3> HIDE DEF z
    <3> QED BY DEF Front
  <2>3. /\ f \in Seq(S) /\ Len(f) = Len(y) - 1
    BY <1>4
  <2>4. /\ h \in Seq(S) /\ Len(h) = Len(a) + Len(f)
        /\ \A i \in 1..Len(a) : h[i] = a[i]
        /\ \A i \in Len(a) + 1..Len(a) + Len(f) : h[i] = f[i - Len(a)]
    <3> HIDE DEF f
    <3> QED BY <2>3
  <2>5. \A i \in 1..Len(y) - 1 : f[i] = y[i]
    BY <1>4
  <2> HIDE DEF f, g, h, z
  <2>6. ASSUME NEW i \in 1..Len(g) PROVE g[i] = h[i]
    <3>1. CASE i <= Len(a)
      BY <1>1, <2>0, <2>1, <2>2, <2>3, <2>4, <3>1
    <3>2. CASE i > Len(a)
      <4>1. i - Len(a) \in 1..Len(y) - 1 /\ i \in Len(a) + 1..Len(a) + Len(y) - 1 /\ i \in 1..Len(z) - 1
        BY <1>1, <2>0, <2>1, <3>2
      <4> QED BY <2>0, <2>2, <2>3, <2>4, <2>5, <4>1
    <3> QED BY <1>1, <2>1, <3>1, <3>2
  <2>7. Len(g) = Len(h)
    BY <1>1, <2>0, <2>1, <2>3, <2>4
  <2>8. g = h
    BY <2>1, <2>4, <2>6, <2>7
  <2> QED BY <2>8 DEF f, g, h, z
<1> QED BY <1>1, <1>2, <1>3, <1>5

\* What follows is made clean whatever the spelling of what it follows.
LEMMA CleanAfter ==
    ASSUME NEW a \in Seq(Elements), NEW b \in Seq(Elements), Clean[a] = Clean[b],
           NEW y \in Seq(Elements)
    PROVE  Clean[a \o y] = Clean[b \o y]
<1> DEFINE Bad == {q \in Seq(Elements) : Clean[a \o q] # Clean[b \o q]}
           Lens == {Len(q) : q \in Bad}
<1>1. Bad = {}
  <2> SUFFICES ASSUME Bad # {} PROVE FALSE
    OBVIOUS
  <2>1. Lens \in SUBSET Nat /\ Lens # {}
    <3>1. \A q \in Bad : Len(q) \in Nat
      OBVIOUS
    <3> HIDE DEF Bad
    <3> QED BY <3>1
  <2>2. PICK l \in Lens : \A n \in Lens : l <= n
    BY <2>1, LeastNat
  <2>3. PICK q \in Bad : Len(q) = l
    OBVIOUS
  <2>4. q \in Seq(Elements) /\ Clean[a \o q] # Clean[b \o q]
    BY <2>3
  <2>5. Front(q) \in Bad => Len(Front(q)) \in Lens
    OBVIOUS
  <2>6. Front(q) \in Seq(Elements) \ Bad => Clean[a \o Front(q)] = Clean[b \o Front(q)]
    OBVIOUS
  <2> HIDE DEF Bad, Lens
  <2>0. q # <<>>
    <3>1. a \o <<>> = a /\ b \o <<>> = b
      OBVIOUS
    <3> QED BY <2>4, <3>1
  <2>7. Front(q) \in Seq(Elements) /\ Len(Front(q)) = Len(q) - 1 /\ Len(q) \in Nat
    <3>1. q \in Seq(Elements) /\ q # <<>>
      BY <2>0, <2>4
    <3> HIDE <2>0, <2>4
    <3> QED BY <3>1, FrontShorter
  <2>8. Clean[a \o Front(q)] = Clean[b \o Front(q)]
    BY <2>2, <2>3, <2>5, <2>6, <2>7
  <2>9. /\ a \o q \in Seq(Elements) /\ a \o q # <<>>
        /\ Front(a \o q) = a \o Front(q) /\ Last(a \o q) = Last(q)
    BY <2>0, <2>4, FrontOfConcat
  <2>10. /\ b \o q \in Seq(Elements) /\ b \o q # <<>>
         /\ Front(b \o q) = b \o Front(q) /\ Last(b \o q) = Last(q)
    BY <2>0, <2>4, FrontOfConcat
  <2>11. /\ Clean[a \o q] = CleanStep(Clean[a \o Front(q)], a \o q)
         /\ Clean[b \o q] = CleanStep(Clean[b \o Front(q)], b \o q)
    BY <2>9, <2>10, CleanSolves
  <2> QED BY <2>4, <2>8, <2>9, <2>10, <2>11 DEF CleanStep
<1> QED BY <1>1

\* A tidy text goes up, or has no "..".
LEMMA TidyCases ==
    ASSUME NEW x \in Seq(Elements), Tidy(x), x # <<>>
    PROVE  /\ Head(x) = ".." => Tidy(Tail(x))
           /\ Head(x) # ".." => x \in Seq(Names)
<1>1. /\ Len(x) \in Nat /\ Len(x) >= 1 /\ Head(x) = x[1]
      /\ Len(Tail(x)) = Len(x) - 1 /\ \A i \in 1..Len(x) - 1 : Tail(x)[i] = x[i + 1]
      /\ \A i \in 1..Len(x) : x[i] \in Elements
  OBVIOUS
<1>2. Tidy(Tail(x))
  <2> SUFFICES ASSUME NEW i \in 1..Len(Tail(x)), NEW j \in 1..Len(Tail(x)), i < j, Tail(x)[j] = ".."
               PROVE  Tail(x)[i] = ".."
    BY DEF Tidy
  <2>1. i + 1 \in 1..Len(x) /\ j + 1 \in 1..Len(x) /\ i + 1 < j + 1
    BY <1>1
  <2>2. x[j + 1] = ".."
    BY <1>1
  <2>3. x[i + 1] = ".."
    BY <2>1, <2>2 DEF Tidy
  <2> QED BY <1>1, <2>3
<1>3. ASSUME Head(x) # ".." PROVE x \in Seq(Names)
  <2>1. ASSUME NEW j \in 1..Len(x) PROVE x[j] \in Names
    <3>1. x[j] # ".."
      BY <1>1, <1>3 DEF Tidy
    <3> QED BY <1>1, <3>1 DEF Elements
  <2> QED BY <2>1
<1> QED BY <1>2, <1>3

\* What follows a text that goes up first is tidy, if it does not go up itself.
LEMMA TidyThenNames ==
    ASSUME NEW x \in Seq(Elements), Tidy(x), NEW y \in Seq(Names)
    PROVE  Tidy(x \o y)
<1> SUFFICES ASSUME NEW i \in 1..Len(x \o y), NEW j \in 1..Len(x \o y), i < j, (x \o y)[j] = ".."
             PROVE  (x \o y)[i] = ".."
  BY DEF Tidy
<1>1. /\ Len(x) \in Nat /\ Len(y) \in Nat /\ y \in Seq(Elements)
      /\ Len(x \o y) = Len(x) + Len(y)
  BY NamesAreElements
<1>2. j <= Len(x)
  <2> SUFFICES ASSUME j > Len(x) PROVE FALSE
    BY <1>1
  <2>1. (x \o y)[j] = y[j - Len(x)] /\ j - Len(x) \in 1..Len(y)
    BY <1>1
  <2> QED BY <2>1, TextAssumption
<1>3. i \in 1..Len(x) /\ j \in 1..Len(x) /\ (x \o y)[i] = x[i] /\ (x \o y)[j] = x[j]
  BY <1>1, <1>2
<1> QED BY <1>3 DEF Tidy

\* The textual ".." of the walk and the one of path resolution agree on a tidy
\* text, seen from a directory spelled without links.
CleanAgrees(x) ==
    Tidy(x) => \A f \in Seq(Names) : \A k \in Nat : DirAt[f] \in Dirs =>
                 Resolve[Stage(x, f, k)] = Resolve[Stage(Clean[f \o x], <<>>, k)]

\* One step of the induction.
LEMMA CleanAgreesStep ==
    ASSUME IsTree(tree), NEW x \in Seq(Elements), x # <<>> => CleanAgrees(Tail(x))
    PROVE  CleanAgrees(x)
<1> SUFFICES ASSUME Tidy(x), NEW f \in Seq(Names), NEW k \in Nat, DirAt[f] \in Dirs
             PROVE  Resolve[Stage(x, f, k)] = Resolve[Stage(Clean[f \o x], <<>>, k)]
  BY DEF CleanAgrees
<1>1. CASE x \in Seq(Names)
  <2>1. f \o x \in Seq(Names)
    BY <1>1
  <2>2. Clean[f \o x] = f \o x
    BY <2>1, CleanPlain
  <2> QED BY <1>1, <2>2, FromDirectory
<1>2. CASE x \notin Seq(Names)
  <2>1. x # <<>>
    BY <1>2, NamesAreElements
  <2>2. Head(x) = ".." /\ Tidy(Tail(x))
    BY <1>2, <2>1, TidyCases
  <2>3. /\ Tail(x) \in Seq(Elements) /\ f \in Seq(Elements) /\ <<"..">> \in Seq(Elements)
        /\ x = <<"..">> \o Tail(x)
    <3>1. Tail(x) \in Seq(Elements) /\ f \in Seq(Elements) /\ <<"..">> \in Seq(Elements)
      BY <2>1, NamesAreElements DEF Elements
    <3>2. x = <<"..">> \o Tail(x)
      BY <2>1, <2>2, <3>1
    <3> QED BY <3>1, <3>2
  <2> DEFINE s == Stage(x, f, k)
             t == Stage(Tail(x), Parent(f), k)
  <2>4. s \in Stages /\ s.rest = x /\ s.done = f /\ s.links = k
    BY DEF Stage, Stages, Elements
  <2>5. t \in Stages
    BY <2>3, ParentNames DEF Stage, Stages, Elements
  <2>6. ~Over(s) /\ Onward(s) = t
    <3> HIDE DEF s
    <3> QED BY <2>1, <2>2, <2>4 DEF Over, Stuck, Onward
  <2>7. Resolve[s] = Resolve[t]
    BY <2>4, <2>6, ResolveSolves
  <2>8. Parent(f) \in Seq(Names) /\ DirAt[Parent(f)] \in Dirs
    <3>1. DirAt[f] # Absent
      BY TreeAssumption DEF Dirs
    <3> QED BY <3>1, DirAtParent
  <2>9. Resolve[t] = Resolve[Stage(Clean[Parent(f) \o Tail(x)], <<>>, k)]
    BY <2>1, <2>2, <2>8 DEF CleanAgrees
  <2>10. Clean[f \o x] = Clean[Parent(f) \o Tail(x)]
    <3> DEFINE up == f \o <<"..">>
    <3>1. up \in Seq(Elements) /\ up # <<>> /\ Front(up) = f /\ Last(up) = ".."
      <4>1. f \o <<"..">> = Append(f, "..")
        BY <2>3
      <4> QED BY <2>3, <4>1 DEF Front, Last
    <3> HIDE DEF up
    <3>2. Clean[up] = Parent(f)
      <4>1. Clean[up] = CleanStep(Clean[f], up) /\ Clean[f] = f
        BY <3>1, CleanSolves, CleanPlain
      <4> QED BY <3>1, <4>1 DEF CleanStep
    <3>3. Clean[Parent(f)] = Parent(f) /\ Parent(f) \in Seq(Elements)
      BY <2>8, CleanPlain, NamesAreElements
    <3>4. Clean[up \o Tail(x)] = Clean[Parent(f) \o Tail(x)]
      <4> DEFINE par == Parent(f)
                 y == Tail(x)
      <4>1. Clean[up] = Clean[par] /\ par \in Seq(Elements) /\ y \in Seq(Elements)
        BY <2>3, <3>2, <3>3
      <4> HIDE DEF par, y
      <4>2. Clean[up \o y] = Clean[par \o y]
        BY <3>1, <4>1, CleanAfter
      <4> QED BY <4>2 DEF par, y
    <3>5. up \o Tail(x) = f \o x
      BY <2>3, ConcatAssoc DEF up
    <3> QED BY <3>4, <3>5
  <2> QED BY <2>7, <2>9, <2>10
<1> QED BY <1>1, <1>2

\* A link with a tidy text leads where the walk says, spelled from "/".
LEMMA CleanTidy ==
    ASSUME IsTree(tree), NEW x \in Seq(Elements), Tidy(x),
           NEW f \in Seq(Names), NEW k \in Nat, DirAt[f] \in Dirs
    PROVE  Resolve[Stage(x, f, k)] = Resolve[Stage(Clean[f \o x], <<>>, k)]
<1> DEFINE Bad == {q \in Seq(Elements) : ~CleanAgrees(q)}
           Lens == {Len(q) : q \in Bad}
<1>1. Bad = {}
  <2> SUFFICES ASSUME Bad # {} PROVE FALSE
    OBVIOUS
  <2>1. Lens \in SUBSET Nat /\ Lens # {}
    <3>1. \A q \in Bad : Len(q) \in Nat
      OBVIOUS
    <3> HIDE DEF Bad
    <3> QED BY <3>1
  <2>2. PICK l \in Lens : \A n \in Lens : l <= n
    BY <2>1, LeastNat
  <2>3. PICK q \in Bad : Len(q) = l
    OBVIOUS
  <2>4. q \in Seq(Elements) /\ ~CleanAgrees(q)
    BY <2>3
  <2>5. q # <<>> /\ ~CleanAgrees(Tail(q))
    BY <2>4, CleanAgreesStep
  <2>6. Tail(q) \in Seq(Elements) /\ Len(Tail(q)) = Len(q) - 1 /\ Len(q) \in Nat
    BY <2>4, <2>5
  <2>7. Tail(q) \in Bad /\ Len(Tail(q)) \in Lens
    BY <2>5, <2>6
  <2> HIDE DEF Bad, Lens
  <2> QED BY <2>2, <2>3, <2>6, <2>7
<1> QED BY <1>1 DEF CleanAgrees

-----------------------------------------------------------------------------
(* EvalSymlinks, Lstat and resolveExisting.                                *)

\* Where a path starts to be resolved.
LEMMA StartOf ==
    ASSUME NEW p \in Seq(Names), NEW k \in Nat
    PROVE  /\ Stage(p, <<>>, k) \in Stages
           /\ Stage(p, <<>>, k).rest = p /\ Stage(p, <<>>, k).done = <<>>
           /\ Stage(p, <<>>, k).links = k
BY NamesAreElements DEF Stage, Stages, Elements

\* What EvalSymlinks returns.
LEMMA EvalTypes ==
    ASSUME IsTree(tree), NEW p \in Seq(Names)
    PROVE  /\ EvalSymlinks(p).ok \in BOOLEAN /\ EvalSymlinks(p).path \in Seq(Names)
           /\ EvalSymlinks(p).links \in Nat
           /\ EvalSymlinks(p).ok => Stands(EvalSymlinks(p).path)
<1> DEFINE s == Stage(p, <<>>, 0)
<1>1. s \in Stages /\ s.done = <<>>
  BY StartOf
<1>2. Stands(<<>>)
  BY DirAtSolves, TextAssumption DEF Stands, Dirs, Links
<1> HIDE DEF s
<1>3. Resolve[s] \in Outcomes /\ (Resolve[s].ok => Stands(Resolve[s].path))
  BY <1>1, <1>2, ResolveSolves, ResolvedStands
<1> QED BY <1>3 DEF EvalSymlinks, Outcomes, s

\* A path in two parts, from its start.
LEMMA EvalSplits ==
    ASSUME IsTree(tree), NEW a \in Seq(Names), NEW b \in Seq(Names), EvalSymlinks(a).ok
    PROVE  LET e == EvalSymlinks(a)  w == EvalSymlinks(a \o b) IN
           /\ b = <<>> \/ DirAt[e.path] \in Dirs => w = Resolve[Stage(b, e.path, e.links)]
           /\ b # <<>> /\ DirAt[e.path] \notin Dirs => ~w.ok /\ w.links = e.links
<1> DEFINE s == Stage(a, <<>>, 0)
<1>1. s \in Stages /\ s.rest = a /\ s.done = <<>> /\ s.links = 0
  BY StartOf
<1>2. With(s, b) = Stage(a \o b, <<>>, 0)
  BY <1>1 DEF With
<1> HIDE DEF s
<1>3. Splits(s, b)
  BY <1>1, Compose
<1> QED BY <1>2, <1>3 DEF Splits, After, EvalSymlinks, s

\* What does not resolve does not with more behind it.
LEMMA EvalFails ==
    ASSUME IsTree(tree), NEW a \in Seq(Names), NEW b \in Seq(Names), ~EvalSymlinks(a).ok
    PROVE  EvalSymlinks(a \o b) = EvalSymlinks(a)
<1> DEFINE s == Stage(a, <<>>, 0)
<1>1. s \in Stages /\ s.rest = a /\ s.done = <<>> /\ s.links = 0
  BY StartOf
<1>2. With(s, b) = Stage(a \o b, <<>>, 0)
  BY <1>1 DEF With
<1> HIDE DEF s
<1>3. Splits(s, b)
  BY <1>1, Compose
<1> QED BY <1>2, <1>3 DEF Splits, EvalSymlinks, s

\* A spelling without links is returned as it is.
LEMMA EvalStraight ==
    ASSUME IsTree(tree), NEW p \in Seq(Names), Stands(p)
    PROVE  /\ EvalSymlinks(p).ok /\ EvalSymlinks(p).path = p
           /\ EvalSymlinks(p).links = 0
BY ResolvesStraight DEF EvalSymlinks

\* A path in two parts.
LEMMA CutInTwo ==
    ASSUME NEW S, NEW p \in Seq(S), NEW k \in 0..Len(p)
    PROVE  LET a == SubSeq(p, 1, k)  b == SubSeq(p, k + 1, Len(p)) IN
           /\ a \in Seq(S) /\ Len(a) = k /\ b \in Seq(S) /\ Len(b) = Len(p) - k
           /\ p = a \o b
<1> DEFINE a == SubSeq(p, 1, k)
           b == SubSeq(p, k + 1, Len(p))
<1>0. Len(p) \in Nat /\ k \in Nat /\ k <= Len(p)
  OBVIOUS
<1>1. a \in Seq(S) /\ Len(a) = k /\ \A i \in 1..k : a[i] = p[i]
  BY <1>0
<1>2. b \in Seq(S) /\ Len(b) = Len(p) - k /\ \A i \in 1..Len(p) - k : b[i] = p[k + i]
  BY <1>0
<1> HIDE DEF a, b
<1> DEFINE c == a \o b
<1>3. c \in Seq(S) /\ Len(c) = Len(a) + Len(b)
  <2>1. a \in Seq(S) /\ b \in Seq(S)
    BY <1>1, <1>2
  <2> QED BY <2>1
<1>4. Len(c) = Len(p)
  BY <1>0, <1>1, <1>2, <1>3
<1>5. ASSUME NEW i \in 1..Len(p) PROVE c[i] = p[i]
  <2>1. CASE i <= k
    BY <1>0, <1>1, <1>2, <2>1
  <2>2. CASE i > k
    <3>1. i - k \in 1..Len(p) - k /\ k + (i - k) = i
      BY <1>0, <2>2
    <3>2. c[i] = b[i - k]
      BY <1>0, <1>1, <1>2, <2>2
    <3> QED BY <1>2, <3>1, <3>2
  <2>3. i \in Nat
    OBVIOUS
  <2> HIDE DEF c
  <2> QED BY <1>0, <2>1, <2>2, <2>3
<1> HIDE DEF c
<1>6. c = p
  BY <1>3, <1>4, <1>5
<1> QED BY <1>1, <1>2, <1>6 DEF a, b, c

\* Where resolveExisting cuts a path.
CutAt(p, a, b) ==
    /\ p = a \o b /\ EvalSymlinks(a).ok
    /\ resolveExisting(p) = EvalSymlinks(a).path \o b
    /\ b # <<>> => ~EvalSymlinks(a \o <<Head(b)>>).ok

\* resolveExisting cuts a path somewhere.
LEMMA CutSomewhere ==
    ASSUME IsTree(tree), NEW p \in Seq(Names)
    PROVE  /\ \E a, b \in Seq(Names) : CutAt(p, a, b) /\ (EvalSymlinks(p).ok => b = <<>>)
           /\ resolveExisting(p) \in Seq(Names)
<1> DEFINE Resolves(n) == EvalSymlinks(SubSeq(p, 1, n)).ok
           Deepest(n) == Resolves(n) /\ \A m \in n + 1..Len(p) : ~Resolves(m)
           k == CHOOSE n \in 0..Len(p) : Deepest(n)
<1>0. Len(p) \in Nat
  OBVIOUS
<1>1. \E n \in 0..Len(p) : Deepest(n)
  <2> DEFINE S == {i \in 0..Len(p) : Resolves(Len(p) - i)}
  <2>1. Len(p) \in S
    <3>1. SubSeq(p, 1, 0) = <<>> /\ Len(p) - Len(p) = 0
      BY <1>0
    <3>2. Stands(<<>>)
      BY DirAtSolves, TextAssumption DEF Stands, Dirs, Links
    <3>3. EvalSymlinks(<<>>).ok
      BY <3>2, NamesAreElements, EvalStraight
    <3>4. Resolves(Len(p) - Len(p))
      BY <3>1, <3>3
    <3> HIDE DEF Resolves
    <3> QED BY <1>0, <3>4
  <2>2. S \in SUBSET Nat /\ S # {}
    BY <1>0, <2>1
  <2> HIDE DEF Resolves
  <2>3. PICK i \in S : \A j \in S : i <= j
    BY <2>2, LeastNat
  <2>4. i \in 0..Len(p) /\ Len(p) - i \in 0..Len(p) /\ Resolves(Len(p) - i)
    BY <1>0, <2>3
  <2>5. ASSUME NEW m \in Len(p) - i + 1..Len(p) PROVE ~Resolves(m)
    <3>1. Len(p) - m \in 0..Len(p) /\ ~(i <= Len(p) - m) /\ Len(p) - (Len(p) - m) = m
      BY <1>0, <2>4
    <3> QED BY <2>3, <3>1
  <2> QED BY <2>4, <2>5
<1> HIDE DEF Resolves
<1>2. k \in 0..Len(p) /\ Resolves(k) /\ \A m \in k + 1..Len(p) : ~Resolves(m)
  BY <1>1
<1> DEFINE a == SubSeq(p, 1, k)
           b == SubSeq(p, k + 1, Len(p))
<1>3. resolveExisting(p) = EvalSymlinks(a).path \o b
  BY DEF resolveExisting, Resolves
<1> HIDE DEF k
<1>4. a \in Seq(Names) /\ b \in Seq(Names) /\ p = a \o b /\ Len(b) = Len(p) - k
  <2>1. k \in 0..Len(p)
    BY <1>2
  <2> QED BY <2>1, CutInTwo
<1>5. EvalSymlinks(a).ok
  BY <1>2 DEF Resolves
<1>6. ASSUME b # <<>> PROVE ~EvalSymlinks(a \o <<Head(b)>>).ok /\ ~EvalSymlinks(p).ok
  <2>1. k + 1 \in k + 1..Len(p) /\ Len(p) \in k + 1..Len(p)
    BY <1>0, <1>2, <1>4, <1>6
  <2>2. SubSeq(p, 1, k + 1) = a \o <<Head(b)>>
    BY <1>0, <1>2, <1>4, <2>1
  <2>3. SubSeq(p, 1, Len(p)) = p
    OBVIOUS
  <2>4. ~Resolves(k + 1) /\ ~Resolves(Len(p))
    BY <1>2, <2>1
  <2> QED BY <2>2, <2>3, <2>4 DEF Resolves
<1>7. resolveExisting(p) \in Seq(Names)
  <2>1. EvalSymlinks(a).path \in Seq(Names) /\ b \in Seq(Names)
    BY <1>4, EvalTypes
  <2> HIDE DEF a, b
  <2>2. EvalSymlinks(a).path \o b \in Seq(Names)
    BY <2>1
  <2> QED BY <1>3, <2>2
<1> HIDE DEF a, b
<1> QED BY <1>3, <1>4, <1>5, <1>6, <1>7 DEF CutAt

\* What is left of a path after its links are resolved resolves as it did.
LEMMA ExistingResolves ==
    ASSUME IsTree(tree), NEW p \in Seq(Names)
    PROVE  EvalSymlinks(p).ok => resolveExisting(p) = EvalSymlinks(p).path
<1>1. PICK a, b \in Seq(Names) : CutAt(p, a, b) /\ (EvalSymlinks(p).ok => b = <<>>)
  BY CutSomewhere
<1> SUFFICES ASSUME EvalSymlinks(p).ok PROVE resolveExisting(p) = EvalSymlinks(p).path
  OBVIOUS
<1>2. p = a /\ resolveExisting(p) = EvalSymlinks(a).path
  BY <1>1, EvalTypes DEF CutAt
<1> QED BY <1>2

\* What resolveExisting returns resolves as the path does.
LEMMA ExistingAgrees ==
    ASSUME IsTree(tree), NEW p \in Seq(Names), ~GaveUp(EvalSymlinks(p))
    PROVE  LET e == EvalSymlinks(p)  g == EvalSymlinks(resolveExisting(p)) IN
           g.ok = e.ok /\ (e.ok => g.path = e.path) /\ g.links <= e.links
<1>1. PICK a, b \in Seq(Names) : CutAt(p, a, b)
  BY CutSomewhere
<1> DEFINE e == EvalSymlinks(p)
           g == EvalSymlinks(resolveExisting(p))
           c == EvalSymlinks(a)
<1>2. p = a \o b /\ c.ok /\ resolveExisting(p) = c.path \o b
  BY <1>1 DEF CutAt
<1>3. c.path \in Seq(Names) /\ c.links \in Nat /\ Stands(c.path)
  BY <1>2, EvalTypes
<1>4. EvalSymlinks(c.path).ok /\ EvalSymlinks(c.path).path = c.path /\ EvalSymlinks(c.path).links = 0
  BY <1>3, EvalStraight
<1>5. /\ b = <<>> \/ DirAt[c.path] \in Dirs => e = Resolve[Stage(b, c.path, c.links)]
      /\ b # <<>> /\ DirAt[c.path] \notin Dirs => ~e.ok /\ e.links = c.links
  BY <1>2, EvalSplits
<1>6. /\ b = <<>> \/ DirAt[c.path] \in Dirs => g = Resolve[Stage(b, c.path, 0)]
      /\ b # <<>> /\ DirAt[c.path] \notin Dirs => ~g.ok /\ g.links = 0
  <2> DEFINE q == c.path
  <2>1. q \in Seq(Names) /\ EvalSymlinks(q).ok /\ EvalSymlinks(q).path = q /\ EvalSymlinks(q).links = 0
    BY <1>3, <1>4
  <2> HIDE DEF q
  <2>2. /\ b = <<>> \/ DirAt[q] \in Dirs => EvalSymlinks(q \o b) = Resolve[Stage(b, q, 0)]
        /\ b # <<>> /\ DirAt[q] \notin Dirs =>
             ~EvalSymlinks(q \o b).ok /\ EvalSymlinks(q \o b).links = 0
    BY <2>1, EvalSplits
  <2> QED BY <1>2, <2>2 DEF q
<1>7. CASE b = <<>> \/ DirAt[c.path] \in Dirs
  <2> DEFINE s == Stage(b, c.path, c.links)
  <2>1. s \in Stages /\ s.links = c.links /\ Short(s, c.links) = Stage(b, c.path, 0)
    BY <1>3, NamesAreElements DEF Stage, Stages, Elements, Short
  <2>2. ~GaveUp(Resolve[s])
    BY <1>5, <1>7
  <2>3. Same(Resolve[Short(s, c.links)], Resolve[s], c.links)
    <3> HIDE DEF s, c
    <3> QED BY <1>3, <2>1, <2>2, Fewer
  <2>4. Same(g, e, c.links)
    BY <1>5, <1>6, <1>7, <2>1, <2>3
  <2>5. e.links \in Nat
    BY EvalTypes
  <2> HIDE DEF e, g, c
  <2>6. g.ok = e.ok /\ g.path = e.path /\ g.links <= e.links
    BY <1>3, <2>4, <2>5 DEF Same
  <2> QED BY <2>6 DEF e, g
<1>8. CASE ~(b = <<>> \/ DirAt[c.path] \in Dirs)
  <2>1. ~e.ok /\ ~g.ok /\ g.links = 0 /\ e.links \in Nat
    BY <1>3, <1>5, <1>6, <1>8
  <2>2. e.ok \in BOOLEAN /\ g.ok \in BOOLEAN
    BY CutSomewhere, EvalTypes
  <2> HIDE DEF e, g
  <2>3. e.ok = g.ok /\ g.links <= e.links
    BY <2>1, <2>2
  <2> QED BY <2>1, <2>3 DEF e, g
<1> QED BY <1>7, <1>8

\* A path is its first element and the rest.
LEMMA HeadThenTail ==
    ASSUME NEW S, NEW b \in Seq(S), b # <<>>
    PROVE  /\ Head(b) \in S /\ Tail(b) \in Seq(S) /\ <<Head(b)>> \in Seq(S)
           /\ b = <<Head(b)>> \o Tail(b)
OBVIOUS

\* What resolves is there.
LEMMA ResolvesIsThere ==
    ASSUME IsTree(tree), NEW f \in Seq(Names), NEW n \in Names,
           EvalSymlinks(f \o <<n>>).ok
    PROVE  /\ EvalSymlinks(f).ok /\ DirAt[EvalSymlinks(f).path] \in Dirs
           /\ Look(DirAt[EvalSymlinks(f).path], n) # Absent
<1> DEFINE e == EvalSymlinks(f)
           s == Stage(<<n>>, e.path, e.links)
<1>0. <<n>> \in Seq(Names) /\ <<n>> # <<>> /\ <<n>> \in Seq(Elements)
  BY DEF Elements
<1>1. e.ok
  BY <1>0, EvalFails
<1>2. DirAt[e.path] \in Dirs /\ EvalSymlinks(f \o <<n>>) = Resolve[s]
  BY <1>0, <1>1, EvalSplits
<1>3. s \in Stages /\ s.rest = <<n>> /\ s.done = e.path
  <2>1. e.path \in Seq(Names) /\ e.links \in Nat
    BY EvalTypes
  <2> HIDE DEF e
  <2> QED BY <1>0, <2>1 DEF Stage, Stages, Elements
<1>4. ASSUME Look(DirAt[e.path], n) = Absent PROVE FALSE
  <2> HIDE DEF s
  <2>1. Stuck(s)
    BY <1>0, <1>3, <1>4, TextAssumption DEF Stuck, Met
  <2>2. Resolve[s] = Outcome(s)
    BY <1>3, <2>1, ResolveSolves DEF Over
  <2>3. ~Resolve[s].ok
    BY <1>0, <1>3, <2>2, OutcomeFields
  <2> QED BY <1>2, <2>3
<1> QED BY <1>1, <1>2, <1>4

\* The object an entry of a directory stands for.
LEMMA LstatLast ==
    ASSUME NEW f \in Seq(Names), NEW n \in Names
    PROVE  /\ Parent(f \o <<n>>) = f
           /\ Lstat(f \o <<n>>) = IF EvalSymlinks(f).ok THEN Look(DirAt[EvalSymlinks(f).path], n)
                                  ELSE Absent
<1>1. f \o <<n>> = Append(f, n)
  OBVIOUS
<1>2. Append(f, n) # <<>> /\ Front(Append(f, n)) = f /\ Last(Append(f, n)) = n
  BY DEF Front, Last
<1> QED BY <1>1, <1>2 DEF Lstat, Parent

\* So is what path resolution finds once the part of a path that exists is
\* spelled without links, unless resolving what comes before it was given up.
LEMMA ExistingIsThere ==
    ASSUME IsTree(tree), NEW p \in Seq(Names), ~GaveUp(EvalSymlinks(Parent(p))),
           EvalSymlinks(resolveExisting(p)).ok
    PROVE  Lstat(p) # Absent
<1>1. CASE p = <<>>
  BY <1>1, TextAssumption, TreeAssumption DEF Lstat, Dirs
<1>2. CASE p # <<>>
  <2> DEFINE f == Front(p)
             n == Last(p)
  <2>1. f \in Seq(Names) /\ n \in Names /\ p = f \o <<n>> /\ Parent(p) = f
    <3>1. f \in Seq(Names) /\ n \in Names /\ p = Append(f, n)
      BY <1>2, FrontShorter
    <3> HIDE DEF f, n
    <3>2. p = f \o <<n>>
      BY <3>1
    <3> QED BY <1>2, <3>1, <3>2 DEF Parent, f
  <2> HIDE DEF f, n
  <2>2. PICK a, b \in Seq(Names) : CutAt(p, a, b)
    BY CutSomewhere
  <2> DEFINE c == EvalSymlinks(a)
             q == c.path
  <2>3. /\ p = a \o b /\ c.ok /\ resolveExisting(p) = q \o b
        /\ b # <<>> => ~EvalSymlinks(a \o <<Head(b)>>).ok
    BY <2>2 DEF CutAt
  <2>4. q \in Seq(Names) /\ c.links \in Nat /\ Stands(q)
    BY <2>3, EvalTypes
  <2>5. CASE b = <<>>
    <3>1. EvalSymlinks(f \o <<n>>).ok
      <4>1. p = a
        BY <2>3, <2>5
      <4> QED BY <2>1, <2>3, <4>1
    <3> QED BY <2>1, <3>1, ResolvesIsThere, LstatLast
  <2>6. CASE b # <<>>
    <3> DEFINE h == Head(b)
               t == Tail(b)
    <3>1. h \in Names /\ t \in Seq(Names) /\ <<h>> \in Seq(Names) /\ b = <<h>> \o t
      BY <2>6, HeadThenTail
    <3> HIDE DEF h, t, q
    <3>2. a \o b = (a \o <<h>>) \o t /\ q \o b = (q \o <<h>>) \o t
          /\ a \o <<h>> \in Seq(Names) /\ q \o <<h>> \in Seq(Names)
      <4>1. a \o b = (a \o <<h>>) \o t
        BY <3>1, ConcatAssoc
      <4>2. q \o b = (q \o <<h>>) \o t
        <5>1. q \in Seq(Names)
          BY <2>4 DEF q
        <5>2. (q \o <<h>>) \o t = q \o (<<h>> \o t)
          BY <3>1, <5>1, ConcatAssoc
        <5> QED BY <3>1, <5>2
      <4>3. q \in Seq(Names)
        BY <2>4 DEF q
      <4>4. a \o <<h>> \in Seq(Names) /\ q \o <<h>> \in Seq(Names)
        BY <3>1, <4>3
      <4> QED BY <4>1, <4>2, <4>4
    <3>3. EvalSymlinks(q \o <<h>>).ok
      <4>1. EvalSymlinks(q \o b).ok
        BY <2>3 DEF q
      <4>2. EvalSymlinks((q \o <<h>>) \o t).ok
        BY <3>2, <4>1
      <4> QED BY <3>1, <3>2, <4>2, EvalFails
    <3>4. /\ EvalSymlinks(q).ok /\ EvalSymlinks(q).path = q /\ EvalSymlinks(q).links = 0
      BY <2>4, EvalStraight
    <3>5. DirAt[q] \in Dirs /\ Look(DirAt[q], h) # Absent
      BY <2>4, <3>1, <3>3, <3>4, ResolvesIsThere
    <3>6. CASE t = <<>>
      <4>1. p = a \o <<h>>
        BY <2>3, <3>1, <3>2, <3>6
      <4> QED BY <2>3, <3>1, <3>5, <4>1, LstatLast DEF q
    <3>7. CASE t # <<>>
      <4>1. f = (a \o <<h>>) \o Front(t) /\ Front(t) \in Seq(Names)
        <5>1. Front((a \o <<h>>) \o t) = (a \o <<h>>) \o Front(t)
          BY <3>1, <3>2, <3>7, FrontOfConcat
        <5>2. Front(t) \in Seq(Names)
          BY <3>1, <3>7, FrontShorter
        <5> QED BY <2>3, <3>2, <5>1, <5>2 DEF f
      <4>2. ~EvalSymlinks(a \o <<h>>).ok
        BY <2>3, <2>6 DEF h
      <4>3. EvalSymlinks(f) = EvalSymlinks(a \o <<h>>)
        BY <3>2, <4>1, <4>2, EvalFails
      <4> DEFINE s == Stage(<<h>>, q, c.links)
      <4>4. EvalSymlinks(a \o <<h>>) = Resolve[s]
        BY <2>3, <3>1, <3>5, EvalSplits DEF q
      <4>5. EvalSymlinks(q \o <<h>>) = Resolve[Stage(<<h>>, q, 0)]
        <5>1. q \in Seq(Names)
          BY <2>4 DEF q
        <5> DEFINE e == EvalSymlinks(q)
        <5>2. EvalSymlinks(q \o <<h>>) = Resolve[Stage(<<h>>, e.path, e.links)]
          <6>1. DirAt[e.path] \in Dirs /\ e.ok
            BY <3>4, <3>5
          <6> QED BY <3>1, <5>1, <6>1, EvalSplits
        <5> QED BY <3>4, <5>2
      <4>6. s \in Stages /\ s.links = c.links /\ Short(s, c.links) = Stage(<<h>>, q, 0)
        BY <2>4, <3>1, NamesAreElements DEF Stage, Stages, Elements, Short
      <4>7. ~GaveUp(Resolve[s]) /\ ~Resolve[s].ok
        BY <2>1, <4>2, <4>3, <4>4
      <4> HIDE DEF s, c
      <4>8. Same(Resolve[Short(s, c.links)], Resolve[s], c.links)
        BY <2>4, <4>6, <4>7, Fewer
      <4> QED BY <3>3, <4>5, <4>6, <4>7, <4>8 DEF Same
    <3> QED BY <3>6, <3>7
  <2> QED BY <2>5, <2>6
<1> QED BY <1>1, <1>2

-----------------------------------------------------------------------------
(* The root a path is below.                                               *)

\* One outcome is another, after so many links were met before.
Alike(x, e, h) == x.ok = e.ok /\ (e.ok => x.path = e.path) /\ x.links + h <= e.links

SpellingOf(r) == {r.clean, r.resolved}

\* A prefix and what it leaves.
LEMMA Prefix ==
    ASSUME NEW s \in Seq(Names), NEW p \in Seq(Names)
    PROVE  /\ within(s, p) => /\ Len(s) \in 0..Len(p)
                              /\ SubSeq(p, Len(s) + 1, Len(p)) \in Seq(Names)
                              /\ p = s \o SubSeq(p, Len(s) + 1, Len(p))
           /\ within(p, p)
<1>1. ASSUME within(s, p) PROVE Len(s) \in 0..Len(p) /\ SubSeq(p, 1, Len(s)) = s
  <2>1. Len(s) <= Len(p) /\ SubSeq(s, 1, Len(s)) = SubSeq(p, 1, Len(s))
    BY <1>1 DEF within, IsPrefix
  <2>2. SubSeq(s, 1, Len(s)) = s
    OBVIOUS
  <2> QED BY <2>1, <2>2
<1>2. within(p, p)
  BY DEF within, IsPrefix
<1> QED BY <1>1, <1>2, CutInTwo

\* A spelling of a path is that of a root.
LEMMA SpellingTypes ==
    ASSUME NEW p \in Seq(Names), NEW s \in Spellings(p)
    PROVE  /\ s \in Seq(Names) /\ within(s, p)
           /\ \E r \in Roots : s \in SpellingOf(r)
BY RootsAssumption DEF Spellings, SpellingOf

Longest(s, p) == \A t \in Spellings(p) : Len(t) <= Len(s)

\* matchRoot, root by root.
LEMMA MatchForm ==
    ASSUME NEW p \in Seq(Names), NEW at
    PROVE  at \in matchRoot(p) <=>
             \E r \in Roots : \E s \in Spellings(p) \intersect SpellingOf(r) :
               Longest(s, p) /\ at = [root |-> r, rest |-> SubSeq(p, Len(s) + 1, Len(p))]
<1>1. ASSUME at \in matchRoot(p)
      PROVE \E r \in Roots : \E s \in Spellings(p) \intersect SpellingOf(r) :
               Longest(s, p) /\ at = [root |-> r, rest |-> SubSeq(p, Len(s) + 1, Len(p))]
  BY <1>1 DEF matchRoot, Longest, SpellingOf
<1>2. ASSUME NEW r \in Roots, NEW s \in Spellings(p) \intersect SpellingOf(r), Longest(s, p),
             at = [root |-> r, rest |-> SubSeq(p, Len(s) + 1, Len(p))]
      PROVE  at \in matchRoot(p)
  <2>1. <<r, s>> \in {n \in Roots \X Spellings(p) :
               n[2] \in {n[1].clean, n[1].resolved} /\ Longest(n[2], p)}
    BY <1>2 DEF SpellingOf
  <2> QED BY <1>2, <2>1 DEF matchRoot, Longest
<1> QED BY <1>1, <1>2

\* What is matched is a root and the rest of the path.
LEMMA MatchSplits ==
    ASSUME NEW p \in Seq(Names), NEW at \in matchRoot(p)
    PROVE  /\ at.root \in Roots /\ at.rest \in Seq(Names)
           /\ \E s \in Spellings(p) \intersect SpellingOf(at.root) : p = s \o at.rest
<1>1. PICK r \in Roots : \E s \in Spellings(p) \intersect SpellingOf(r) :
               Longest(s, p) /\ at = [root |-> r, rest |-> SubSeq(p, Len(s) + 1, Len(p))]
  BY MatchForm
<1>2. PICK s \in Spellings(p) \intersect SpellingOf(r) :
               Longest(s, p) /\ at = [root |-> r, rest |-> SubSeq(p, Len(s) + 1, Len(p))]
  BY <1>1
<1>3. s \in Seq(Names) /\ within(s, p)
  BY SpellingTypes
<1> QED BY <1>2, <1>3, Prefix

\* A root is matched wherever one is spelled.
LEMMA MatchesWhereSpelled ==
    ASSUME NEW p \in Seq(Names)
    PROVE  matchRoot(p) = {} <=> Spellings(p) = {}
<1>1. ASSUME NEW at \in matchRoot(p) PROVE Spellings(p) # {}
  BY MatchForm
<1>2. ASSUME Spellings(p) # {} PROVE matchRoot(p) # {}
  <2> DEFINE S == {Len(p) - Len(s) : s \in Spellings(p)}
  <2>0. \A s \in Spellings(p) : Len(s) \in Nat /\ Len(p) \in Nat /\ Len(s) <= Len(p)
    BY SpellingTypes, Prefix
  <2>1. S \in SUBSET Nat /\ S # {}
    BY <1>2, <2>0
  <2>2. PICK i \in S : \A j \in S : i <= j
    BY <2>1, LeastNat
  <2>3. PICK s \in Spellings(p) : Len(p) - Len(s) = i
    OBVIOUS
  <2>4. \A t \in Spellings(p) : i <= Len(p) - Len(t)
    BY <2>2
  <2>5. Longest(s, p)
    BY <2>0, <2>3, <2>4 DEF Longest
  <2>6. PICK r \in Roots : s \in SpellingOf(r)
    BY SpellingTypes
  <2>7. [root |-> r, rest |-> SubSeq(p, Len(s) + 1, Len(p))] \in matchRoot(p)
    BY <2>5, <2>6, MatchForm
  <2> QED BY <2>7
<1> QED BY <1>1, <1>2

\* Beneath a root is where one is spelled.
LEMMA InRootsWhereSpelled ==
    ASSUME NEW p \in Seq(Names)
    PROVE  /\ inRoots[p] <=> Spellings(p) # {}
           /\ inRoots[p] \in BOOLEAN
BY DEF inRoots, Spellings

\* Roots spelled alike leave the same rest.
LEMMA OneRest ==
    ASSUME NEW p \in Seq(Names), NEW a \in matchRoot(p), NEW b \in matchRoot(p)
    PROVE  a.rest = b.rest
<1>1. PICK s \in Spellings(p) : Longest(s, p) /\ a.rest = SubSeq(p, Len(s) + 1, Len(p))
  BY MatchForm
<1>2. PICK t \in Spellings(p) : Longest(t, p) /\ b.rest = SubSeq(p, Len(t) + 1, Len(p))
  BY MatchForm
<1>3. Len(s) \in Nat /\ Len(t) \in Nat /\ Len(s) <= Len(t) /\ Len(t) <= Len(s)
  BY <1>1, <1>2, SpellingTypes DEF Longest
<1>4. Len(s) = Len(t)
  BY <1>3
<1> QED BY <1>1, <1>2, <1>4

\* Nothing is left of a root itself.
LEMMA MatchesItself ==
    ASSUME NEW p \in Seq(Names)
    PROVE  (\E at \in matchRoot(p) : at.rest = <<>>) <=> \E r \in Roots : p \in SpellingOf(r)
<1>1. ASSUME NEW at \in matchRoot(p), at.rest = <<>>
      PROVE  \E r \in Roots : p \in SpellingOf(r)
  <2>1. PICK s \in Spellings(p) \intersect SpellingOf(at.root) : p = s \o at.rest
    BY MatchSplits
  <2>2. s \in Seq(Names) /\ at.root \in Roots
    BY SpellingTypes, MatchSplits
  <2>3. s \o <<>> = s
    BY <2>2
  <2> QED BY <1>1, <2>1, <2>2, <2>3
<1>2. ASSUME NEW r \in Roots, p \in SpellingOf(r)
      PROVE  \E at \in matchRoot(p) : at.rest = <<>>
  <2>1. p \in Spellings(p)
    BY <1>2, Prefix DEF Spellings, SpellingOf
  <2>2. Longest(p, p)
    <3>1. \A t \in Spellings(p) : Len(t) \in 0..Len(p)
      BY SpellingTypes, Prefix
    <3> QED BY <3>1 DEF Longest
  <2>3. [root |-> r, rest |-> SubSeq(p, Len(p) + 1, Len(p))] \in matchRoot(p)
    BY <1>2, <2>1, <2>2, MatchForm
  <2>4. SubSeq(p, Len(p) + 1, Len(p)) = <<>>
    OBVIOUS
  <2> QED BY <2>3, <2>4
<1> QED BY <1>1, <1>2

\* A request is for a root itself exactly where it names one.
LEMMA SelfNamesRoot ==
    ASSUME IsTree(tree), NEW p \in Seq(Names)
    PROVE  /\ (\E at \in locate(p) : at.rest = <<>>) <=> NamesRoot(p)
           /\ \A a, b \in locate(p) : a.rest = b.rest
<1>1. resolveExisting(p) \in Seq(Names)
  BY CutSomewhere
<1> DEFINE q == resolveExisting(p)
<1> HIDE DEF q
<1>2. CASE matchRoot(p) # {}
  <2>1. locate(p) = matchRoot(p) /\ Spellings(p) # {}
    BY <1>2, MatchesWhereSpelled DEF locate
  <2>2. NamesRoot(p) <=> \E r \in Roots : p \in SpellingOf(r)
    BY <2>1 DEF NamesRoot, SpellingOf
  <2> QED BY <2>1, <2>2, MatchesItself, OneRest
<1>3. CASE matchRoot(p) = {}
  <2>1. locate(p) = matchRoot(q) /\ Spellings(p) = {}
    BY <1>3, MatchesWhereSpelled DEF locate, q
  <2>2. ~\E r \in Roots : p \in SpellingOf(r)
    BY <1>3, MatchesItself
  <2>3. NamesRoot(p) <=> \E r \in Roots : q \in SpellingOf(r)
    BY <2>1, <2>2 DEF NamesRoot, SpellingOf, q
  <2>4. q \in Seq(Names)
    BY <1>1 DEF q
  <2> QED BY <2>1, <2>3, <2>4, MatchesItself, OneRest
<1> QED BY <1>2, <1>3

\* Where a root is spelled, and what it stands for.
LEMMA RootStands ==
    ASSUME IsTree(tree), RootsStand, NEW r \in Roots, NEW s \in SpellingOf(r)
    PROVE  /\ s \in Seq(Names) /\ r.resolved \in Seq(Names)
           /\ EvalSymlinks(s).ok /\ EvalSymlinks(s).path = r.resolved
           /\ DirAt[r.resolved] = r.dir /\ r.dir \in Dirs
<1>1. /\ r.clean \in Seq(Names) /\ r.resolved \in Seq(Names) /\ r.dir \in Dirs
  BY RootsAssumption
<1>2. /\ EvalSymlinks(r.clean).ok /\ EvalSymlinks(r.clean).path = r.resolved
      /\ DirAt[r.resolved] = r.dir
  BY DEF RootsStand
<1>3. Stands(r.resolved)
  BY <1>1, <1>2 DEF Stands, Dirs, Links
<1>4. EvalSymlinks(r.resolved).ok /\ EvalSymlinks(r.resolved).path = r.resolved
  BY <1>1, <1>3, EvalStraight
<1> QED BY <1>1, <1>2, <1>4 DEF SpellingOf

\* From the root it is opened at, a path resolves as from the start.
LEMMA MatchedAgrees ==
    ASSUME IsTree(tree), RootsStand, NEW p \in Seq(Names), NEW at \in matchRoot(p),
           ~GaveUp(EvalSymlinks(p))
    PROVE  Alike(Resolve[Stage(at.rest, at.root.resolved, 0)], EvalSymlinks(p), 0)
<1>1. PICK s \in Spellings(p) \intersect SpellingOf(at.root) : p = s \o at.rest
  BY MatchSplits
<1> DEFINE r == at.root
           b == at.rest
           e == EvalSymlinks(s)
           t == Stage(b, r.resolved, e.links)
<1>2. r \in Roots /\ b \in Seq(Names) /\ s \in SpellingOf(r)
  BY <1>1, MatchSplits
<1> HIDE DEF r, b
<1>3. /\ s \in Seq(Names) /\ r.resolved \in Seq(Names)
      /\ e.ok /\ e.path = r.resolved /\ DirAt[r.resolved] \in Dirs
  BY <1>2, RootStands
<1>4. e.links \in Nat
  BY <1>3, EvalTypes
<1>5. EvalSymlinks(s \o b) = Resolve[Stage(b, e.path, e.links)]
  BY <1>2, <1>3, EvalSplits
<1>6. EvalSymlinks(p) = Resolve[t]
  BY <1>1, <1>3, <1>5 DEF b
<1> HIDE DEF e
<1>7. t \in Stages /\ t.links = e.links /\ Short(t, e.links) = Stage(b, r.resolved, 0)
  BY <1>2, <1>3, <1>4, NamesAreElements DEF Stage, Stages, Elements, Short
<1> HIDE DEF t
<1>8. Same(Resolve[Stage(b, r.resolved, 0)], Resolve[t], e.links)
  BY <1>4, <1>6, <1>7, Fewer
<1>9. Resolve[t].links \in Nat
  BY <1>7, ResolveSolves DEF Outcomes
<1>10. Resolve[t].links - e.links + 0 <= Resolve[t].links
  BY <1>4, <1>9
<1> QED BY <1>6, <1>8, <1>10 DEF Same, Alike, b, r

\* So does a path from the root it is located at, through a link above it too.
LEMMA LocatedAgrees ==
    ASSUME IsTree(tree), RootsStand, NEW p \in Seq(Names), NEW at \in locate(p),
           ~GaveUp(EvalSymlinks(p))
    PROVE  /\ at.root \in Roots /\ at.rest \in Seq(Names)
           /\ at.root.resolved \in Seq(Names) /\ DirAt[at.root.resolved] = at.root.dir
           /\ Alike(Resolve[Stage(at.rest, at.root.resolved, 0)], EvalSymlinks(p), 0)
<1> DEFINE q == resolveExisting(p)
           g == EvalSymlinks(q)
           e == EvalSymlinks(p)
           x == Resolve[Stage(at.rest, at.root.resolved, 0)]
<1>1. q \in Seq(Names) /\ e.links \in Nat /\ g.links \in Nat
  BY CutSomewhere, EvalTypes
<1>2. g.ok = e.ok /\ (e.ok => g.path = e.path) /\ g.links <= e.links
  BY ExistingAgrees
<1> HIDE DEF q
<1>3. at \in matchRoot(p) \/ at \in matchRoot(q)
  BY DEF locate, q
<1>4. at.root \in Roots /\ at.rest \in Seq(Names)
  BY <1>1, <1>3, MatchSplits
<1>5. at.root.resolved \in Seq(Names) /\ DirAt[at.root.resolved] = at.root.dir
  BY <1>4, RootStands DEF SpellingOf
<1>6. CASE at \in matchRoot(p)
  BY <1>4, <1>5, <1>6, MatchedAgrees
<1>7. CASE at \in matchRoot(q)
  <2>1. ~GaveUp(g)
    <3>1. LibHops \in Nat
      BY BoundsAssumption
    <3> HIDE DEF g, e
    <3> QED BY <1>1, <1>2, <3>1 DEF GaveUp, e
  <2>2. Alike(x, g, 0)
    BY <1>1, <1>7, <2>1, MatchedAgrees
  <2>3. x.links \in Nat
    <3> DEFINE s == Stage(at.rest, at.root.resolved, 0)
    <3>1. s \in Stages
      BY <1>4, <1>5, NamesAreElements DEF Stage, Stages, Elements
    <3> HIDE DEF s
    <3>2. Resolve[s] \in Outcomes
      BY <3>1, ResolveSolves
    <3> QED BY <3>2 DEF Outcomes, s
  <2> HIDE DEF x, g, e
  <2>4. Alike(x, e, 0)
    BY <1>1, <1>2, <2>2, <2>3 DEF Alike
  <2> QED BY <1>4, <1>5, <2>4 DEF x, e
<1> QED BY <1>3, <1>6, <1>7

\* What no root is found for does not resolve to beneath one.
LEMMA NowhereLocated ==
    ASSUME IsTree(tree), NEW p \in Seq(Names), locate(p) = {}, EvalSymlinks(p).ok
    PROVE  ~inRoots[EvalSymlinks(p).path]
<1> DEFINE q == resolveExisting(p)
<1>1. q = EvalSymlinks(p).path /\ q \in Seq(Names)
  BY ExistingResolves, CutSomewhere
<1>2. matchRoot(q) = {}
  BY DEF locate
<1> HIDE DEF q
<1>3. ~inRoots[q]
  BY <1>1, <1>2, MatchesWhereSpelled, InRootsWhereSpelled
<1> QED BY <1>1, <1>3

\* A root that is described is there.
LEMMA RootIsThere ==
    ASSUME IsTree(tree), RootsStand, NEW p \in Seq(Names), NamesRoot(p),
           ~GaveUp(EvalSymlinks(Parent(p)))
    PROVE  Lstat(p) # Absent
<1>1. EvalSymlinks(resolveExisting(p)).ok
  <2>1. CASE \E r \in Roots : p \in SpellingOf(r)
    <3>1. EvalSymlinks(p).ok
      BY <2>1, RootStands
    <3>2. resolveExisting(p) = EvalSymlinks(p).path /\ Stands(EvalSymlinks(p).path)
      BY <3>1, ExistingResolves, EvalTypes
    <3> QED BY <3>2, EvalTypes, EvalStraight
  <2>2. CASE \E r \in Roots : resolveExisting(p) \in SpellingOf(r)
    BY <2>2, RootStands
  <2> QED BY <2>1, <2>2 DEF NamesRoot, SpellingOf
<1> QED BY <1>1, ExistingIsThere

\* "/" can be asked for only where it is a root.
LEMMA TopNamesRoot ==
    ASSUME IsTree(tree), Confined(<<>>)
    PROVE  NamesRoot(<<>>)
<1>1. Stands(<<>>) /\ <<>> \in Seq(Names)
  BY DirAtSolves, TextAssumption DEF Stands, Dirs, Links
<1>2. EvalSymlinks(<<>>).ok /\ EvalSymlinks(<<>>).path = <<>>
  BY <1>1, EvalStraight
<1>3. inRoots[<<>>]
  BY <1>1, <1>2, ExistingResolves DEF Confined
<1>4. PICK s \in Spellings(<<>>) : TRUE
  BY <1>1, <1>3, InRootsWhereSpelled
<1>5. s \in Seq(Names) /\ within(s, <<>>) /\ \E r \in Roots : s \in SpellingOf(r)
  BY <1>1, SpellingTypes
<1>6. s = <<>>
  <2>1. Len(s) \in 0..Len(<<>>)
    BY <1>1, <1>5, Prefix
  <2> QED BY <1>5, <2>1
<1> QED BY <1>5, <1>6 DEF NamesRoot, SpellingOf

\* Confine admits what resolves to beneath a root.
LEMMA ReachedIsConfined ==
    ASSUME IsTree(tree), NEW p \in Seq(Names), EvalSymlinks(p).ok,
           inRoots[EvalSymlinks(p).path]
    PROVE  Confined(p)
BY ExistingResolves DEF Confined, Dangles

-----------------------------------------------------------------------------
(* What has been done so far is what path resolution asks for.             *)

\* What path resolution makes of what the walk looks for.
Aimed == EvalSymlinks(Aim)

Premise ==
    /\ RootsStand /\ \A l \in Links : Tidy(Text[l].path)
    /\ ~GaveUp(Aimed)

\* What the request was found to ask for.
Chosen(l) ==
    /\ Confined(path)
    /\ l \in {"any", "dir", "self"}
    /\ l = "any" <=> op = "open"
    /\ l = "self" <=> op = "stat" /\ NamesRoot(path)

\* A turn starts with a path that resolves to what was asked for.
TurnAt(l, g, h) ==
    /\ g \in Seq(Names)
    /\ l = "self" => g = path /\ h = 0
    /\ l # "self" => Alike(EvalSymlinks(g), Aimed, h)

\* So does what is left of it, from the directory in hand.
InDirectory(l, d, ph, td, h) ==
    /\ l # "self"
    /\ ph \in Seq(Names) /\ td \in Seq(Names) /\ td # <<>>
    /\ d \in Dirs /\ d = DirAt[ph] /\ inRoots[ph]
    /\ Alike(Resolve[Stage(td, ph, 0)], Aimed, h)

\* The walk ends where path resolution does.
Arrived(l, d, ph) ==
    /\ l # "any" => d \in Dirs
    /\ l # "self" =>
         /\ Aimed.ok /\ Aimed.path = ph /\ inRoots[ph]
         /\ DirAt[ph] = d /\ d \in Objects \ Links

\* Why an element could not be opened.
Missed(l, d, td, f) ==
    LET o == Look(d, Head(td))
        leafy == Len(td) = 1 /\ l = "any" IN
    /\ ~(o \in Objects /\ (Kind[o] = "dir" \/ (leafy /\ Kind[o] # "link")))
    /\ f = CASE o = Absent -> "not_found"
             [] o \in Links /\ leafy -> "loop"
             [] OTHER -> "not_dir"

Entry(l, d, f) ==
    LET o == Look(d, Last(path)) IN
    /\ l = "self" => f = {<<"", "dir">>}
    /\ l # "self" => o # Absent /\ f = {<<Last(path), Kind[o]>>}

Settled(a, d, f) ==
    /\ a = "ok" =>
         /\ Deserved
         /\ CASE op = "open" -> d = Target(path)
              [] op = "list" ->
                   f = {<<n, KindOf(Look(Target(path), n))>> :
                          n \in {m \in Names : Look(Target(path), m) # Absent}}
              [] op = "stat" ->
                   f = IF NamesRoot(path) THEN {<<"", "dir">>}
                       ELSE {<<Last(path), Kind[Lstat(path)]>>}
    /\ Deserved /\ Aimed.links <= MaxHops => a = "ok"

Exact ==
    ~changed /\ Premise =>
      /\ pc \in {"confine", "go"} => hops = 0
      /\ pc = "go" => Confined(path)
      /\ pc \in Holding \union {"root"} => Chosen(leaf)
      /\ pc = "root" => TurnAt(leaf, goal, hops)
      /\ pc \in {"lstat", "open", "again", "readlink"} =>
           InDirectory(leaf, dir, phys, todo, hops)
      /\ pc = "lstat" => Leafy(todo)
      /\ pc = "again" => Missed(leaf, dir, todo, fault)
      /\ pc = "readlink" => Look(dir, Head(todo)) \in Links
      /\ pc \in {"walked", "describe", "sniff", "close"} => Arrived(leaf, dir, phys)
      /\ pc \in {"sniff", "close"} => Entry(leaf, dir, found)
      /\ pc = "done" /\ answer # "cancelled" => Settled(answer, dir, found)

\* The paths and answers of a request do not depend on where it is.
LEMMA Still ==
    ASSUME UNCHANGED <<tree, op, path>>
    PROVE  /\ Aimed' = Aimed /\ (Premise' <=> Premise) /\ (Deserved' <=> Deserved)
           /\ \A l : Chosen(l)' <=> Chosen(l)
           /\ \A l, g, h : TurnAt(l, g, h)' <=> TurnAt(l, g, h)
           /\ \A l, d, ph, td, h : InDirectory(l, d, ph, td, h)' <=> InDirectory(l, d, ph, td, h)
           /\ \A l, d, ph : Arrived(l, d, ph)' <=> Arrived(l, d, ph)
           /\ \A l, d, td, f : Missed(l, d, td, f)' <=> Missed(l, d, td, f)
           /\ \A l, d, f : Entry(l, d, f)' <=> Entry(l, d, f)
           /\ \A a, d, f : Settled(a, d, f)' <=> Settled(a, d, f)
<1>1. DirAt' = DirAt /\ \A d, n : Look(d, n)' = Look(d, n)
  BY DEF DirAt, Look
<1>2. Resolve' = Resolve
  BY <1>1 DEF Resolve, Stuck, Onward, Met, Look
<1>3. Aim' = Aim
  BY DEF Aim
<1>4. \A p : EvalSymlinks(p)' = EvalSymlinks(p)
  BY <1>2 DEF EvalSymlinks
<1>5. \A p : resolveExisting(p)' = resolveExisting(p)
  BY <1>4 DEF resolveExisting
<1>6. \A p : Lstat(p)' = Lstat(p)
  BY <1>1, <1>4 DEF Lstat
<1>7. \A p : Confined(p)' = Confined(p)
  BY <1>4, <1>5, <1>6 DEF Confined, Dangles, danglingTarget
<1>8. \A p : NamesRoot(p)' = NamesRoot(p)
  BY <1>5 DEF NamesRoot
<1>9. Aimed' = Aimed
  BY <1>3, <1>4 DEF Aimed
<1>10. RootsStand' = RootsStand
  BY <1>1, <1>4 DEF RootsStand
<1>11. Premise' <=> Premise
  BY <1>9, <1>10 DEF Premise
<1>12. \A p : Target(p)' = Target(p)
  BY <1>1, <1>4 DEF Target
<1>13. \A p, kind : Reaches(p, kind)' = Reaches(p, kind)
  BY <1>4, <1>12 DEF Reaches
<1>14. Deserved' <=> Deserved
  BY <1>6, <1>7, <1>8, <1>13 DEF Deserved
<1>15. \A l : Chosen(l)' <=> Chosen(l)
  BY <1>7, <1>8 DEF Chosen
<1>16. \A l, g, h : TurnAt(l, g, h)' <=> TurnAt(l, g, h)
  BY <1>4, <1>9 DEF TurnAt
<1>17. \A l, d, ph, td, h : InDirectory(l, d, ph, td, h)' <=> InDirectory(l, d, ph, td, h)
  BY <1>1, <1>2, <1>9 DEF InDirectory
<1>18. \A l, d, ph : Arrived(l, d, ph)' <=> Arrived(l, d, ph)
  BY <1>1, <1>9 DEF Arrived
<1>19. \A l, d, td, f : Missed(l, d, td, f)' <=> Missed(l, d, td, f)
  BY <1>1 DEF Missed
<1>20. \A l, d, f : Entry(l, d, f)' <=> Entry(l, d, f)
  BY <1>1 DEF Entry
<1>21. \A a, d, f : Settled(a, d, f)' <=> Settled(a, d, f)
  BY <1>1, <1>6, <1>8, <1>9, <1>12, <1>14 DEF Settled
<1> QED BY <1>9, <1>11, <1>14, <1>15, <1>16, <1>17, <1>18, <1>19, <1>20, <1>21

\* What the walk has to deliver, in terms of what it is aimed at.
LEMMA DeservedReaches ==
    ASSUME NEW l, Chosen(l), l # "self", Deserved, op \in {"list", "stat", "open"}
    PROVE  /\ Aimed.ok /\ inRoots[Aimed.path]
           /\ Kind[DirAt[Aimed.path]] = (IF l = "any" THEN "file" ELSE "dir")
<1>1. CASE op = "open"
  BY <1>1 DEF Chosen, Deserved, Reaches, Target, Aimed, Aim
<1>2. CASE op = "list"
  BY <1>2 DEF Chosen, Deserved, Reaches, Target, Aimed, Aim
<1>3. CASE op = "stat"
  BY <1>3 DEF Chosen, Deserved, Reaches, Target, Aimed, Aim
<1> QED BY <1>1, <1>2, <1>3

\* What the walk is aimed at, by type.
LEMMA AimedTypes ==
    ASSUME TypeOK
    PROVE  /\ path \in Seq(Names) /\ Aim \in Seq(Names)
           /\ Aimed.ok \in BOOLEAN /\ Aimed.path \in Seq(Names) /\ Aimed.links \in Nat
<1>1. path \in Seq(Names) /\ IsTree(tree)
  BY BoundsAssumption DEF TypeOK
<1>2. Aim \in Seq(Names)
  BY <1>1, ParentNames DEF Aim
<1> QED BY <1>1, <1>2, EvalTypes DEF Aimed

\* The next element, for the walk and for path resolution.
LEMMA MetThere ==
    ASSUME IsTree(tree), NEW l, NEW d, NEW ph, NEW td, NEW h, InDirectory(l, d, ph, td, h)
    PROVE  LET s == Stage(td, ph, 0) IN
           /\ s \in Stages /\ s.rest = td /\ s.done = ph /\ s.links = 0
           /\ Head(td) \in Names /\ Head(td) # ".." /\ Tail(td) \in Seq(Names)
           /\ Met(s) = Look(d, Head(td)) /\ Look(d, Head(td)) \in Things
<1> DEFINE s == Stage(td, ph, 0)
<1>1. /\ ph \in Seq(Names) /\ td \in Seq(Names) /\ td # <<>> /\ d = DirAt[ph]
  BY DEF InDirectory
<1>2. s \in Stages /\ s.rest = td /\ s.done = ph /\ s.links = 0
  BY <1>1, NamesAreElements DEF Stage, Stages, Elements
<1>3. Head(td) \in Names /\ Tail(td) \in Seq(Names)
  BY <1>1
<1> HIDE DEF s
<1>4. Met(s) = Look(d, Head(td))
  BY <1>1, <1>2 DEF Met
<1> QED BY <1>2, <1>3, <1>4, TextAssumption, LookType DEF s

\* Where the walk cannot go on, nothing is found.
LEMMA DeadEnd ==
    ASSUME IsTree(tree), NEW l, NEW d, NEW ph, NEW td, NEW h, InDirectory(l, d, ph, td, h),
           LET o == Look(d, Head(td)) IN
             o = Absent \/ (o \in Objects \ Links /\ Kind[o] # "dir" /\ Tail(td) # <<>>)
    PROVE  ~Aimed.ok
<1> DEFINE s == Stage(td, ph, 0)
<1>1. /\ s \in Stages /\ s.rest = td /\ s.done = ph /\ s.links = 0
      /\ Head(td) # ".." /\ Met(s) = Look(d, Head(td)) /\ td # <<>>
  <2>1. td # <<>>
    BY DEF InDirectory
  <2> QED BY <2>1, MetThere
<1> HIDE DEF s
<1>2. Stuck(s)
  <2>1. \A o \in Objects \ Links : Kind[o] # "link"
    BY DEF Links
  <2> QED BY <1>1, <2>1 DEF Stuck
<1>3. Resolve[s] = Outcome(s)
  BY <1>1, <1>2, ResolveSolves DEF Over
<1>4. ~Resolve[s].ok
  BY <1>1, <1>3, OutcomeFields
<1> QED BY <1>4 DEF InDirectory, Alike, s

\* What is in a directory beneath a root is beneath it.
LEMMA InRootsAppend ==
    ASSUME NEW p \in Seq(Names), NEW n \in Names, inRoots[p]
    PROVE  inRoots[Append(p, n)]
<1>1. PICK r \in Roots : within(r.resolved, p) \/ within(r.clean, p)
  BY DEF inRoots
<1>2. ASSUME NEW s \in Seq(Names), within(s, p) PROVE within(s, Append(p, n))
  <2>1. Len(s) <= Len(p) /\ SubSeq(s, 1, Len(s)) = SubSeq(p, 1, Len(s))
    BY <1>2 DEF within, IsPrefix
  <2>2. SubSeq(Append(p, n), 1, Len(s)) = SubSeq(p, 1, Len(s))
    BY <2>1
  <2> QED BY <2>1, <2>2 DEF within, IsPrefix
<1>3. Append(p, n) \in Seq(Names)
  OBVIOUS
<1> QED BY <1>1, <1>2, <1>3, RootsAssumption DEF inRoots

\* An element that is opened.
LEMMA OneOn ==
    ASSUME IsTree(tree), NEW l, NEW d, NEW ph, NEW td, NEW h, InDirectory(l, d, ph, td, h),
           LET o == Look(d, Head(td)) IN
             o \in Objects \ Links /\ (Kind[o] = "dir" \/ Tail(td) = <<>>)
    PROVE  LET q == Append(ph, Head(td)) IN
           /\ q \in Seq(Names) /\ Tail(td) \in Seq(Names)
           /\ DirAt[q] = Look(d, Head(td)) /\ inRoots[q]
           /\ Alike(Resolve[Stage(Tail(td), q, 0)], Aimed, h)
           /\ Tail(td) = <<>> => Aimed.ok /\ Aimed.path = q
<1> DEFINE s == Stage(td, ph, 0)
           n == Head(td)
           q == Append(ph, n)
           t == Stage(Tail(td), q, 0)
<1>1. /\ s \in Stages /\ s.rest = td /\ s.done = ph /\ s.links = 0
      /\ n \in Names /\ n # ".." /\ Tail(td) \in Seq(Names) /\ Met(s) = Look(d, n)
  BY MetThere
<1>2. /\ ph \in Seq(Names) /\ td # <<>> /\ d = DirAt[ph] /\ inRoots[ph]
      /\ Alike(Resolve[s], Aimed, h)
  BY DEF InDirectory
<1> HIDE DEF s, n
<1>3. Met(s) \in Objects \ Links /\ (Kind[Met(s)] = "dir" \/ Tail(td) = <<>>)
  BY <1>1 DEF n
<1>4. q \in Seq(Names) /\ DirAt[q] = Look(d, n) /\ inRoots[q]
  BY <1>1, <1>2, DirAtAppend, InRootsAppend
<1>5. ~Over(s) /\ Onward(s) = t
  <2>1. Met(s) # Absent
    BY <1>3, TreeAssumption
  <2> QED BY <1>1, <1>2, <1>3, <2>1 DEF Over, Stuck, Onward, n
<1>6. Resolve[s] = Resolve[t]
  BY <1>1, <1>5, ResolveSolves
<1>7. ASSUME Tail(td) = <<>> PROVE Aimed.ok /\ Aimed.path = q
  <2>1. t \in Stages /\ t.rest = <<>> /\ t.done = q
    BY <1>4, <1>7, NamesAreElements DEF Stage, Stages, Elements
  <2> HIDE DEF t
  <2>2. Resolve[t] = Outcome(t)
    BY <2>1, ResolveSolves DEF Over
  <2>3. Resolve[t].ok /\ Resolve[t].path = q
    BY <2>1, <2>2, OutcomeFields
  <2> QED BY <1>2, <1>6, <2>3 DEF Alike
<1> QED BY <1>1, <1>2, <1>4, <1>6, <1>7 DEF n

\* A link that is followed: the turn after it looks for the same thing.
LEMMA LinkOn ==
    ASSUME TypeOK, Premise, NEW l, NEW d, NEW ph, NEW td, NEW h \in Nat,
           InDirectory(l, d, ph, td, h), Look(d, Head(td)) \in Links
    PROVE  LET text == Text[Look(d, Head(td))]
               g == Clean[IF text.abs THEN text.path \o Tail(td)
                                      ELSE ph \o text.path \o Tail(td)] IN
           g \in Seq(Names) /\ Alike(EvalSymlinks(g), Aimed, h + 1)
<1> DEFINE s == Stage(td, ph, 0)
           e == Resolve[s]
           text == Text[Look(d, Head(td))]
           x == text.path \o Tail(td)
           f == IF text.abs THEN <<>> ELSE ph
           g == Clean[f \o x]
           t == Stage(x, f, 1)
<1>1. /\ s \in Stages /\ s.rest = td /\ s.done = ph /\ s.links = 0
      /\ Head(td) \in Names /\ Head(td) # ".." /\ Tail(td) \in Seq(Names)
      /\ Met(s) = Look(d, Head(td)) /\ IsTree(tree)
  BY MetThere DEF TypeOK
<1>2. /\ ph \in Seq(Names) /\ td # <<>> /\ d \in Dirs /\ d = DirAt[ph]
      /\ Alike(e, Aimed, h)
  BY DEF InDirectory
<1>3. ~GaveUp(Aimed) /\ Aimed.links \in Nat /\ LibHops \in Nat
  BY AimedTypes, BoundsAssumption DEF Premise
<1>4. text.path \in Seq(Elements) /\ text.abs \in BOOLEAN /\ Tidy(text.path)
  BY TextAssumption DEF Premise, Elements
<1>5. x \in Seq(Elements) /\ Tidy(x)
  <2> DEFINE a == text.path
             b == Tail(td)
  <2>1. a \in Seq(Elements) /\ Tidy(a) /\ b \in Seq(Names) /\ b \in Seq(Elements)
    BY <1>1, <1>4, NamesAreElements
  <2> HIDE DEF a, b
  <2>2. a \o b \in Seq(Elements) /\ Tidy(a \o b)
    BY <2>1, TidyThenNames
  <2> QED BY <2>2 DEF a, b
<1>6. f \in Seq(Names) /\ DirAt[f] \in Dirs
  BY <1>2, DirAtSolves, TextAssumption, <1>1
<1>7. f \o x \in Seq(Elements) /\ g \in Seq(Names)
  <2>1. f \in Seq(Elements)
    BY <1>6, NamesAreElements
  <2> HIDE DEF f, x
  <2>2. f \o x \in Seq(Elements)
    BY <1>5, <2>1
  <2> QED BY <2>2, CleanSolves
<1>8. e.ok \in BOOLEAN /\ e.links \in Nat
  BY <1>1, ResolveSolves DEF Outcomes
<1>9. ~GaveUp(e)
  <2> HIDE DEF e
  <2> QED BY <1>2, <1>3, <1>8 DEF Alike, GaveUp
<1>10. ~Stuck(s)
  <2> HIDE DEF s
  <2> SUFFICES ASSUME Stuck(s) PROVE FALSE
    OBVIOUS
  <2>1. s.links >= LibHops
    <3>1. Met(s) # Absent /\ Kind[Met(s)] = "link" /\ Met(s) \in Links
      BY <1>1, TreeAssumption DEF Links
    <3> QED BY <3>1 DEF Stuck
  <2>2. Resolve[s] = Outcome(s)
    BY <1>1, ResolveSolves DEF Over
  <2>3. ~e.ok /\ e.links = s.links
    BY <1>1, <1>2, <2>2, OutcomeFields
  <2> QED BY <1>9, <2>1, <2>3 DEF GaveUp
<1>11. e = Resolve[t]
  <2> HIDE DEF s
  <2>1. ~Over(s) /\ Onward(s) = Stage(Text[Met(s)].path \o Tail(td), IF Text[Met(s)].abs THEN <<>> ELSE ph, 1)
    BY <1>1, <1>2, <1>10 DEF Over, Onward
  <2> QED BY <1>1, <2>1, ResolveSolves
<1> DEFINE u == Stage(g, <<>>, 1)
<1>12. Resolve[t] = Resolve[u]
  <2> HIDE DEF x, f
  <2> QED BY <1>1, <1>5, <1>6, CleanTidy
<1> HIDE DEF g, e
<1>13. u \in Stages /\ u.links = 1 /\ Short(u, 1) = Stage(g, <<>>, 0)
  BY <1>7, NamesAreElements DEF Stage, Stages, Elements, Short
<1>14. Same(EvalSymlinks(g), e, 1)
  <2>1. ~GaveUp(Resolve[u])
    BY <1>9, <1>11, <1>12
  <2> HIDE DEF u
  <2>2. Same(Resolve[Short(u, 1)], Resolve[u], 1)
    BY <1>1, <1>13, <2>1, Fewer
  <2> QED BY <1>11, <1>12, <1>13, <2>2 DEF EvalSymlinks
<1>15. Alike(EvalSymlinks(g), Aimed, h + 1)
  <2>1. e.links - 1 + (h + 1) = e.links + h
    BY <1>8
  <2> QED BY <1>2, <1>14, <2>1 DEF Same, Alike
<1>16. g = Clean[IF text.abs THEN text.path \o Tail(td) ELSE ph \o text.path \o Tail(td)]
  <2>0. text.path \in Seq(Elements) /\ Tail(td) \in Seq(Elements) /\ ph \in Seq(Elements)
    BY <1>1, <1>2, <1>4, NamesAreElements
  <2>1. (ph \o text.path) \o Tail(td) = ph \o (text.path \o Tail(td))
    <3> DEFINE a == text.path
               b == Tail(td)
    <3>1. a \in Seq(Elements) /\ b \in Seq(Elements)
      BY <2>0
    <3> HIDE DEF a, b
    <3>2. (ph \o a) \o b = ph \o (a \o b)
      BY <2>0, <3>1, ConcatAssoc
    <3> QED BY <3>2 DEF a, b
  <2>2. <<>> \o x = x
    BY <1>5
  <2> QED BY <2>1, <2>2 DEF g
<1> QED BY <1>7, <1>15, <1>16 DEF text

-----------------------------------------------------------------------------
(* Every step keeps it so.                                                 *)

\* What is known of every state.
Known == WalkInv /\ QuietInv /\ Exact

\* What a step has to establish: the paths of the request stay what they are.
LEMMA ExactAfter ==
    ASSUME UNCHANGED <<tree, op, path, changed>>,
           ~changed /\ Premise =>
             /\ pc' \in {"confine", "go"} => hops' = 0
             /\ pc' = "go" => Confined(path)
             /\ pc' \in Holding \union {"root"} => Chosen(leaf')
             /\ pc' = "root" => TurnAt(leaf', goal', hops')
             /\ pc' \in {"lstat", "open", "again", "readlink"} =>
                  InDirectory(leaf', dir', phys', todo', hops')
             /\ pc' = "lstat" => Len(todo') = 1 /\ leaf' = "any"
             /\ pc' = "again" => Missed(leaf', dir', todo', fault')
             /\ pc' = "readlink" => Look(dir', Head(todo')) \in Links
             /\ pc' \in {"walked", "describe", "sniff", "close"} => Arrived(leaf', dir', phys')
             /\ pc' \in {"sniff", "close"} => Entry(leaf', dir', found')
             /\ pc' = "done" /\ answer' # "cancelled" => Settled(answer', dir', found')
    PROVE  Exact'
<1>1. \A d, n : Look(d, n)' = Look(d, n)
  BY DEF Look
<1>2. \A l : Chosen(l)' <=> Chosen(l)
  BY Still
<1>3. Confined(path)' <=> Confined(path)
  <2>1. DirAt' = DirAt
    BY DEF DirAt, Look
  <2>2. Resolve' = Resolve
    BY <2>1, <1>1 DEF Resolve, Stuck, Onward, Met, Look
  <2>3. \A p : EvalSymlinks(p)' = EvalSymlinks(p)
    BY <2>2 DEF EvalSymlinks
  <2>4. \A p : resolveExisting(p)' = resolveExisting(p)
    BY <2>3 DEF resolveExisting
  <2>5. \A p : Lstat(p)' = Lstat(p)
    BY <1>1, <2>1, <2>3 DEF Lstat
  <2> QED BY <2>3, <2>4, <2>5 DEF Confined, Dangles, danglingTarget
<1> SUFFICES ASSUME ~changed, Premise
             PROVE  Exact'
  <2>1. Premise' <=> Premise
    BY Still
  <2> QED BY <2>1 DEF Exact
<1>4. (pc = "root" => TurnAt(leaf, goal, hops))'
  BY Still
<1>5. (pc \in {"lstat", "open", "again", "readlink"} =>
         InDirectory(leaf, dir, phys, todo, hops))'
  BY Still
<1>6. (pc = "again" => Missed(leaf, dir, todo, fault))'
  BY Still
<1>7. (pc \in {"walked", "describe", "sniff", "close"} => Arrived(leaf, dir, phys))'
  BY Still
<1>8. (pc \in {"sniff", "close"} => Entry(leaf, dir, found))'
  BY Still
<1>9. (pc = "done" /\ answer # "cancelled" => Settled(answer, dir, found))'
  BY Still
<1>10. (pc = "lstat" => Leafy(todo))'
  BY DEF Leafy
<1> QED BY <1>1, <1>2, <1>3, <1>4, <1>5, <1>6, <1>7, <1>8, <1>9, <1>10 DEF Exact

\* A request may be refused where nothing is deserved.
LEMMA EndsRefused ==
    ASSUME NEW e, Ends(e), e # "ok",
           ~changed /\ Premise /\ e # "cancelled" => ~(Deserved /\ Aimed.links <= MaxHops)
    PROVE  Exact'
<1>1. /\ pc' = "done" /\ answer' = e
      /\ UNCHANGED <<tree, op, path, changed>>
  BY DEF Ends, request
<1>2. ~changed /\ Premise /\ e # "cancelled" => Settled(answer', dir', found')
  BY <1>1 DEF Settled
<1> QED BY <1>1, <1>2, ExactAfter DEF Holding

\* Confine refuses only what no walk would reach.
LEMMA ConfineExact ==
    ASSUME Known, Confine
    PROVE  Exact'
<1>1. CASE Confined(path)
  <2>1. pc' = "go" /\ UNCHANGED <<tree, op, path, changed, hops>> /\ pc = "confine"
    BY <1>1 DEF Confine, request, walking
  <2>2. ~changed /\ Premise => hops' = 0
    BY <2>1 DEF Known, Exact
  <2> QED BY <1>1, <2>1, <2>2, ExactAfter DEF Holding
<1>2. CASE ~Confined(path)
  <2>1. Ends("forbidden")
    BY <1>2 DEF Confine
  <2>2. ASSUME Deserved PROVE FALSE
    <3>1. op # "stat"
      BY <1>2, <2>2 DEF Deserved
    <3>2. \E kind : Reaches(path, kind)
      BY <2>2, <3>1 DEF Deserved, Known, WalkInv, TypeOK
    <3>3. IsTree(tree) /\ path \in Seq(Names)
      BY AimedTypes DEF Known, WalkInv, TypeOK
    <3> QED BY <1>2, <3>2, <3>3, ReachedIsConfined DEF Reaches
  <2> QED BY <2>1, <2>2, EndsRefused
<1> QED BY <1>1, <1>2

\* The first turn looks for what was asked for.
LEMMA StartExact ==
    ASSUME Known, Start
    PROVE  Exact'
<1> DEFINE self == \E at \in locate(path) : at.rest = <<>>
<1>1. /\ pc = "go" /\ pc' = "root" /\ hops' = hops
      /\ UNCHANGED <<tree, op, path, changed>>
      /\ leaf' = CASE op = "open" -> "any"
                   [] op = "stat" /\ self -> "self"
                   [] OTHER -> "dir"
      /\ goal' = IF op = "stat" /\ ~self THEN Parent(path) ELSE path
  BY DEF Start, request
<1>2. TypeOK /\ path \in Seq(Names) /\ IsTree(tree) /\ Aim \in Seq(Names)
  BY AimedTypes DEF Known, WalkInv, TypeOK
<1>3. self <=> NamesRoot(path)
  BY <1>2, SelfNamesRoot
<1> HIDE DEF self
<1>4. leaf' = "self" <=> op = "stat" /\ self
  BY <1>1
<1>5. leaf' \in {"any", "dir", "self"} /\ (leaf' = "any" <=> op = "open")
  BY <1>1
<1> SUFFICES ASSUME ~changed, Premise
             PROVE  Chosen(leaf') /\ TurnAt(leaf', goal', hops')
  BY <1>1, ExactAfter DEF Holding
<1>6. Chosen(leaf')
  BY <1>1, <1>3, <1>4, <1>5 DEF Chosen, Known, Exact
<1>7. TurnAt(leaf', goal', hops')
  <2>1. hops = 0
    BY <1>1 DEF Known, Exact
  <2>2. CASE leaf' = "self"
    BY <1>1, <1>2, <1>4, <2>1, <2>2 DEF TurnAt
  <2>3. CASE leaf' # "self"
    <3>1. goal' = Aim
      BY <1>1, <1>4, <2>3 DEF Aim
    <3>2. Aimed.links \in Nat
      BY <1>2, AimedTypes
    <3>3. Alike(Aimed, Aimed, 0)
      BY <3>2 DEF Alike
    <3> QED BY <1>1, <1>2, <2>1, <2>3, <3>1, <3>3 DEF TurnAt, Aimed
  <2> QED BY <2>2, <2>3
<1> QED BY <1>6, <1>7

\* Where nothing is found, or not of the kind, nothing is deserved.
LEMMA NothingDeserved ==
    ASSUME TypeOK, NEW l, Chosen(l), l # "self",
           \/ ~Aimed.ok
           \/ Kind[DirAt[Aimed.path]] # (IF l = "any" THEN "file" ELSE "dir")
    PROVE  ~Deserved
BY DeservedReaches DEF TypeOK

\* A path without elements has been walked to its end.
LEMMA NothingLeft ==
    ASSUME IsTree(tree), NEW q \in Seq(Names), NEW h, Alike(Resolve[Stage(<<>>, q, 0)], Aimed, h)
    PROVE  Aimed.ok /\ Aimed.path = q
<1> DEFINE t == Stage(<<>>, q, 0)
<1>1. t \in Stages /\ t.rest = <<>> /\ t.done = q
  BY NamesAreElements DEF Stage, Stages, Elements
<1>2. t = Stage(<<>>, q, 0)
  OBVIOUS
<1> HIDE DEF t
<1>3. Resolve[t] = Outcome(t)
  BY <1>1, ResolveSolves DEF Over
<1>4. Resolve[t].ok /\ Resolve[t].path = q
  BY <1>1, <1>3, OutcomeFields
<1> QED BY <1>2, <1>4 DEF Alike

\* Nor where the walk cannot go on.
LEMMA NothingThere ==
    ASSUME TypeOK, Chosen(leaf), InDirectory(leaf, dir, phys, todo, hops),
           \/ Here = Absent
           \/ Here \in Objects \ Links /\ Kind[Here] # "dir" /\ Tail(todo) # <<>>
    PROVE  ~Deserved
<1>1. leaf # "self"
  BY DEF InDirectory
<1>2. IsTree(tree)
  BY DEF TypeOK
<1>3. ~Aimed.ok
  BY <1>2, DeadEnd DEF Here
<1> QED BY <1>1, <1>3, NothingDeserved

\* The last element.
LEMMA OneLeft ==
    ASSUME NEW S, NEW p \in Seq(S), p # <<>>
    PROVE  Len(p) = 1 <=> Tail(p) = <<>>
<1>1. Len(p) \in Nat /\ Len(p) # 0 /\ Tail(p) \in Seq(S) /\ Len(Tail(p)) = Len(p) - 1
  OBVIOUS
<1> DEFINE t == Tail(p)
<1>2. t \in Seq(S)
  BY <1>1
<1> HIDE DEF t
<1>3. t = <<>> <=> Len(t) = 0
  BY <1>2
<1> QED BY <1>1, <1>3 DEF t

\* A turn begins in the directory its path resolves through; it is refused where
\* there is none, or too many links lead to it.
LEMMA OpenRootExact ==
    ASSUME Known, OpenRoot
    PROVE  Exact'
<1>1. /\ pc = "root" /\ TypeOK /\ IsTree(tree)
      /\ hops \in Nat /\ MaxHops \in Nat /\ path \in Seq(Names)
  BY BoundsAssumption, AimedTypes DEF OpenRoot, Known, WalkInv, TypeOK
<1>2. ~changed /\ Premise => Chosen(leaf) /\ TurnAt(leaf, goal, hops)
  BY <1>1 DEF Known, Exact
<1>3. CASE TooDeep
  <2>1. Ends("bad_request")
    BY <1>3 DEF OpenRoot
  <2>2. ASSUME ~changed, Premise PROVE Aimed.links > MaxHops
    <3>1. hops > MaxHops
      BY <1>3 DEF TooDeep
    <3>2. leaf # "self" /\ goal \in Seq(Names) /\ Alike(EvalSymlinks(goal), Aimed, hops)
      BY <1>1, <1>2, <2>2, <3>1 DEF TurnAt
    <3>3. EvalSymlinks(goal).links \in Nat /\ Aimed.links \in Nat
      BY <1>1, <3>2, EvalTypes, AimedTypes
    <3>4. EvalSymlinks(goal).links + hops <= Aimed.links
      BY <3>2 DEF Alike
    <3> QED BY <1>1, <3>1, <3>3, <3>4
  <2>3. ~changed /\ Premise => ~(Aimed.links <= MaxHops)
    BY <1>1, <2>2, AimedTypes
  <2> QED BY <2>1, <2>3, EndsRefused
<1>4. CASE ~TooDeep /\ locate(goal) = {}
  <2>1. Ends("forbidden")
    BY <1>4 DEF OpenRoot
  <2>2. ASSUME ~changed, Premise, Deserved PROVE FALSE
    <3>1. leaf # "self"
      <4> SUFFICES ASSUME leaf = "self" PROVE FALSE
        OBVIOUS
      <4>1. NamesRoot(path) /\ goal = path
        BY <1>2, <2>2 DEF Chosen, TurnAt
      <4> QED BY <1>1, <1>4, <4>1, SelfNamesRoot
    <3>2. Aimed.ok /\ inRoots[Aimed.path]
      BY <1>1, <1>2, <2>2, <3>1, DeservedReaches DEF TypeOK
    <3>3. goal \in Seq(Names) /\ EvalSymlinks(goal).ok /\ EvalSymlinks(goal).path = Aimed.path
      BY <1>2, <2>2, <3>1, <3>2 DEF TurnAt, Alike
    <3> QED BY <1>1, <1>4, <3>2, <3>3, NowhereLocated
  <2> QED BY <2>1, <2>2, EndsRefused
<1>5. ASSUME ~TooDeep, NEW at \in locate(goal),
             dir' = at.root.dir, phys' = at.root.resolved, todo' = at.rest,
             pc' = StepFor(at.rest),
             UNCHANGED <<tree, changed, request, goal, leaf, hops>>
      PROVE  Exact'
  <2>0. UNCHANGED <<tree, op, path, changed>>
    BY <1>5 DEF request
  <2>1. /\ pc' \in {"walked", "lstat", "open"}
        /\ pc' = "walked" <=> at.rest = <<>>
        /\ pc' = "lstat" => Len(at.rest) = 1 /\ leaf = "any"
    BY <1>5 DEF StepFor, Leafy
  <2> SUFFICES ASSUME ~changed, Premise
               PROVE  /\ pc' \in {"lstat", "open"} =>
                           InDirectory(leaf, at.root.dir, at.root.resolved, at.rest, hops)
                      /\ pc' = "walked" => Arrived(leaf, at.root.dir, at.root.resolved)
    BY <1>2, <1>5, <2>0, <2>1, ExactAfter DEF Holding
  <2>2. goal \in Seq(Names)
    BY <1>2 DEF TurnAt
  <2>3. at.root.dir \in Dirs
    BY LocatesRoot
  <2>4. CASE leaf = "self"
    <3>1. NamesRoot(goal)
      BY <1>2, <2>4 DEF TurnAt, Chosen
    <3>2. at.rest = <<>>
      BY <1>1, <2>2, <3>1, SelfNamesRoot
    <3>3. Arrived(leaf, at.root.dir, at.root.resolved)
      BY <2>3, <2>4 DEF Arrived
    <3> QED BY <2>1, <3>2, <3>3
  <2>5. CASE leaf # "self"
    <3> DEFINE e == EvalSymlinks(goal)
               x == Resolve[Stage(at.rest, at.root.resolved, 0)]
    <3>1. Alike(e, Aimed, hops)
      BY <1>2, <2>5 DEF TurnAt
    <3>2. e.links \in Nat /\ Aimed.links \in Nat /\ e.ok \in BOOLEAN
      BY <1>1, <2>2, EvalTypes, AimedTypes
    <3>3. ~GaveUp(e)
      <4>1. LibHops \in Nat /\ ~GaveUp(Aimed)
        BY BoundsAssumption DEF Premise
      <4> HIDE DEF e
      <4> QED BY <1>1, <3>1, <3>2, <4>1 DEF Alike, GaveUp
    <3>4. /\ at.root \in Roots /\ at.rest \in Seq(Names) /\ at.root.resolved \in Seq(Names)
          /\ DirAt[at.root.resolved] = at.root.dir /\ Alike(x, e, 0)
      BY <1>1, <2>2, <3>3, LocatedAgrees DEF Premise
    <3>5. x.links \in Nat
      <4> DEFINE s == Stage(at.rest, at.root.resolved, 0)
      <4>1. s \in Stages
        BY <3>4, NamesAreElements DEF Stage, Stages, Elements
      <4> HIDE DEF s
      <4>2. Resolve[s] \in Outcomes
        BY <1>1, <4>1, ResolveSolves
      <4> QED BY <4>2 DEF Outcomes, s
    <3>6. Alike(x, Aimed, hops)
      <4> HIDE DEF x, e
      <4> QED BY <1>1, <3>1, <3>2, <3>4, <3>5 DEF Alike
    <3>7. inRoots[at.root.resolved]
      BY <3>4, Prefix DEF inRoots
    <3>8. CASE at.rest # <<>>
      BY <2>1, <2>3, <2>5, <3>4, <3>6, <3>7, <3>8 DEF InDirectory
    <3>9. CASE at.rest = <<>>
      <4>1. Aimed.ok /\ Aimed.path = at.root.resolved
        BY <1>1, <3>4, <3>6, <3>9, NothingLeft
      <4> QED BY <2>1, <2>3, <3>4, <3>7, <3>9, <4>1 DEF Arrived, Dirs, Links
    <3> QED BY <3>8, <3>9
  <2> QED BY <2>4, <2>5
<1> QED BY <1>3, <1>4, <1>5 DEF OpenRoot

\* A step that only looks at the next element.
LEMMA LooksExact ==
    ASSUME Known, NEW step \in {"lstat", "open", "again", "readlink"}, WalkGoes(step),
           pc \in {"lstat", "open", "again"},
           ~changed /\ Premise =>
             /\ step = "lstat" => Leafy(todo)
             /\ step = "again" => Missed(leaf, dir, todo, fault')
             /\ step = "readlink" => Here \in Links
    PROVE  Exact'
<1>1. /\ pc' = step
      /\ UNCHANGED <<tree, op, path, changed, leaf, hops, dir, phys, todo>>
  BY DEF WalkGoes, request
<1>2. ~changed /\ Premise => Chosen(leaf) /\ InDirectory(leaf, dir, phys, todo, hops)
  BY DEF Known, Exact, Holding
<1> QED BY <1>1, <1>2, ExactAfter DEF Holding, Leafy, Here

\* The look at the leaf refuses what is not there or cannot be read.
LEMMA LookAtLeafExact ==
    ASSUME Known, LookAtLeaf
    PROVE  Exact'
<1>1. pc = "lstat" /\ TypeOK /\ IsTree(tree)
  BY DEF LookAtLeaf, Known, WalkInv, TypeOK
<1>2. ~changed /\ Premise => Chosen(leaf) /\ InDirectory(leaf, dir, phys, todo, hops) /\ Leafy(todo)
  BY <1>1 DEF Known, Exact, Holding
<1>3. CASE Here = Absent /\ Ends("not_found")
  <2>1. ~changed /\ Premise => ~Deserved
    BY <1>1, <1>2, <1>3, NothingThere
  <2> QED BY <1>3, <2>1, EndsRefused
<1>4. CASE Here \in Links /\ WalkGoes("readlink")
  BY <1>1, <1>4, LooksExact
<1>5. CASE WalkGoes("open")
  BY <1>1, <1>5, LooksExact
<1>6. CASE Here \in Objects /\ Kind[Here] = "other" /\ Ends("bad_request")
  <2>1. ASSUME ~changed, Premise PROVE ~Deserved
    <3>1. Chosen(leaf) /\ InDirectory(leaf, dir, phys, todo, hops) /\ leaf = "any" /\ Tail(todo) = <<>>
          /\ leaf # "self"
      <4>1. Len(todo) = 1 /\ todo \in Seq(Names) /\ todo # <<>>
        BY <1>2, <2>1 DEF Leafy, InDirectory
      <4>2. Tail(todo) = <<>>
        BY <4>1, OneLeft
      <4> QED BY <1>2, <2>1, <4>2 DEF Leafy
    <3>2. Here \in Objects \ Links
      BY <1>6 DEF Links
    <3>3. Aimed.path = Append(phys, Head(todo)) /\ DirAt[Append(phys, Head(todo))] = Here
      BY <1>1, <3>1, <3>2, OneOn DEF Here
    <3> QED BY <1>1, <1>6, <3>1, <3>3, NothingDeserved
  <2> QED BY <1>6, <2>1, EndsRefused
<1> QED BY <1>3, <1>4, <1>5, <1>6 DEF LookAtLeaf

\* An element that is opened is the next one of path resolution.
LEMMA OpenElementExact ==
    ASSUME Known, OpenElement
    PROVE  Exact'
<1>1. pc = "open" /\ TypeOK /\ IsTree(tree)
  BY DEF OpenElement, Known, WalkInv, TypeOK
<1>2. ~changed /\ Premise => Chosen(leaf) /\ InDirectory(leaf, dir, phys, todo, hops)
  BY <1>1 DEF Known, Exact, Holding
<1>3. CASE Openable(Here)
  <2> DEFINE q == Append(phys, Head(todo))
             rest == Tail(todo)
  <2>1. /\ dir' = Here /\ phys' = q /\ todo' = rest /\ pc' = StepFor(rest)
        /\ UNCHANGED <<tree, op, path, changed, leaf, hops>>
    BY <1>3 DEF OpenElement, request
  <2>2. /\ pc' \in {"walked", "lstat", "open"}
        /\ pc' = "walked" <=> rest = <<>>
        /\ pc' = "lstat" => Len(rest) = 1 /\ leaf = "any"
    BY <2>1 DEF StepFor, Leafy
  <2> SUFFICES ASSUME ~changed, Premise
               PROVE  /\ rest # <<>> => InDirectory(leaf, Here, q, rest, hops)
                      /\ rest = <<>> => Arrived(leaf, Here, q)
    BY <1>2, <2>1, <2>2, ExactAfter DEF Holding
  <2>3. todo \in Seq(Names) /\ todo # <<>> /\ leaf # "self"
    BY <1>2 DEF InDirectory
  <2>4. Leafy(todo) => rest = <<>>
    BY <2>3, OneLeft DEF Leafy
  <2>5. /\ Here \in Objects \ Links /\ (Kind[Here] = "dir" \/ rest = <<>>)
        /\ leaf # "any" \/ rest # <<>> => Here \in Dirs
    BY <1>3, <2>4 DEF Openable, Links, Dirs, Leafy
  <2>6. /\ q \in Seq(Names) /\ rest \in Seq(Names) /\ DirAt[q] = Here /\ inRoots[q]
        /\ Alike(Resolve[Stage(rest, q, 0)], Aimed, hops)
        /\ rest = <<>> => Aimed.ok /\ Aimed.path = q
    BY <1>1, <1>2, <2>5, OneOn DEF Here
  <2> HIDE DEF q, rest
  <2>7. rest # <<>> => InDirectory(leaf, Here, q, rest, hops)
    BY <2>3, <2>5, <2>6 DEF InDirectory
  <2>8. rest = <<>> => Arrived(leaf, Here, q)
    BY <2>5, <2>6 DEF Arrived
  <2> QED BY <2>7, <2>8
<1>4. CASE ~Openable(Here)
  <2>1. /\ WalkGoes("again")
        /\ fault' = CASE Here = Absent -> "not_found"
                      [] Here \in Links /\ Leafy(todo) -> "loop"
                      [] OTHER -> "not_dir"
    BY <1>4 DEF OpenElement
  <2>2. Missed(leaf, dir, todo, fault')
    BY <1>4, <2>1 DEF Missed, Here, Openable, Leafy
  <2> QED BY <1>1, <2>1, <2>2, LooksExact
<1> QED BY <1>3, <1>4

\* An open fails for good only where path resolution does.
LEMMA LookAgainExact ==
    ASSUME Known, LookAgain
    PROVE  Exact'
<1> DEFINE thing == Here \in Objects \ Links
           moved == fault = "loop" \/ (fault = "not_dir" /\ Kind[Here] = "dir")
<1>1. pc = "again" /\ TypeOK /\ IsTree(tree)
  BY DEF LookAgain, Known, WalkInv, TypeOK
<1>2. ~changed /\ Premise => /\ Chosen(leaf) /\ InDirectory(leaf, dir, phys, todo, hops)
                             /\ Missed(leaf, dir, todo, fault)
  BY <1>1 DEF Known, Exact, Holding
<1>3. CASE Here = Absent /\ Ends("not_found")
  <2>1. ~changed /\ Premise => ~Deserved
    BY <1>1, <1>2, <1>3, NothingThere
  <2> QED BY <1>3, <2>1, EndsRefused
<1>4. CASE Here \in Links /\ WalkGoes("readlink")
  BY <1>1, <1>4, LooksExact
<1>5. ASSUME thing, ~changed, Premise
      PROVE  ~moved /\ ~Deserved
  <2>1. /\ Chosen(leaf) /\ InDirectory(leaf, dir, phys, todo, hops) /\ leaf # "self"
        /\ todo \in Seq(Names) /\ todo # <<>>
    BY <1>2, <1>5 DEF InDirectory
  <2>2. /\ Here \in Objects \ Links /\ Kind[Here] # "dir" /\ Kind[Here] # "link" /\ Here # Absent
        /\ ~(Len(todo) = 1 /\ leaf = "any") /\ fault = "not_dir"
    BY <1>2, <1>5, TreeAssumption DEF Missed, Here, Links
  <2>3. CASE Tail(todo) # <<>>
    BY <1>1, <2>1, <2>2, <2>3, NothingThere
  <2>4. CASE Tail(todo) = <<>>
    <3>1. Len(todo) = 1
      BY <2>1, <2>4, OneLeft
    <3>2. leaf # "any"
      BY <2>2, <3>1
    <3>3. Aimed.path = Append(phys, Head(todo)) /\ DirAt[Append(phys, Head(todo))] = Here
      BY <1>1, <2>1, <2>2, <2>4, OneOn DEF Here
    <3> QED BY <1>1, <2>1, <2>2, <3>2, <3>3, NothingDeserved
  <2> QED BY <2>2, <2>3, <2>4
<1>6. ASSUME thing, NEW e \in {"forbidden", "not_found", "bad_request"}, Ends(e)
      PROVE  Exact'
  BY <1>5, <1>6, EndsRefused
<1>7. CASE thing /\ moved /\ WalkGoes(StepFor(todo))
  <2>1. changed \/ ~Premise
    BY <1>5, <1>7
  <2>2. UNCHANGED <<tree, op, path, changed>>
    BY <1>7 DEF WalkGoes, request
  <2> QED BY <2>1, <2>2, ExactAfter
<1> QED BY <1>3, <1>4, <1>6, <1>7 DEF LookAgain

\* The next turn looks for what the link stands for.
LEMMA ReadLinkExact ==
    ASSUME Known, ReadLink
    PROVE  Exact'
<1>1. pc = "readlink" /\ TypeOK /\ hops \in Nat
  BY BoundsAssumption DEF ReadLink, Known, WalkInv, TypeOK
<1>2. ~changed /\ Premise => /\ Chosen(leaf) /\ InDirectory(leaf, dir, phys, todo, hops)
                             /\ Look(dir, Head(todo)) \in Links
  BY <1>1 DEF Known, Exact, Holding
<1>3. CASE Here \notin Links
  <2>1. Ends("forbidden") /\ (changed \/ ~Premise)
    BY <1>2, <1>3 DEF ReadLink, Here
  <2> QED BY <2>1, EndsRefused
<1>4. CASE Here \in Links
  <2>1. /\ goal' = Respelled(Text[Here]) /\ hops' = hops + 1 /\ pc' = "root"
        /\ UNCHANGED <<tree, op, path, changed, leaf>>
    BY <1>4 DEF ReadLink, request
  <2>2. ASSUME ~changed, Premise PROVE Chosen(leaf) /\ TurnAt(leaf, goal', hops + 1)
    <3>1. Chosen(leaf) /\ InDirectory(leaf, dir, phys, todo, hops) /\ leaf # "self"
      BY <1>2, <2>2 DEF InDirectory
    <3>2. goal' \in Seq(Names) /\ Alike(EvalSymlinks(goal'), Aimed, hops + 1)
      BY <1>1, <1>4, <2>1, <2>2, <3>1, LinkOn DEF Respelled, Here
    <3> QED BY <3>1, <3>2 DEF TurnAt
  <2> QED BY <2>1, <2>2, ExactAfter DEF Holding
<1> QED BY <1>3, <1>4

\* What is known where the walk has ended.
LEMMA Ended ==
    ASSUME Known, ~changed, Premise, pc \in {"walked", "describe", "sniff", "close"}
    PROVE  /\ TypeOK /\ IsTree(tree) /\ Chosen(leaf) /\ Arrived(leaf, dir, phys)
           /\ pc \in {"sniff", "close"} => Entry(leaf, dir, found)
<1>1. pc \in Holding
  BY DEF Holding
<1> QED BY <1>1 DEF Known, WalkInv, TypeOK, Exact

\* A directory or file that was walked to is what path resolution finds.
LEMMA EndReaches ==
    ASSUME Arrived(leaf, dir, phys), leaf # "self"
    PROVE  /\ Aimed.ok /\ inRoots[Aimed.path] /\ DirAt[Aimed.path] = dir
           /\ Target(Aim) = dir
           /\ \A kind : Reaches(Aim, kind) <=> Kind[dir] = kind
BY DEF Arrived, Aimed, Target, Reaches

\* The entry that Stat describes.
LEMMA EntryLooked ==
    ASSUME TypeOK, IsTree(tree), Chosen(leaf), Arrived(leaf, dir, phys), op = "stat", leaf = "dir"
    PROVE  Lstat(path) = Look(dir, Last(path)) /\ ~NamesRoot(path)
<1>1. ~NamesRoot(path) /\ Confined(path)
  BY DEF Chosen
<1>2. path # <<>>
  <2> SUFFICES ASSUME path = <<>> PROVE FALSE
    OBVIOUS
  <2> QED BY <1>1, TopNamesRoot
<1>3. EvalSymlinks(Parent(path)).ok /\ DirAt[EvalSymlinks(Parent(path)).path] = dir
  BY DEF Arrived, Aimed, Aim
<1> QED BY <1>1, <1>2, <1>3 DEF Lstat

\* Open delivers the file that the path resolves to.
LEMMA VerifyExact ==
    ASSUME Known, Verify
    PROVE  Exact'
<1>1. pc = "walked" /\ op = "open"
  BY DEF Verify
<1>2. ASSUME ~changed, Premise
      PROVE  /\ TypeOK /\ Chosen(leaf) /\ leaf = "any" /\ Arrived(leaf, dir, phys)
             /\ Aim = path /\ Target(path) = dir
             /\ Deserved <=> Kind[dir] = "file"
  <2>1. Chosen(leaf) /\ TypeOK /\ Arrived(leaf, dir, phys)
    BY <1>1, <1>2, Ended
  <2>2. leaf = "any" /\ Aim = path
    BY <1>1, <2>1 DEF Chosen, Aim
  <2> QED BY <1>1, <2>1, <2>2, EndReaches DEF Deserved
<1>3. CASE Kind[dir] = "file"
  <2>1. /\ pc' = "done" /\ answer' = "ok"
        /\ UNCHANGED <<tree, op, path, changed, dir, found>>
    BY <1>3 DEF Verify, request, walking, kept
  <2>2. ~changed /\ Premise => Settled(answer', dir', found')
    BY <1>1, <1>2, <1>3, <2>1 DEF Settled
  <2> QED BY <2>1, <2>2, ExactAfter DEF Holding
<1>4. CASE Kind[dir] # "file"
  <2>1. Ends("bad_request")
    BY <1>4 DEF Verify
  <2> QED BY <1>2, <1>4, <2>1, EndsRefused
<1> QED BY <1>3, <1>4

LEMMA ReadNamesExact ==
    ASSUME Known, ReadNames
    PROVE  Exact'
<1>1. /\ pc = "walked" /\ pc' = "describe"
      /\ UNCHANGED <<tree, op, path, changed, leaf, dir, phys>>
  BY DEF ReadNames, request, walking
<1>2. ~changed /\ Premise => Chosen(leaf) /\ Arrived(leaf, dir, phys)
  BY <1>1, Ended
<1> QED BY <1>1, <1>2, ExactAfter DEF Holding

\* List delivers what is in the directory that the path resolves to.
LEMMA DescribeExact ==
    ASSUME Known, Describe
    PROVE  Exact'
<1>1. pc = "describe" /\ op = "list"
  BY DEF Describe, Known, WalkInv, InHand
<1>2. ~changed /\ Premise => Chosen(leaf) /\ Arrived(leaf, dir, phys)
  BY <1>1, Ended
<1>3. CASE names = {}
  <2>1. Ends("ok")
    BY <1>3 DEF Describe
  <2>2. /\ pc' = "done" /\ answer' = "ok"
        /\ UNCHANGED <<tree, op, path, changed, found>>
    BY <2>1 DEF Ends, request, kept
  <2>3. ASSUME ~changed, Premise PROVE Settled(answer', dir', found')
    <3>1. leaf = "dir" /\ Aim = path
      BY <1>1, <1>2, <2>3 DEF Chosen, Aim
    <3>2. dir \in Dirs
      BY <1>2, <2>3, <3>1 DEF Arrived
    <3>3. Target(path) = dir /\ Reaches(path, "dir")
      BY <1>2, <2>3, <3>1, <3>2, EndReaches DEF Dirs
    <3>4. found = Listing(Present)
      <4>1. found = Listing(Present \ names)
        BY <1>1, <2>3 DEF Known, QuietInv
      <4>2. Present \ names = Present
        BY <1>3
      <4> QED BY <4>1, <4>2
    <3>5. found = {<<n, KindOf(Look(dir, n))>> : n \in {m \in Names : Look(dir, m) # Absent}}
      BY <3>4 DEF Listing, Present
    <3> QED BY <1>1, <2>2, <3>3, <3>5 DEF Settled, Deserved
  <2> QED BY <2>2, <2>3, ExactAfter DEF Holding
<1>4. CASE names # {}
  <2>1. /\ pc' = pc
        /\ UNCHANGED <<tree, op, path, changed, leaf, dir, phys>>
    BY <1>4 DEF Describe, request, walking
  <2> QED BY <1>1, <1>2, <2>1, ExactAfter DEF Holding
<1> QED BY <1>3, <1>4

LEMMA DescribeSelfExact ==
    ASSUME Known, DescribeSelf
    PROVE  Exact'
<1>1. /\ pc = "walked" /\ pc' = "close" /\ leaf = "self" /\ found' = {<<"", "dir">>}
      /\ UNCHANGED <<tree, op, path, changed, leaf, dir, phys>>
  BY DEF DescribeSelf, request, walking
<1>2. ~changed /\ Premise => Chosen(leaf) /\ Arrived(leaf, dir, phys)
  BY <1>1, Ended
<1>3. Entry(leaf, dir, found')
  BY <1>1 DEF Entry
<1> QED BY <1>1, <1>2, <1>3, ExactAfter DEF Holding

\* Stat refuses what is not there.
LEMMA DescribeLeafExact ==
    ASSUME Known, DescribeLeaf
    PROVE  Exact'
<1> DEFINE o == Look(dir, Last(path))
<1>1. pc = "walked" /\ op = "stat" /\ leaf = "dir"
  BY DEF DescribeLeaf
<1>2. ~changed /\ Premise => Chosen(leaf) /\ Arrived(leaf, dir, phys)
  BY <1>1, Ended
<1>3. CASE o = Absent
  <2>1. Ends("not_found")
    BY <1>3 DEF DescribeLeaf
  <2>2. ASSUME ~changed, Premise PROVE ~Deserved
    <3>1. Lstat(path) = Absent
      BY <1>1, <1>2, <1>3, <2>2, Ended, EntryLooked
    <3> QED BY <1>1, <3>1 DEF Deserved
  <2> QED BY <2>1, <2>2, EndsRefused
<1>4. CASE o # Absent
  <2>1. /\ pc' \in {"sniff", "close"} /\ found' = {<<Last(path), Kind[o]>>}
        /\ UNCHANGED <<tree, op, path, changed, leaf, dir, phys>>
    BY <1>4 DEF DescribeLeaf, request, walking
  <2>2. Entry(leaf, dir, found')
    BY <1>1, <1>4, <2>1 DEF Entry
  <2> QED BY <1>2, <2>1, <2>2, ExactAfter DEF Holding
<1> QED BY <1>3, <1>4

LEMMA SniffExact ==
    ASSUME Known, Sniff
    PROVE  Exact'
<1>1. /\ pc = "sniff" /\ pc' = "close"
      /\ UNCHANGED <<tree, op, path, changed, leaf, dir, phys, found>>
  BY DEF Sniff, request, walking, kept
<1>2. ~changed /\ Premise =>
        Chosen(leaf) /\ Arrived(leaf, dir, phys) /\ Entry(leaf, dir, found)
  BY <1>1, Ended
<1> QED BY <1>1, <1>2, ExactAfter DEF Holding

\* Stat delivers the entry of the directory its path is in.
LEMMA CloseExact ==
    ASSUME Known, Close
    PROVE  Exact'
<1>1. pc = "close" /\ op = "stat"
  BY DEF Close, Known, WalkInv, InHand
<1>2. /\ pc' = "done" /\ answer' = "ok"
      /\ UNCHANGED <<tree, op, path, changed, found>>
  BY DEF Close, Ends, request, kept
<1>3. ASSUME ~changed, Premise PROVE Settled(answer', dir', found')
  <2>1. /\ TypeOK /\ IsTree(tree) /\ path \in Seq(Names)
        /\ Chosen(leaf) /\ Arrived(leaf, dir, phys) /\ Entry(leaf, dir, found)
    BY <1>1, <1>3, Ended, AimedTypes
  <2>2. CASE leaf = "self"
    <3>1. NamesRoot(path) /\ Confined(path)
      BY <2>1, <2>2 DEF Chosen
    <3>2. Lstat(path) # Absent
      BY <1>1, <1>3, <2>1, <3>1, RootIsThere DEF Premise, Aimed, Aim
    <3>3. found = {<<"", "dir">>}
      BY <2>1, <2>2 DEF Entry
    <3> QED BY <1>1, <1>2, <3>1, <3>2, <3>3 DEF Settled, Deserved
  <2>3. CASE leaf # "self"
    <3>1. leaf = "dir" /\ Confined(path) /\ Aim = Parent(path)
      BY <1>1, <2>1, <2>3 DEF Chosen, Aim
    <3>2. Lstat(path) = Look(dir, Last(path)) /\ ~NamesRoot(path)
      BY <1>1, <2>1, <3>1, EntryLooked
    <3>3. Lstat(path) # Absent /\ found = {<<Last(path), Kind[Lstat(path)]>>}
      BY <2>1, <2>3, <3>2 DEF Entry
    <3>4. dir \in Dirs
      BY <2>1, <3>1 DEF Arrived
    <3>5. Reaches(Parent(path), "dir")
      BY <2>1, <2>3, <3>1, <3>4, EndReaches DEF Dirs
    <3> QED BY <1>1, <1>2, <3>1, <3>2, <3>3, <3>5 DEF Settled, Deserved
  <2> QED BY <2>2, <2>3
<1> QED BY <1>2, <1>3, ExactAfter DEF Holding

\* In every state of a request that nothing changed under, what has been done
\* so far is exact.
LEMMA ExactStays ==
    ASSUME Known, [Next]_vars
    PROVE  Exact'
<1>1. CASE Step
  BY <1>1, ConfineExact, StartExact, OpenRootExact, LookAtLeafExact,
     OpenElementExact, LookAgainExact, ReadLinkExact, VerifyExact,
     ReadNamesExact, DescribeExact, DescribeSelfExact, DescribeLeafExact,
     SniffExact, CloseExact DEF Step
<1>2. CASE Cancelled
  <2>1. Ends("cancelled")
    BY <1>2 DEF Cancelled
  <2> QED BY <2>1, EndsRefused
<1>3. CASE \E d \in Dirs : \E n \in Names : \E o \in MayName[d][n] :
             Change(d, n, o)
  BY <1>3 DEF Change, Exact
<1>4. CASE UNCHANGED vars
  <2>1. UNCHANGED <<tree, op, path, changed, pc, goal, leaf, hops, dir, phys,
                    todo, tries, fault, found, answer>>
    BY <1>4 DEF vars, request, walking, kept, record
  <2> QED BY <2>1, ExactAfter DEF Known, Exact, Leafy
<1> QED BY <1>1, <1>2, <1>3, <1>4 DEF Next, Answered

LEMMA ExactAtFirst ==
    ASSUME Init
    PROVE  Exact
BY DEF Init, Exact, Holding

\* What is exact in every state is so in the last.
LEMMA ExactResolves ==
    ASSUME QuietInv, Exact
    PROVE  QuietWalkResolves
<1> SUFFICES ASSUME ~changed, pc = "done", answer # "cancelled", Premise
             PROVE  /\ \A o \in opened : Kind[o] # "other"
                    /\ answer = "ok" => Deserved /\ Delivered
                    /\ Deserved /\ Aimed.links <= MaxHops => answer = "ok"
  BY DEF QuietWalkResolves, Premise, Aimed
<1>1. \A o \in opened : Kind[o] # "other"
  BY DEF QuietInv
<1>2. Settled(answer, dir, found)
  BY DEF Exact
<1> QED BY <1>1, <1>2 DEF Settled, Delivered

\* While nothing changes, a request is granted exactly when what it asks for is
\* beneath a root, of its kind and behind no more links than the walk follows,
\* and what it is given is what path resolution finds: the walk element by
\* element, its leaf looked at first, its links read as text and its turns that
\* start over from a root come out where EvalSymlinks does.
THEOREM QuietWalkIsExact == Spec => []QuietWalkResolves
<1>1. Init => Exact
  BY ExactAtFirst
<1>2. WalkInv /\ QuietInv /\ Exact /\ [Next]_vars => Exact'
  BY ExactStays DEF Known
<1>3. QuietInv /\ Exact => QuietWalkResolves
  BY ExactResolves
<1> QED BY <1>1, <1>2, <1>3, WalkInvariant, QuietInvariant, PTL DEF Spec
=============================================================================
