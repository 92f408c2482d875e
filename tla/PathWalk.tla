------------------------------ MODULE PathWalk ------------------------------
(***************************************************************************)
(* The file system service of the daemon (internal/fsops): a request to    *)
(* list, describe or open a path is confined to the browse roots by a walk *)
(* that opens one element at a time and never lets the kernel follow a     *)
(* link, while other programs rename and relink what it walks through.     *)
(*                                                                         *)
(* A path is the sequence of its elements below "/", already cleaned.  One *)
(* step is one system call, except that Confine, whose answer the walk     *)
(* does not rely on, looks at one state of the tree.                       *)
(***************************************************************************)
EXTENDS Integers, SequencesExt

CONSTANTS
    Objects,      \* files, directories, links, other things
    Absent,       \* no object
    Kind,         \* of each object: "dir", "file", "link", "other"
    Text,         \* of each link: [abs |-> BOOLEAN, path |-> elements]
    Names,        \* elements of a path
    Top,          \* the directory "/"
    Inside,       \* what is beneath the roots and not a link
    MayName,      \* what a name of a directory may stand for, over time
    Trees,        \* what the tree may be when the request arrives
    Roots,        \* FS.roots, each with the directory it stands for
    Requests,     \* paths asked for
    MaxHops,      \* maxSymlinkHops (40)
    LibHops,      \* links EvalSymlinks follows (255)
    MaxAttempts   \* of step (4)

Dirs  == {o \in Objects : Kind[o] = "dir"}
Links == {o \in Objects : Kind[o] = "link"}

IsTree(t) ==
    /\ t \in [Dirs -> [Names -> Objects \union {Absent}]]
    /\ \A d \in Dirs : \A n \in Names : t[d][n] \in MayName[d][n]

\* Other programs move things about beneath the roots, but not across their
\* boundary: what is found in a directory beneath a root is beneath it too,
\* or a link, wherever it may point.
ASSUME TreeAssumption ==
    /\ Absent \notin Objects
    /\ Kind \in [Objects -> {"dir", "file", "link", "other"}]
    /\ Inside \subseteq Objects \ Links
    /\ MayName \in [Dirs -> [Names -> SUBSET (Objects \union {Absent})]]
    /\ \A d \in Dirs \intersect Inside : \A n \in Names :
         MayName[d][n] \subseteq Inside \union Links \union {Absent}
    /\ \A t \in Trees : IsTree(t)

ASSUME RootsAssumption ==
    \A r \in Roots :
      /\ r.dir \in Dirs \intersect Inside
      /\ {r.clean, r.resolved} \subseteq Seq(Names)

ASSUME TextAssumption ==
    /\ Top \in Dirs /\ ".." \notin Names
    /\ Text \in [Links -> [abs : BOOLEAN, path : Seq(Names \union {".."})]]

ASSUME BoundsAssumption ==
    /\ {MaxHops, LibHops} \subseteq Nat /\ MaxHops <= LibHops
    /\ MaxAttempts \in Nat \ {0}
    /\ Requests \subseteq Seq(Names)

VARIABLES
    tree,     \* the names of each directory
    changed,  \* history: the tree has changed since the request began
    op, path, \* the request
    pc,       \* where it is
    goal,     \* the path walk looks for, re-spelled by every link
    leaf,     \* what its last element is opened as: "any", "dir", or "self",
              \* a directory that is itself described
    hops,     \* links followed
    dir,      \* the object open as fd, or Absent
    phys,     \* the spelling of that directory from its resolved root
    todo,     \* elements still to open
    tries,    \* attempts at the next one
    fault,    \* the error of its last open
    found,    \* entries described: names and kinds
    names,    \* names List has still to describe
    fds,      \* descriptors the request has open
    opened,   \* history: objects opened
    bytes,    \* history: objects whose bytes were read
    answer    \* "ok", an error, or none yet

request == <<op, path>>
walking == <<goal, leaf, hops, dir, phys, todo, tries, fault>>
kept    == <<found, names>>
record  == <<fds, opened, bytes>>
vars == <<tree, changed, request, pc, walking, kept, record, answer>>

-----------------------------------------------------------------------------
(* Paths.                                                                  *)

Parent(p) == IF p = <<>> THEN <<>> ELSE Front(p)

\* filepath.Clean and Join: ".." takes back an element, at "/" it is nothing.
Clean[p \in Seq(Names \union {".."})] ==
    IF p = <<>> THEN <<>>
    ELSE IF Last(p) = ".." THEN Parent(Clean[Front(p)])
                           ELSE Append(Clean[Front(p)], Last(p))

within(root, p) == IsPrefix(root, p)

inRoots[p \in Seq(Names)] ==
    \E r \in Roots : within(r.resolved, p) \/ within(r.clean, p)

\* A root spelled by the longest prefix of p, and the elements below it.
Spellings(p) ==
    {s \in UNION {{r.clean, r.resolved} : r \in Roots} : within(s, p)}

matchRoot(p) ==
    LET Longest(s) == \A t \in Spellings(p) : Len(t) <= Len(s) IN
    {[root |-> m[1], rest |-> SubSeq(p, Len(m[2]) + 1, Len(p))] :
       m \in {n \in Roots \X Spellings(p) :
               n[2] \in {n[1].clean, n[1].resolved} /\ Longest(n[2])}}

-----------------------------------------------------------------------------
(* filepath.EvalSymlinks on the tree as it is: the object and its spelling *)
(* without links, or nothing if it is missing, not a directory on the way, *)
(* or behind more links than the library follows.                          *)

Look(d, n) == IF d \in Dirs /\ n \in Names THEN tree[d][n] ELSE Absent

\* What a spelling without links stands for.
DirAt[p \in Seq(Names)] ==
    IF p = <<>> THEN Top ELSE Look(DirAt[Front(p)], Last(p))

\* Elements still to resolve, those resolved, links met.
Stages == [rest : Seq(Names \union {".."}), done : Seq(Names), links : Nat]
Stage(r, d, n) == [rest |-> r, done |-> d, links |-> n]

Met(s) == Look(DirAt[s.done], Head(s.rest))

Stuck(s) ==
    /\ s.rest # <<>> /\ Head(s.rest) # ".."
    /\ \/ Met(s) = Absent
       \/ Met(s) \in Links /\ s.links >= LibHops
       \/ Kind[Met(s)] \notin {"dir", "link"} /\ Tail(s.rest) # <<>>

Onward(s) ==
    IF Head(s.rest) = ".." THEN Stage(Tail(s.rest), Parent(s.done), s.links)
    ELSE IF Met(s) \in Links
    THEN Stage(Text[Met(s)].path \o Tail(s.rest),
               IF Text[Met(s)].abs THEN <<>> ELSE s.done, s.links + 1)
    ELSE Stage(Tail(s.rest), Append(s.done, Head(s.rest)), s.links)

Resolve[s \in Stages] ==
    IF s.rest = <<>> \/ Stuck(s)
    THEN [ok |-> s.rest = <<>>, path |-> s.done, links |-> s.links]
    ELSE Resolve[Onward(s)]

EvalSymlinks(p) == Resolve[Stage(p, <<>>, 0)]

\* The deepest ancestor that resolves, and the remainder as it is.
resolveExisting(p) ==
    LET Resolves(n) == EvalSymlinks(SubSeq(p, 1, n)).ok
        k == CHOOSE n \in 0..Len(p) :
               Resolves(n) /\ \A m \in n + 1..Len(p) : ~Resolves(m)
    IN  EvalSymlinks(SubSeq(p, 1, k)).path \o SubSeq(p, k + 1, Len(p))

\* The object p names, its last element not followed.
Lstat(p) ==
    LET parent == EvalSymlinks(Parent(p)) IN
    IF p = <<>> THEN Top
    ELSE IF parent.ok THEN Look(DirAt[parent.path], Last(p)) ELSE Absent

\* Where a link that does not resolve points, by its text alone.
Dangles(p) == Lstat(p) \in Links /\ ~EvalSymlinks(p).ok
Pointed(text, from) == Clean[IF text.abs THEN text.path ELSE from \o text.path]
danglingTarget(p) == Pointed(Text[Lstat(p)], Parent(p))

Confined(p) ==
    /\ inRoots[resolveExisting(p)]
    /\ Dangles(p) => inRoots[danglingTarget(p)]

\* A path may also be spelled through a link above the root.
locate(p) ==
    IF matchRoot(p) # {} THEN matchRoot(p)
    ELSE UNION {matchRoot(q) : q \in {resolveExisting(p)}}

-----------------------------------------------------------------------------
(* The walk.                                                               *)

Init ==
    /\ tree \in Trees
    /\ changed = FALSE
    /\ op \in {"list", "stat", "open"} /\ path \in Requests
    /\ pc = "confine"
    /\ goal = <<>> /\ leaf = "any" /\ hops = 0 /\ dir = Absent
    /\ phys = <<>> /\ todo = <<>> /\ tries = 0 /\ fault = "none"
    /\ found = {} /\ names = {}
    /\ fds = 0 /\ opened = {} /\ bytes = {}
    /\ answer = "none"

\* Another program changes what a name stands for.
Change(d, n, o) ==
    /\ pc # "done" /\ o # tree[d][n]
    /\ tree' = [tree EXCEPT ![d][n] = o]
    /\ changed' = TRUE
    /\ UNCHANGED <<request, pc, walking, kept, record, answer>>

\* Mutant: the descriptor in hand is left open.
FailLeaking(e) ==
    /\ pc' = "done" /\ answer' = e
    /\ dir' = Absent
    /\ UNCHANGED <<tree, changed, request, goal, leaf, hops, phys, todo, tries,
                   fault, kept, record>>

\* The request ends without a file; what it has open is closed.
Ends(e) ==
    /\ pc' = "done" /\ answer' = e
    /\ dir' = Absent
    /\ fds' = fds - (IF dir = Absent THEN 0 ELSE 1)
    /\ UNCHANGED <<tree, changed, request, goal, leaf, hops, phys, todo, tries,
                   fault, kept, opened, bytes>>

\* ctx.Err() is looked at after Confine and between entries.
Cancelled ==
    /\ pc \in {"go", "describe"}
    /\ Ends("cancelled")

Confine ==
    /\ pc = "confine"
    /\ IF Confined(path)
       THEN /\ pc' = "go"
            /\ UNCHANGED <<tree, changed, request, walking, kept, record, answer>>
       ELSE Ends("forbidden")

\* Stat walks to the parent, but to a root itself.
Start ==
    LET self == \E at \in locate(path) : at.rest = <<>> IN
    /\ pc = "go"
    /\ pc' = "root"
    /\ leaf' = CASE op = "open" -> "any"
                 [] op = "stat" /\ self -> "self"
                 [] OTHER -> "dir"
    /\ goal' = IF op = "stat" /\ ~self THEN Parent(path) ELSE path
    /\ UNCHANGED <<tree, changed, request, hops, dir, phys, todo, tries, fault,
                   kept, record, answer>>

\* A leaf that need not be a directory is looked at before it is opened.
Leafy(elems)    == Len(elems) = 1 /\ leaf = "any"
StepFor(elems)  == IF elems = <<>> THEN "walked"
                   ELSE IF Leafy(elems) THEN "lstat" ELSE "open"

\* Mutant: one turn too many.
Deeper == hops > MaxHops + 1

TooDeep == hops > MaxHops

\* Every turn starts over from a root.  The roots are the operator's: what New
\* resolved them to, other programs do not rename.
OpenRoot ==
    /\ pc = "root"
    /\ IF TooDeep THEN Ends("bad_request")
       ELSE IF locate(goal) = {} THEN Ends("forbidden")
       ELSE \E at \in locate(goal) :
            /\ dir' = at.root.dir /\ phys' = at.root.resolved
            /\ todo' = at.rest /\ tries' = 0 /\ fault' = "none"
            /\ fds' = fds + 1 /\ opened' = opened \union {at.root.dir}
            /\ pc' = StepFor(at.rest)
            /\ UNCHANGED <<tree, changed, request, goal, leaf, hops, kept,
                           bytes, answer>>

\* What the next element is now, by fstatat or by openat.
Here == Look(dir, Head(todo))

WalkGoes(step) ==
    /\ pc' = step
    /\ UNCHANGED <<tree, changed, request, goal, leaf, hops, dir, phys, todo,
                   kept, record, answer>>

LookAtLeaf ==
    /\ pc = "lstat"
    /\ \/ Here = Absent /\ Ends("not_found")
       \/ Here \in Links /\ WalkGoes("readlink") /\ UNCHANGED <<tries, fault>>
       \/ /\ Here \in Objects /\ Kind[Here] \in {"dir", "file"}
          /\ WalkGoes("open") /\ UNCHANGED <<tries, fault>>
       \/ /\ Here \in Objects /\ Kind[Here] = "other"
          /\ Ends("bad_request")

\* Mutant: O_NOFOLLOW is forgotten, the kernel follows a link at the leaf.
Follows(o) ==
    \/ o \in Objects /\ (Kind[o] = "dir" \/ (Leafy(todo) /\ Kind[o] # "link"))
    \/ o \in Links

\* openat with O_NOFOLLOW, and O_DIRECTORY but at such a leaf.
Openable(o) ==
    o \in Objects /\ (Kind[o] = "dir" \/ (Leafy(todo) /\ Kind[o] # "link"))

OpenElement ==
    /\ pc = "open"
    /\ IF Openable(Here)
       THEN /\ dir' = Here /\ opened' = opened \union {Here}
            /\ phys' = Append(phys, Head(todo)) /\ todo' = Tail(todo)
            /\ tries' = 0 /\ fault' = "none"
            /\ pc' = StepFor(Tail(todo))
            /\ UNCHANGED <<tree, changed, request, goal, leaf, hops, kept, fds,
                           bytes, answer>>
       ELSE /\ fault' = CASE Here = Absent -> "not_found"
                          [] Here \in Links /\ Leafy(todo) -> "loop"
                          [] OTHER -> "not_dir"
            /\ WalkGoes("again")
            /\ UNCHANGED tries

\* Mutant: the attempts are not counted.
Uncounted == tries

Counted == tries + 1

\* The open failed: a look at what is there now.  An object that changed in
\* between is tried again, a few times.
LookAgain ==
    LET thing == Here \in Objects \ Links
        moved == \/ fault = "loop"
                 \/ fault = "not_dir" /\ Kind[Here] = "dir" IN
    /\ pc = "again"
    /\ \/ Here = Absent /\ Ends("not_found")
       \/ Here \in Links /\ WalkGoes("readlink") /\ UNCHANGED <<tries, fault>>
       \/ /\ thing /\ moved /\ Counted < MaxAttempts
          /\ WalkGoes(StepFor(todo)) /\ tries' = Counted /\ fault' = "none"
       \/ thing /\ moved /\ Counted >= MaxAttempts /\ Ends("forbidden")
       \/ /\ thing /\ ~moved
          /\ Ends(IF fault = "not_found" THEN "not_found" ELSE "bad_request")

\* Mutant: what follows the link is forgotten.
LinkAlone(text) == Clean[IF text.abs THEN text.path ELSE phys \o text.path]

\* Where the link points, seen from the directory it is in, and the rest.
Respelled(text) == Clean[IF text.abs THEN text.path \o Tail(todo)
                                     ELSE phys \o text.path \o Tail(todo)]

ReadLink ==
    /\ pc = "readlink"
    /\ IF Here \notin Links THEN Ends("forbidden")
       ELSE /\ goal' = Respelled(Text[Here]) /\ hops' = hops + 1
            /\ dir' = Absent /\ fds' = fds - 1
            /\ pc' = "root"
            /\ UNCHANGED <<tree, changed, request, leaf, phys, todo, tries,
                           fault, kept, opened, bytes, answer>>

-----------------------------------------------------------------------------
(* What is done with the descriptor.                                       *)

\* Open: regularFile looks at what was opened, whatever was there before.
Verify ==
    /\ pc = "walked" /\ op = "open"
    /\ IF Kind[dir] = "file"
       THEN /\ pc' = "done" /\ answer' = "ok"
            /\ bytes' = bytes \union {dir}
            /\ UNCHANGED <<tree, changed, request, walking, kept, fds, opened>>
       ELSE Ends("bad_request")

ReadNames ==
    /\ pc = "walked" /\ op = "list"
    /\ names' = {n \in Names : Look(dir, n) # Absent}
    /\ pc' = "describe"
    /\ UNCHANGED <<tree, changed, request, walking, found, record, answer>>

\* entryAt: an entry that has gone is listed by its name, as a file.
KindOf(o) == IF o = Absent THEN "file" ELSE Kind[o]

Describe ==
    /\ pc = "describe"
    /\ IF names = {} THEN Ends("ok")
       ELSE \E n \in names :
              /\ found' = found \union {<<n, KindOf(Look(dir, n))>>}
              /\ names' = names \ {n}
              /\ UNCHANGED <<tree, changed, request, pc, walking, record, answer>>

\* Stat, of a root and of an entry of the directory walked to.
DescribeSelf ==
    /\ pc = "walked" /\ leaf = "self"
    /\ found' = {<<"", "dir">>}
    /\ pc' = "close"
    /\ UNCHANGED <<tree, changed, request, walking, names, record, answer>>

DescribeLeaf ==
    LET o == Look(dir, Last(path)) IN
    /\ pc = "walked" /\ op = "stat" /\ leaf = "dir"
    /\ IF o = Absent THEN Ends("not_found")
       ELSE /\ found' = {<<Last(path), Kind[o]>>}
            /\ pc' \in IF Kind[o] = "file" THEN {"sniff", "close"} ELSE {"close"}
            /\ UNCHANGED <<tree, changed, request, walking, names, record, answer>>

\* sniffAt, for a name that does not tell: opened again, verified, closed.
Sniff ==
    LET o == Look(dir, Last(path)) IN
    /\ pc = "sniff"
    /\ IF o \in Objects \ Links
       THEN /\ opened' = opened \union {o}
            /\ bytes' = IF Kind[o] = "file" THEN bytes \union {o} ELSE bytes
       ELSE UNCHANGED <<opened, bytes>>
    /\ pc' = "close"
    /\ UNCHANGED <<tree, changed, request, walking, kept, fds, answer>>

Close ==
    /\ pc = "close"
    /\ Ends("ok")

Step ==
    \/ Confine \/ Start \/ OpenRoot \/ LookAtLeaf \/ OpenElement \/ LookAgain
    \/ ReadLink \/ Verify \/ ReadNames \/ Describe \/ DescribeSelf
    \/ DescribeLeaf \/ Sniff \/ Close

Answered == pc = "done" /\ UNCHANGED vars

Next ==
    \/ Step \/ Cancelled \/ Answered
    \/ \E d \in Dirs : \E n \in Names : \E o \in MayName[d][n] : Change(d, n, o)

Spec == Init /\ [][Next]_vars
FairSpec == Spec /\ WF_vars(Step)

-----------------------------------------------------------------------------
(* Properties.                                                             *)

TypeOK ==
    /\ IsTree(tree) /\ changed \in BOOLEAN
    /\ op \in {"list", "stat", "open"} /\ path \in Requests
    /\ pc \in {"confine", "go", "root", "lstat", "open", "again", "readlink",
               "walked", "describe", "sniff", "close", "done"}
    /\ leaf \in {"any", "dir", "self"}
    /\ dir \in Objects \union {Absent}
    /\ hops \in 0..MaxHops + 1 /\ tries \in 0..MaxAttempts - 1
    /\ fault \in {"none", "not_found", "loop", "not_dir"}
    /\ names \subseteq Names
    /\ answer \in {"none", "ok", "not_found", "bad_request", "forbidden",
                   "cancelled"}

\* "a rename that swaps a symlink into the path after Confine looked at it
\* cannot redirect the open" (fsops.go): whatever the tree becomes during a
\* request, what it opens lies beneath a root, and it reads files only.
NeverEscapes ==
    /\ opened \subseteq Inside
    /\ bytes \subseteq {o \in Inside : Kind[o] = "file"}

\* Between two elements of the way one descriptor is open (that of the child is
\* there before that of its parent is closed, within a step, and so the sniff's
\* second one), and at the end none but the file that is handed over.
DescriptorsBalance ==
    /\ fds = IF dir = Absent THEN 0 ELSE 1
    /\ pc = "done" => (dir # Absent <=> op = "open" /\ answer = "ok")

Target(p) == DirAt[EvalSymlinks(p).path]
Reaches(p, kind) ==
    /\ EvalSymlinks(p).ok /\ inRoots[EvalSymlinks(p).path]
    /\ Kind[Target(p)] = kind

\* The roots are still what they were when the service was made.
RootsStand ==
    \A r \in Roots :
      /\ EvalSymlinks(r.clean).ok /\ EvalSymlinks(r.clean).path = r.resolved
      /\ DirAt[r.resolved] = r.dir

\* A text that goes up before it goes down.  The walk takes ".." as text, path
\* resolution as the directory above, which is not the same behind a link.
Tidy(p) == \A i, j \in 1..Len(p) : i < j /\ p[j] = ".." => p[i] = ".."

\* A root by either of its spellings, or by one through a link above it.
NamesRoot(p) ==
    \E r \in Roots :
      \/ p \in {r.clean, r.resolved}
      \/ Spellings(p) = {} /\ resolveExisting(p) \in {r.clean, r.resolved}

Deserved ==
    CASE op = "open" -> Reaches(path, "file")
      [] op = "list" -> Reaches(path, "dir")
      [] op = "stat" -> /\ Confined(path) /\ Lstat(path) # Absent
                        /\ Reaches(Parent(path), "dir") \/ NamesRoot(path)

Delivered ==
    CASE op = "open" -> dir = Target(path)
      [] op = "list" ->
           found = {<<n, KindOf(Look(Target(path), n))>> :
                      n \in {m \in Names : Look(Target(path), m) # Absent}}
      [] op = "stat" ->
           found = IF NamesRoot(path) THEN {<<"", "dir">>}
                   ELSE {<<Last(path), Kind[Lstat(path)]>>}

\* When nothing changes meanwhile, the walk finds what path resolution finds,
\* links out of the roots and back included: a request is granted when what it
\* asks for, or for Stat the directory that holds it, is beneath a root and of
\* its kind, and behind no more links than the walk follows; it is granted
\* nothing else; and nothing but files and directories is ever opened.  The
\* library is no reference for a path it gives up.
Aim == IF op = "stat" THEN Parent(path) ELSE path
GaveUp(e) == ~e.ok /\ e.links >= LibHops

QuietWalkResolves ==
    /\ ~changed /\ pc = "done" /\ answer # "cancelled"
    /\ RootsStand /\ \A l \in Links : Tidy(Text[l].path)
    /\ ~GaveUp(EvalSymlinks(Aim))
    =>
    /\ \A o \in opened : Kind[o] # "other"
    /\ answer = "ok" => Deserved /\ Delivered
    /\ Deserved /\ EvalSymlinks(Aim).links <= MaxHops => answer = "ok"

\* "Symlinks therefore still work (a link inside a root to another place inside
\* a root behaves as before)" (fsops.go), when path resolution was left to the
\* kernel: a file that a path resolves to beneath a root is the one it opens.
LinksBehaveAsBefore ==
    /\ ~changed /\ pc = "done" /\ answer # "cancelled"
    /\ op = "open" /\ RootsStand
    /\ Reaches(path, "file") /\ EvalSymlinks(path).links <= MaxHops
    =>
    answer = "ok" /\ dir = Target(path)

\* Every request ends, though others may change the tree for ever.
RequestEnds == <>(pc = "done")
=============================================================================
