---------------------------- MODULE KeyerProofs ----------------------------
(***************************************************************************)
(* Proofs about the iambic keyer: the rule by which elements follow each   *)
(* other, the end of the elements once the paddles are released, and the   *)
(* wake-ups of the thread, for every hang time, letter space and bound.    *)
(***************************************************************************)
EXTENDS Keyer, TLAPS

\* The parts of the type invariant that the arguments below use.
Flags == /\ pad \in PaddleFlags /\ mem \in PaddleFlags /\ held \in PaddleFlags
         /\ began \in PaddleFlags
         /\ set.mode \in Modes /\ set \in Settings

\* After an element the memory and the flag of the other paddle say what the
\* paddles did since it began.
Remembers == \A p \in Paddles :
  key = Post(p) => /\ mem[Other(p)] <=> Other(p) \in tap
                   /\ held[Other(p)] <=> began[Other(p)]

\* Once an element has begun with both paddles released, nothing is left that
\* could start another one.
Spent == /\ extra \in {0, 1}
         /\ extra = 1 =>
              /\ ~pad["dot"] /\ ~pad["dash"]
              /\ key \notin {"PREDOT", "PREDASH", "STRAIGHT"}
              /\ \A p \in Paddles : key = Post(p) => ~mem[Other(p)] /\ ~held[Other(p)]
              /\ key = "LETTERSPACE" => ~mem["dot"] /\ ~mem["dash"]

RInv == Flags /\ Remembers /\ Spent

\* The main loop goes on without a keyer only when its thread has ended.
Stopped == main = "loop" /\ ~running => key = "ended"

\* Paddles that are pressed.
Down == (IF pad["dot"] THEN 1 ELSE 0) + (IF pad["dash"] THEN 1 ELSE 0)

\* The states in which the thread looks at the paddles no more before it waits.
Leaving == {"EXITLOOP", "gone", "start", "wait", "ended", "LETTERSPACE"}

\* Every pressed paddle is still counted by the semaphore, except for the one
\* that has woken the thread; as long as no other hit is counted there is
\* nothing that could make the thread turn to the other element.
Counted == /\ sem \in Nat
           /\ ~running => ~pad["dot"] /\ ~pad["dash"]
           /\ Down <= sem + 1
           /\ key \in Leaving => Down <= sem
           /\ sem = 0 =>
                /\ \A p \in Paddles : key = Pre(p) => ~pad[Other(p)]
                /\ \A p \in Paddles : key = Post(p) =>
                     ~pad[Other(p)] /\ ~mem[Other(p)] /\ ~held[Other(p)]
                /\ key = "LETTERSPACE" => ~mem["dot"] /\ ~mem["dash"]
-----------------------------------------------------------------------------
\* The initial state of the keyer.
LEMMA InitRInv == Init => RInv
<1> SUFFICES ASSUME Init PROVE RInv
  OBVIOUS
<1>1. Flags
  BY KeyerAssumption DEF Init, Flags, PaddleFlags, Neither, Settings
<1>2. Remembers
  BY DEF Init, Remembers, Post
<1>3. Spent
  BY DEF Init, Spent, Neither, Paddles, Post
<1> QED BY <1>1, <1>2, <1>3 DEF RInv

\* A step that leaves paddles, memories, state and settings alone.
LEMMA SameRInv ==
  ASSUME RInv, UNCHANGED <<set, pad, mem, held, key, history>>
  PROVE  RInv'
BY DEF RInv, Flags, Remembers, Spent, history

\* A paddle is hit: its memory is set, and it counts as tapped.
LEMMA HitRInv ==
  ASSUME RInv, NEW p \in Paddles, Hit(p)
  PROVE  RInv'
<1>1. Flags'
  BY DEF RInv, Flags, Hit, PaddleFlags
<1>2. Remembers'
  BY DEF RInv, Flags, Remembers, Hit, PaddleFlags, Paddles, Other, Post
<1>3. Spent'
  BY DEF Hit, Spent
<1> QED BY <1>1, <1>2, <1>3 DEF RInv

\* A paddle is released.
LEMMA ReleaseRInv ==
  ASSUME RInv, NEW p \in Paddles, Release(p)
  PROVE  RInv'
<1>1. Flags'
  BY DEF RInv, Flags, Release, PaddleFlags, history
<1>2. Remembers'
  BY DEF RInv, Remembers, Release, history
<1>3. Spent'
  BY DEF RInv, Flags, Spent, Release, PaddleFlags, Paddles, history
<1> QED BY <1>1, <1>2, <1>3 DEF RInv

\* An element begins (PREDOT, PREDASH).
LEMMA BeginRInv ==
  ASSUME RInv, NEW p \in Paddles, Begin(p)
  PROVE  RInv'
<1>1. Flags'
  BY DEF RInv, Flags, Begin, PaddleFlags, Other, Paddles
<1>2. Remembers'
  BY DEF RInv, Flags, Remembers, Begin, PaddleFlags, Paddles, Other, Post
<1>3. extra = 0
  BY DEF RInv, Spent, Begin, Pre, Paddles
<1>4. Spent'
  BY <1>3 DEF RInv, Flags, Spent, Begin, PaddleFlags, Paddles, Other, Pre, Post, Neither
<1> QED BY <1>1, <1>2, <1>4 DEF RInv

\* The pause after an element is over (AFTERDOT, AFTERDASH).
LEMMA AfterRInv ==
  ASSUME RInv, NEW p \in Paddles, After(p)
  PROVE  RInv'
<1> DEFINE o == Other(p)
           h == IF set.mode = "A" /\ pad = Neither THEN FALSE ELSE held[o]
<1>1. Flags'
  <2>1. o \in Paddles /\ held \in PaddleFlags /\ mem \in PaddleFlags
    BY DEF RInv, Flags, Other, Paddles
  <2>2. h \in BOOLEAN
    BY <2>1 DEF PaddleFlags
  <2>3. held' = [held EXCEPT ![o] = h]
    BY DEF After
  <2>4. held' \in PaddleFlags
    BY <2>1, <2>2, <2>3 DEF PaddleFlags
  <2>5. mem' = Neither \/ mem' = mem
    BY DEF After
  <2>6. mem' \in PaddleFlags
    BY <2>1, <2>5 DEF PaddleFlags, Neither
  <2>7. UNCHANGED <<set, pad, began>>
    BY DEF After, history
  <2> QED BY <2>4, <2>6, <2>7 DEF RInv, Flags
<1>2. key' \in {"PREDOT", "PREDASH", "LETTERSPACE", "EXITLOOP"}
  BY DEF After, Pre
<1>3. Remembers'
  BY <1>2 DEF Remembers, Post
<1>4. ASSUME extra = 0 PROVE Spent'
  BY <1>4 DEF After, Spent, history
<1>5. ASSUME extra = 1 PROVE Spent'
  <2>1. ~pad["dot"] /\ ~pad["dash"] /\ ~mem[o] /\ ~held[o] /\ ~pad[o] /\ ~pad[p]
    BY <1>5 DEF RInv, Spent, After, Paddles, Other
  <2>2. key' = IF set.spacing THEN "LETTERSPACE" ELSE "EXITLOOP"
    BY <2>1 DEF After
  <2>3. set.spacing => mem' = Neither
    BY <2>1 DEF After
  <2> QED BY <1>5, <2>1, <2>2, <2>3 DEF After, Spent, Post, Neither, Paddles, history
<1> QED BY <1>1, <1>3, <1>4, <1>5 DEF RInv, Spent

\* Every other step of the thread moves to a state that begins an element only
\* if a paddle is pressed or a memory is set.
LEMMA ThreadRInv ==
  ASSUME RInv, Start \/ Wake \/ OnAir \/ OffAir \/ ExitLoop \/ Check \/ Straight
               \/ AfterBugDot \/ LetterSpace
  PROVE  RInv'
<1>1. UNCHANGED <<set, pad, mem, held, history>>
  BY DEF Start, Wake, OnAir, OffAir, ExitLoop, Check, Straight, AfterBugDot, LetterSpace
<1>2. Flags'
  BY <1>1 DEF RInv, Flags, history
<1>3. \A p \in Paddles : key' # Post(p)
  BY DEF Start, Wake, OnAir, OffAir, ExitLoop, Check, Straight, AfterBugDot, LetterSpace,
         Post, Pressed
<1>4. Remembers'
  BY <1>3 DEF Remembers
<1>5. ASSUME extra = 1
      PROVE  key' \notin {"PREDOT", "PREDASH", "STRAIGHT"}
             /\ (key' = "LETTERSPACE" => ~mem["dot"] /\ ~mem["dash"])
  BY <1>5 DEF RInv, Spent, Start, Wake, OnAir, OffAir, ExitLoop, Check, Straight, AfterBugDot,
              LetterSpace, Pressed
<1>6. Spent'
  BY <1>1, <1>3, <1>5 DEF RInv, Spent, history
<1> QED BY <1>2, <1>4, <1>6 DEF RInv

\* The keyer is started: a new thread, but the old memories.
LEMMA KeyerInitRInv ==
  ASSUME RInv, KeyerInit
  PROVE  RInv'
<1>1. Flags'
  BY DEF RInv, Flags, KeyerInit, history
<1>2. Remembers' /\ Spent'
  BY DEF RInv, Remembers, Spent, KeyerInit, history, Post, Paddles
<1> QED BY <1>1, <1>2 DEF RInv

\* Settings change, paddles and memories do not.
LEMMA SettingsRInv ==
  ASSUME RInv,
         \/ \E mode \in Modes, spacing \in Spacings : ChangeKeyer(mode, spacing)
         \/ \E b \in SdValues : CatSd(b)
  PROVE  RInv'
<1>1. UNCHANGED <<pad, mem, held, key, history>>
  BY DEF ChangeKeyer, CatSd
<1>2. set' \in Settings
  <2>1. set \in Settings
    BY DEF RInv, Flags
  <2>2. ASSUME NEW m \in Modes, NEW s \in Spacings, ChangeKeyer(m, s)
        PROVE  set' \in Settings
    <3>1. set' = [set EXCEPT !.mode = m, !.spacing = s]
      BY <2>2 DEF ChangeKeyer
    <3> QED BY ONLY <2>1, <3>1, m \in Modes, s \in Spacings, Zenon DEF Settings
  <2>3. ASSUME NEW b \in SdValues, CatSd(b)
        PROVE  set' \in Settings
    <3>1. set' = [set EXCEPT !.breakin = (b = 0), !.hang = b]
      BY <2>3 DEF CatSd
    <3>2. (b = 0) \in BOOLEAN /\ b \in Nat
      BY KeyerAssumption
    <3> QED BY ONLY <2>1, <3>1, <3>2, Zenon DEF Settings
  <2> QED BY <2>2, <2>3
<1>3. set'.mode \in Modes
  BY <1>2 DEF Settings
<1> QED BY <1>1, <1>2, <1>3 DEF RInv, Flags, Remembers, Spent, history

\* Each step of the keyer keeps the invariant.
LEMMA NextRInv ==
  ASSUME RInv, [Next]_vars
  PROVE  RInv'
<1>1. CASE UNCHANGED vars
  BY <1>1, SameRInv DEF vars, history
<1>2. CASE \E p \in Paddles : Begin(p) \/ After(p)
  BY <1>2, BeginRInv, AfterRInv
<1>3. CASE \E p \in Hits : Hit(p) \/ Release(p)
  BY <1>3, HitRInv, ReleaseRInv, KeyerAssumption DEF Paddles
<1>4. CASE Start \/ Wake \/ OnAir \/ OffAir \/ ExitLoop \/ Check \/ Straight
           \/ AfterBugDot \/ LetterSpace
  BY <1>4, ThreadRInv
<1>5. CASE \/ ReportHeld \/ FootSwitch \/ KeyerClose \/ Serve \/ Joined
           \/ CatThread
  BY <1>5, SameRInv DEF ReportHeld, FootSwitch, KeyerClose, Serve, ServeOn, ServeOff, Joined, CatThread, CatIdle,
           CatSend, CatOnAir, CatTest, CatEnd, CatStop
<1>6. CASE KeyerInit
  BY <1>6, KeyerInitRInv
<1>7. CASE \/ \E mode \in Modes, spacing \in Spacings : ChangeKeyer(mode, spacing)
           \/ \E b \in SdValues : CatSd(b)
  BY <1>7, SettingsRInv
<1> QED BY <1>1, <1>2, <1>3, <1>4, <1>5, <1>6, <1>7 DEF Next, Thread, Operator
-----------------------------------------------------------------------------
\* The invariant of the keyer's memories holds in every state.
THEOREM MemoryInvariance == Spec => []RInv
<1>1. Init => RInv
  BY InitRInv
<1>2. RInv /\ [Next]_vars => RInv'
  BY NextRInv
<1> QED BY <1>1, <1>2, PTL DEF Spec

\* After the paddles are released keyer_thread() begins at most one more
\* element.
THEOREM RunawayExcluded == Spec => []NoRunaway
<1>1. RInv => NoRunaway
  BY DEF RInv, Spent, NoRunaway
<1> QED BY <1>1, MemoryInvariance, PTL

\* The thread has ended whenever the keyer is off and the main loop runs.
LEMMA StoppedInvariance == Spec => []Stopped
<1>1. Init => Stopped
  BY DEF Init, Stopped
<1>2. Stopped /\ [Next]_vars => Stopped'
  <2> SUFFICES ASSUME Stopped, [Next]_vars PROVE Stopped'
    OBVIOUS
  <2>1. CASE UNCHANGED <<main, running, key>>
    BY <2>1 DEF Stopped
  <2>2. CASE Thread
    <3>1. key # "ended"
      BY <2>2 DEF Thread, Start, Wake, OnAir, OffAir, ExitLoop, Check, Straight, AfterBugDot,
                  LetterSpace, Begin, After, Pre, Post
    <3>2. UNCHANGED <<main, running>>
      BY <2>2 DEF Thread, Start, Wake, OnAir, OffAir, ExitLoop, Check, Straight, AfterBugDot,
                  LetterSpace, Begin, After
    <3> QED BY <3>1, <3>2 DEF Stopped
  <2>3. CASE KeyerClose \/ KeyerInit \/ Joined
    BY <2>3 DEF KeyerClose, KeyerInit, Joined, Stopped
  <2>4. ASSUME Operator, ~KeyerClose, ~KeyerInit
        PROVE  UNCHANGED <<main, running, key>>
    BY <2>4 DEF Operator, Hit, Release, ReportHeld, FootSwitch, ChangeKeyer, CatSd
  <2>5. ASSUME Serve \/ CatThread
        PROVE  UNCHANGED <<main, running, key>>
    BY <2>5 DEF Serve, ServeOn, ServeOff, CatThread, CatIdle,
           CatSend, CatOnAir, CatTest, CatEnd, CatStop
  <2> QED BY <2>1, <2>2, <2>3, <2>4, <2>5 DEF Next, vars
<1> QED BY <1>1, <1>2, PTL DEF Spec

\* The step at the end of an element decides by memory and flag, which tell
\* what the paddles did.
LEMMA RuleAfter ==
  ASSUME RInv, NEW p \in Paddles, After(p)
  PROVE  IambicStep
<1> DEFINE o == Other(p)
<1>1. \A q \in Paddles : key = Post(q) => q = p
  BY DEF After, Post, Paddles
<1>2. /\ mem[o] <=> o \in tap
      /\ held[o] <=> began[o]
  BY DEF RInv, Remembers, After
<1>3. set.mode # "STRAIGHT" => set.mode = "A" \/ set.mode = "B"
  BY KeyerAssumption DEF RInv, Flags
<1>4. Pre(o) # Pre(p) /\ Pre(o) # "LETTERSPACE" /\ Pre(o) # "EXITLOOP"
  BY DEF Pre, Other, Paddles
<1>5. key' = Pre(o) <=> mem[o] \/ pad[o] \/ (held[o] /\ ~(set.mode = "A" /\ pad = Neither))
  BY <1>4 DEF After
<1> QED BY <1>1, <1>2, <1>3, <1>5 DEF IambicStep

\* keyer_thread() follows the iambic rule in both modes, wherever between two
\* elements the paddles are hit and released.
THEOREM RuleFollowed == Spec => IambicRule
<1>1. RInv /\ Stopped /\ [Next]_vars => [IambicStep]_vars
  <2> SUFFICES ASSUME RInv, Stopped, Next PROVE IambicStep
    BY DEF IambicStep, vars
  <2>1. CASE \E p \in Paddles : After(p)
    BY <2>1, RuleAfter
  <2>2. CASE key' = key
    BY <2>2 DEF IambicStep
  <2>3. CASE \A p \in Paddles : key # Post(p)
    BY <2>3 DEF IambicStep
  <2>4. CASE AfterBugDot
    BY <2>4 DEF AfterBugDot, IambicStep
  <2>5. ASSUME Start \/ Wake \/ OnAir \/ OffAir \/ ExitLoop \/ Check \/ Straight \/ LetterSpace
               \/ \E p \in Paddles : Begin(p)
        PROVE  \A p \in Paddles : key # Post(p)
    BY <2>5 DEF Start, Wake, OnAir, OffAir, ExitLoop, Check, Straight, LetterSpace, Begin,
                Pre, Post
  <2>6. ASSUME KeyerInit PROVE \A p \in Paddles : key # Post(p)
    BY <2>6 DEF KeyerInit, Stopped, Post
  <2>7. ASSUME Operator, ~KeyerInit PROVE key' = key
    BY <2>7 DEF Operator, Hit, Release, ReportHeld, FootSwitch, KeyerClose, ChangeKeyer, CatSd
  <2>8. ASSUME Serve \/ Joined \/ CatThread
        PROVE  key' = key
    BY <2>8 DEF Serve, ServeOn, ServeOff, Joined, CatThread, CatIdle,
           CatSend, CatOnAir, CatTest, CatEnd, CatStop
  <2> QED BY <2>1, <2>2, <2>3, <2>4, <2>5, <2>6, <2>7, <2>8 DEF Next, Thread
<1> QED BY <1>1, MemoryInvariance, StoppedInvariance, PTL DEF Spec, IambicRule
-----------------------------------------------------------------------------
\* At the start no paddle is pressed and nothing is counted.
LEMMA InitCounted == Init => Counted
BY DEF Init, Counted, Down, Neither, Paddles, Leaving, Pre, Post

\* A step that leaves paddles, memories, state and count alone.
LEMMA SameCounted ==
  ASSUME Counted, UNCHANGED <<pad, mem, held, sem, key, running>>
  PROVE  Counted'
BY DEF Counted, Down

\* A paddle that is hit is counted at once.
LEMMA HitCounted ==
  ASSUME Flags, Counted, NEW p \in Paddles, Hit(p)
  PROVE  Counted'
<1>1. pad' = [pad EXCEPT ![p] = TRUE] /\ ~pad[p] /\ pad \in [Paddles -> BOOLEAN]
  BY DEF Hit, Flags, PaddleFlags
<1>2. Down' = Down + 1
  BY <1>1 DEF Down, Paddles
<1>3. sem' = sem + 1 /\ running' /\ key' = key /\ sem \in Nat /\ Down \in Nat
  BY DEF Hit, Counted, Down
<1> QED BY <1>2, <1>3 DEF Counted

\* A release takes nothing from the count.
LEMMA ReleaseCounted ==
  ASSUME Flags, Counted, NEW p \in Paddles, Release(p)
  PROVE  Counted'
<1>1. pad' = [pad EXCEPT ![p] = FALSE] /\ pad[p] /\ pad \in [Paddles -> BOOLEAN]
  BY DEF Release, Flags, PaddleFlags
<1>2. Down' = Down - 1 /\ Down \in Nat
  BY <1>1 DEF Down, Paddles
<1>3. UNCHANGED <<sem, key, mem, held, running>> /\ running
  BY DEF Release
<1>4. \A q \in Paddles : ~pad[q] => ~pad'[q]
  BY <1>1
<1>5. \A q \in Paddles : Other(q) \in Paddles
  BY DEF Other, Paddles
<1>6. sem \in Nat /\ Down' <= sem + 1 /\ (key \in Leaving => Down' <= sem)
  BY <1>2 DEF Counted
<1> QED BY <1>3, <1>4, <1>5, <1>6 DEF Counted

\* The thread wakes up, which takes one hit from the count.
LEMMA WakeCounted ==
  ASSUME Flags, Counted, Wake
  PROVE  Counted'
<1>1. sem' = sem - 1 /\ sem > 0 /\ sem \in Nat /\ Down <= sem /\ Down' = Down
  BY DEF Wake, Counted, Leaving, Down
<1>2. UNCHANGED <<pad, mem, held, running>>
  BY DEF Wake
<1>3. key' \in {"start", "mox", "CHECK"} /\ (key' = "start" => pad = Neither)
  BY DEF Wake
<1>4. pad = Neither => Down = 0
  BY DEF Down, Neither, Paddles
<1>5. sem' \in Nat /\ Down' <= sem' + 1 /\ (key' = "start" => Down' <= sem')
  BY <1>1, <1>3, <1>4
<1> QED BY <1>2, <1>3, <1>5 DEF Counted, Leaving, Pre, Post

\* CHECK begins the element of a paddle that is pressed; if no other hit is
\* counted it is the only one.
LEMMA CheckCounted ==
  ASSUME Flags, Counted, Check
  PROVE  Counted'
<1>1. UNCHANGED <<pad, mem, held, sem, running>> /\ key' = Pressed /\ Down' = Down
  BY DEF Check, Down
<1>2. sem \in Nat /\ Down <= sem + 1
  BY DEF Counted
<1>3. sem = 0 => ~(pad["dot"] /\ pad["dash"])
  BY <1>2 DEF Down
<1>4. key' \in Leaving => Down = 0
  BY <1>1 DEF Pressed, Leaving, Down
<1>5. sem = 0 => \A p \in Paddles : key' = Pre(p) => ~pad[Other(p)]
  BY <1>1, <1>3 DEF Pressed, Pre, Paddles, Other
<1>6. \A p \in Paddles : key' # Post(p)
  BY <1>1 DEF Pressed, Post
<1>7. key' # "LETTERSPACE"
  BY <1>1 DEF Pressed
<1>8. key' \in Leaving => Down' <= sem'
  BY <1>1, <1>2, <1>4
<1> QED BY <1>1, <1>2, <1>5, <1>6, <1>7, <1>8 DEF Counted

\* An element begins with the other paddle's memory cleared.
LEMMA BeginCounted ==
  ASSUME Flags, Counted, NEW p \in Paddles, Begin(p)
  PROVE  Counted'
<1>1. UNCHANGED <<pad, sem, running>> /\ Down' = Down /\ key' = Post(p) /\ key = Pre(p)
  BY DEF Begin, Down
<1>2. ~mem'[Other(p)] /\ (held'[Other(p)] <=> pad[Other(p)])
  BY DEF Begin, Flags, PaddleFlags, Other, Paddles
<1>3. key' \notin Leaving /\ \A q \in Paddles : key' # Pre(q) /\ (key' = Post(q) => q = p)
  BY <1>1 DEF Leaving, Pre, Post, Paddles
<1> QED BY <1>1, <1>2, <1>3 DEF Counted, Leaving

\* After an element: as long as no other hit is counted the thread repeats the
\* element of the paddle that has woken it, or it is released and leaves.
LEMMA AfterCounted ==
  ASSUME Flags, Counted, NEW p \in Paddles, After(p)
  PROVE  Counted'
<1> DEFINE o == Other(p)
           stop == ~mem[o] /\ ~pad[o] /\ ~pad[p]
<1>1. UNCHANGED <<pad, sem, running>> /\ Down' = Down /\ key = Post(p)
  BY DEF After, Down
<1>2. sem = 0 => ~pad[o] /\ ~mem[o] /\ ~held[o]
  BY <1>1 DEF Counted
<1>3. key' \in {Pre(o), Pre(p), "LETTERSPACE", "EXITLOOP"}
  BY DEF After
<1>4. key' \in {"LETTERSPACE", "EXITLOOP"} => stop
  BY DEF After, Pre
<1>5. stop => Down = 0
  BY DEF Down, Paddles, Other
<1>6. key' = "LETTERSPACE" => mem' = Neither
  BY DEF After, Pre
<1>7. sem = 0 => key' # Pre(o)
  BY <1>2 DEF After, Pre, Other, Paddles
<1>8. key' \in Leaving => Down' <= sem'
  BY <1>1, <1>3, <1>4, <1>5 DEF Leaving, Pre, Counted
<1>9. sem = 0 => \A q \in Paddles : key' = Pre(q) => ~pad[Other(q)]
  BY <1>2, <1>3, <1>7 DEF Pre, Paddles, Other
<1>10. \A q \in Paddles : key' # Post(q)
  BY <1>3 DEF Pre, Post
<1>11. key' = "LETTERSPACE" => ~mem'["dot"] /\ ~mem'["dash"]
  BY <1>6 DEF Neither, Paddles
<1> QED BY <1>1, <1>8, <1>9, <1>10, <1>11 DEF Counted

\* The remaining steps inside and outside the inner loop.
LEMMA LoopCounted ==
  ASSUME Flags, Counted,
         Start \/ OnAir \/ OffAir \/ ExitLoop \/ Straight \/ AfterBugDot \/ LetterSpace
  PROVE  Counted'
<1>1. UNCHANGED <<pad, mem, held, sem, running>> /\ Down' = Down
  BY DEF Start, OnAir, OffAir, ExitLoop, Straight, AfterBugDot, LetterSpace, Down
<1>2. \A p \in Paddles : key' # Post(p)
  BY DEF Start, OnAir, OffAir, ExitLoop, Straight, AfterBugDot, LetterSpace, Post
<1>3. sem \in Nat /\ Down \in Nat /\ Down <= sem + 1
  BY DEF Counted, Down
<1>4. key' \in Leaving => Down <= sem
  <2>1. CASE Start \/ OffAir \/ ExitLoop \/ LetterSpace
    BY <2>1 DEF Start, OffAir, ExitLoop, LetterSpace, Counted, Leaving
  <2>2. CASE OnAir \/ Straight
    BY <2>2 DEF OnAir, Straight, Leaving
  <2>3. CASE AfterBugDot
    <3>1. sem = 0 => ~pad["dash"]
      BY <2>3 DEF AfterBugDot, Counted, Post, Other, Paddles
    <3>2. key' \in Leaving => ~pad["dot"]
      BY <2>3 DEF AfterBugDot, Leaving
    <3> QED BY <1>3, <3>1, <3>2 DEF Down
  <2> QED BY <2>1, <2>2, <2>3
<1>5. sem = 0 => \A p \in Paddles : key' = Pre(p) => ~pad[Other(p)]
  <2>1. CASE Start \/ OnAir \/ OffAir \/ ExitLoop \/ Straight
    BY <2>1 DEF Start, OnAir, OffAir, ExitLoop, Straight, Pre, Paddles
  <2>2. CASE LetterSpace
    BY <2>2 DEF LetterSpace, Counted, Pre, Paddles
  <2>3. CASE AfterBugDot
    BY <2>3 DEF AfterBugDot, Counted, Pre, Post, Other, Paddles
  <2> QED BY <2>1, <2>2, <2>3
<1>6. sem = 0 /\ key' = "LETTERSPACE" => ~mem["dot"] /\ ~mem["dash"]
  BY DEF Start, OnAir, OffAir, ExitLoop, Straight, AfterBugDot, LetterSpace, Counted
<1> QED BY <1>1, <1>2, <1>3, <1>4, <1>5, <1>6 DEF Counted

\* Stopping and starting, as long as the menu is not used with a paddle held.
LEMMA StopCounted ==
  ASSUME Menu # "any", Counted, KeyerClose \/ KeyerInit
  PROVE  Counted'
<1>1. CASE KeyerClose
  <2>1. pad = Neither /\ pad' = pad /\ sem' = sem + 1 /\ UNCHANGED <<key, mem, held>>
    BY <1>1 DEF KeyerClose, InMenu
  <2>2. ~pad["dot"] /\ ~pad["dash"]
    BY <2>1 DEF Neither, Paddles
  <2>3. Down' = 0
    BY <2>1, <2>2 DEF Down
  <2> QED BY <2>1, <2>2, <2>3 DEF Counted
<1>2. CASE KeyerInit
  <2>1. ~pad["dot"] /\ ~pad["dash"] /\ pad' = pad /\ sem' = 0 /\ key' = "start" /\ running'
    BY <1>2 DEF KeyerInit, Counted
  <2>2. Down' = 0
    BY <2>1 DEF Down
  <2> QED BY <2>1, <2>2 DEF Counted, Pre, Post
<1> QED BY <1>1, <1>2

\* No hit of a paddle is lost for the semaphore between the last look at the
\* paddles and sem_wait(), if the CW menu is used with the paddles released.
THEOREM WakeupsKept ==
  ASSUME Menu # "any"
  PROVE  Spec => []NoLostWakeup
<1>1. Init => Counted
  BY InitCounted
<1>2. RInv /\ Counted /\ [Next]_vars => Counted'
  <2> SUFFICES ASSUME Flags, Counted, [Next]_vars PROVE Counted'
    BY DEF RInv
  <2>1. CASE UNCHANGED vars
    BY <2>1, SameCounted DEF vars
  <2>2. CASE \E p \in Paddles : Begin(p) \/ After(p)
    BY <2>2, BeginCounted, AfterCounted
  <2>3. CASE \E p \in Hits : Hit(p) \/ Release(p)
    BY <2>3, HitCounted, ReleaseCounted, KeyerAssumption DEF Paddles
  <2>4. CASE Start \/ OnAir \/ OffAir \/ ExitLoop \/ Straight \/ AfterBugDot \/ LetterSpace
    BY <2>4, LoopCounted
  <2>5. CASE Check \/ Wake
    BY <2>5, CheckCounted, WakeCounted
  <2>6. CASE KeyerClose \/ KeyerInit
    BY <2>6, StopCounted
  <2>7. CASE \/ ReportHeld \/ FootSwitch \/ Serve \/ Joined
             \/ CatThread
    BY <2>7, SameCounted DEF ReportHeld, FootSwitch, Serve, ServeOn, ServeOff, Joined, CatThread, CatIdle,
           CatSend, CatOnAir, CatTest, CatEnd, CatStop
  <2>8. CASE \/ \E mode \in Modes, spacing \in Spacings : ChangeKeyer(mode, spacing)
             \/ \E b \in SdValues : CatSd(b)
    BY <2>8, SameCounted DEF ChangeKeyer, CatSd
  <2> QED BY <2>1, <2>2, <2>3, <2>4, <2>5, <2>6, <2>7, <2>8 DEF Next, Thread, Operator
<1>3. RInv /\ Counted => NoLostWakeup
  <2> SUFFICES ASSUME RInv, Counted, key \in {"start", "wait"}, pad # Neither PROVE sem > 0
    BY DEF NoLostWakeup
  <2>1. sem \in Nat /\ Down <= sem
    BY DEF Counted, Leaving
  <2>2. pad["dot"] \/ pad["dash"]
    BY DEF RInv, Flags, PaddleFlags, Neither, Paddles
  <2> QED BY <2>1, <2>2 DEF Down
<1> QED BY <1>1, <1>2, <1>3, MemoryInvariance, PTL DEF Spec
=============================================================================
