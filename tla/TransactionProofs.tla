------------------------- MODULE TransactionProofs -------------------------
(***************************************************************************)
(* withTransaction for any number of units, attempts and levels: its depth *)
(* counter is SQLite's own nesting, and it implements AtomicStore.         *)
(*                                                                         *)
(* The invariant follows the call stack: what the connection sees is what  *)
(* is durable plus the rows of the open calls (Layers), and the units of   *)
(* the open calls are new, distinct and not refused (Owned).  Both rest on *)
(* bodies letting an error pass with which SQLite ended the transaction    *)
(* (BodiesRethrow); the types and the nesting do not.                      *)
(***************************************************************************)
EXTENDS Transaction, SequenceTheorems, TLAPS

\* An error with which SQLite ended the transaction leaves every body, or there is none.
BodiesRethrow == CatchesAborts => MaxAborts = 0

Own(f)  == {f.unit} \cup f.inner
Rows(f) == (f.inner \X Parts) \cup {<<f.unit, p>> : p \in 1 .. f.wrote}

\* What the connection sees with the lowest i calls of F, when D is durable.
BaseOf(D, F, i) == D \cup UNION {Rows(F[k]) : k \in 1 .. i}
Base(i) == BaseOf(disk, frames, i)

\* Calls nest, and the depth is their number; the topmost one may not have begun.
Nested ==
    /\ \A i \in 1 .. Len(frames) :
          /\ frames[i].depth = i - 1
          /\ i < Len(frames) => frames[i].pc = "body"
          /\ frames[i].pc = "begin" => frames[i].wrote = 0 /\ frames[i].inner = {}
          /\ frames[i].pc = "committed" => i = 1
    /\ depth = IF frames # <<>> /\ Top.pc = "begin" THEN Len(frames) - 1 ELSE Len(frames)
    /\ throwing => InBody

Committed == frames # <<>> /\ Top.pc = "committed"

\* Every open level of the connection began with the rows of the calls below it.
Layers ==
    IF throwing \/ Committed
    THEN stack = <<>> /\ work = disk
    ELSE /\ stack = <<>> => work = disk
         /\ depth > 0 => /\ Len(stack) = depth
                         /\ \A i \in 1 .. depth : stack[i] = Base(i - 1)
                         /\ work = Base(depth)

\* The units of the open calls.
Owned ==
    /\ disk \subseteq begun \X Parts
    /\ failed \subseteq begun
    /\ \A i \in 1 .. Len(frames) :
          /\ Own(frames[i]) \subseteq begun \ failed
          /\ frames[i].pc # "committed" => (Own(frames[i]) \X Parts) \cap disk = {}
          /\ frames[i].pc = "committed" => Own(frames[i]) \X Parts \subseteq disk
          /\ \A j \in 1 .. Len(frames) : i # j => Own(frames[i]) \cap Own(frames[j]) = {}

(***************************************************************************)
(* The call stack                                                          *)
(***************************************************************************)

\* The topmost call becomes f.
Replaced(f) ==
    /\ frames' \in Seq(FrameType)
    /\ Len(frames') = Len(frames)
    /\ frames'[Len(frames)] = f
    /\ \A i \in 1 .. Len(frames) - 1 : frames'[i] = frames[i]

\* The topmost call is over.
Popped ==
    /\ frames' \in Seq(FrameType)
    /\ Len(frames') = Len(frames) - 1
    /\ \A i \in 1 .. Len(frames) - 1 : frames'[i] = frames[i]

Restarted(f) == [f EXCEPT !.attempt = @ + 1, !.pc = "begin", !.wrote = 0, !.inner = {}]

\* Dropping the last element of a sequence.
LEMMA Pop ==
    ASSUME NEW S, NEW s \in Seq(S), s # <<>>
    PROVE  /\ SubSeq(s, 1, Len(s) - 1) \in Seq(S)
           /\ Len(SubSeq(s, 1, Len(s) - 1)) = Len(s) - 1
           /\ \A i \in 1 .. Len(s) - 1 : SubSeq(s, 1, Len(s) - 1)[i] = s[i]
  <1>1. Len(s) \in Nat /\ Len(s) > 0
    BY EmptySeq
  <1> DEFINE n == Len(s) - 1
  <1>2. n \in Nat /\ \A i \in 1 .. n : s[i] \in S
    BY <1>1, ElementOfSeq
  <1> HIDE DEF n
  <1>3. /\ SubSeq(s, 1, n) \in Seq(S)
        /\ Len(SubSeq(s, 1, n)) = n
        /\ \A i \in 1 .. n : SubSeq(s, 1, n)[i] = s[i]
    BY <1>2, SubSeqProperties
  <1> QED BY <1>3 DEF n

\* The topmost call of a non-empty stack.
LEMMA TopCall ==
    ASSUME TypeOK, frames # <<>>
    PROVE  /\ Len(frames) \in 1 .. MaxDepth /\ Len(frames) \in Nat /\ Len(frames) > 0
           /\ Top = frames[Len(frames)] /\ Top \in FrameType
           /\ \A i \in 1 .. Len(frames) : frames[i] \in FrameType
  <1>1. frames \in Seq(FrameType) /\ Len(frames) <= MaxDepth /\ MaxDepth \in Nat
    BY TransactionAssumption DEF TypeOK
  <1>2. Len(frames) \in Nat /\ Len(frames) > 0
    BY <1>1, EmptySeq
  <1> QED BY <1>1, <1>2, ElementOfSeq DEF Top

LEMMA SetTopReplaces ==
    ASSUME TypeOK, frames # <<>>, NEW f \in FrameType, SetTop(f) PROVE Replaced(f)
  <1>1. frames \in Seq(FrameType) /\ Len(frames) \in Nat
    BY TopCall DEF TypeOK
  <1>2. /\ Below \in Seq(FrameType) /\ Len(Below) = Len(frames) - 1
        /\ \A i \in 1 .. Len(frames) - 1 : Below[i] = frames[i]
    BY <1>1, Pop DEF Below
  <1>3. /\ frames' \in Seq(FrameType) /\ Len(frames') = Len(Below) + 1
        /\ frames'[Len(Below) + 1] = f
        /\ \A i \in 1 .. Len(Below) : frames'[i] = Below[i]
    BY <1>2, AppendProperties DEF SetTop
  <1> QED BY <1>1, <1>2, <1>3 DEF Replaced

LEMMA BelowPops == ASSUME TypeOK, frames # <<>>, frames' = Below PROVE Popped
  BY Pop DEF TypeOK, Below, Popped

\* A call stays a call when one of its fields changes.
LEMMA CallFields ==
    ASSUME NEW f \in FrameType
    PROVE  /\ \A a \in 1 .. Attempts : [f EXCEPT !.attempt = a] \in FrameType
           /\ \A pc \in {"begin", "body", "committed"} : [f EXCEPT !.pc = pc] \in FrameType
           /\ \A d \in 0 .. MaxDepth : [f EXCEPT !.depth = d] \in FrameType
           /\ \A w \in 0 .. 2 : [f EXCEPT !.wrote = w] \in FrameType
           /\ \A S \in SUBSET Units : [f EXCEPT !.inner = S] \in FrameType
  BY DEF FrameType

LEMMA RestartedCall ==
    ASSUME NEW f \in FrameType, f.attempt + 1 \in 1 .. Attempts
    PROVE  Restarted(f) \in FrameType
  <1> DEFINE a == [f EXCEPT !.attempt = f.attempt + 1]
             b == [a EXCEPT !.pc = "begin"]
             c == [b EXCEPT !.wrote = 0]
             d == [c EXCEPT !.inner = {}]
  <1>1. Restarted(f) = d
    BY DEF Restarted
  <1>2. a \in FrameType
    BY CallFields
  <1> HIDE DEF a
  <1>3. b \in FrameType
    BY <1>2, CallFields
  <1> HIDE DEF b
  <1>4. c \in FrameType
    BY <1>3, 0 \in 0 .. 2, CallFields
  <1> HIDE DEF c
  <1>5. d \in FrameType
    BY <1>4, CallFields
  <1> QED BY <1>1, <1>5

\* What the error path makes of the call.
LEMMA AttemptEnds ==
    ASSUME TypeOK, frames # <<>>, NEW retryable \in BOOLEAN, AttemptFails(Top, retryable)
    PROVE  \/ /\ Replaced(Restarted(Top)) /\ Restarted(Top) \in FrameType
              /\ UNCHANGED <<failed, throwing>>
           \/ /\ Popped
              /\ failed' = failed \cup {Top.unit}
              /\ throwing' = (throwing /\ Len(frames) > 1)
  <1>1. CASE retryable /\ Top.attempt < Attempts
    <2>1. Restarted(Top) \in FrameType
      <3>1. Top \in FrameType /\ Attempts \in Nat
        BY TopCall, TransactionAssumption
      <3>2. Top.attempt + 1 \in 1 .. Attempts
        BY <1>1, <3>1 DEF FrameType
      <3> QED BY <3>1, <3>2, RestartedCall
    <2>2. SetTop(Restarted(Top)) /\ UNCHANGED <<failed, throwing>>
      BY <1>1 DEF AttemptFails, Retry, Restarted
    <2> QED BY <2>1, <2>2, SetTopReplaces
  <1>2. CASE ~(retryable /\ Top.attempt < Attempts)
    BY <1>2, BelowPops DEF AttemptFails, Throw
  <1> QED BY <1>1, <1>2

(***************************************************************************)
(* Types and nesting                                                       *)
(***************************************************************************)

Framed == frames \in Seq(FrameType) /\ Len(frames) <= MaxDepth

LEMMA ReplacedNests ==
    ASSUME TypeOK, Nested, frames # <<>>, NEW f \in FrameType, Replaced(f),
           f.depth = Len(frames) - 1,
           f.pc = "begin" => f.wrote = 0 /\ f.inner = {},
           f.pc = "committed" => Len(frames) = 1,
           depth' = IF f.pc = "begin" THEN Len(frames) - 1 ELSE Len(frames),
           throwing' => f.pc = "body"
    PROVE  Nested' /\ Framed' /\ depth' \in 0 .. MaxDepth /\ frames' # <<>> /\ Top' = f
  <1>1. Len(frames) \in 1 .. MaxDepth /\ MaxDepth \in Nat
    BY TopCall, TransactionAssumption
  <1>2. Framed' /\ frames' # <<>> /\ Top' = f
    BY <1>1, EmptySeq DEF Replaced, Framed, Top
  <1>3. \A i \in 1 .. Len(frames') :
          /\ frames'[i].depth = i - 1
          /\ i < Len(frames') => frames'[i].pc = "body"
          /\ frames'[i].pc = "begin" => frames'[i].wrote = 0 /\ frames'[i].inner = {}
          /\ frames'[i].pc = "committed" => i = 1
    <2> SUFFICES ASSUME NEW i \in 1 .. Len(frames)
                 PROVE  /\ frames'[i].depth = i - 1
                        /\ i < Len(frames) => frames'[i].pc = "body"
                        /\ frames'[i].pc = "begin" => frames'[i].wrote = 0 /\ frames'[i].inner = {}
                        /\ frames'[i].pc = "committed" => i = 1
      BY DEF Replaced
    <2>1. CASE i = Len(frames)
      BY <1>1, <2>1 DEF Replaced
    <2>2. CASE i < Len(frames)
      <3>1. i \in 1 .. Len(frames) - 1 /\ frames'[i] = frames[i]
        BY <1>1, <2>2 DEF Replaced
      <3> QED BY <1>1, <2>2, <3>1 DEF Nested
    <2> QED BY <1>1, <2>1, <2>2
  <1>4. depth' = IF Top'.pc = "begin" THEN Len(frames') - 1 ELSE Len(frames')
    BY <1>2 DEF Replaced
  <1> QED BY <1>1, <1>2, <1>3, <1>4 DEF Nested, InBody

LEMMA PoppedNests ==
    ASSUME TypeOK, Nested, frames # <<>>, Popped, depth' = Len(frames) - 1,
           throwing' => Len(frames) > 1
    PROVE  Nested' /\ Framed' /\ depth' \in 0 .. MaxDepth
  <1>1. Len(frames) \in 1 .. MaxDepth /\ MaxDepth \in Nat
    BY TopCall, TransactionAssumption
  <1>2. Framed'
    BY <1>1 DEF Popped, Framed
  <1>3. \A i \in 1 .. Len(frames') :
          /\ frames'[i].depth = i - 1
          /\ frames'[i].pc = "body"
    BY <1>1 DEF Nested, Popped
  <1>4. frames' # <<>> => Len(frames') \in 1 .. Len(frames') /\ Top' = frames'[Len(frames')]
    BY <1>1, EmptySeq DEF Top, Popped
  <1>5. Len(frames) > 1 => frames' # <<>>
    BY <1>1, EmptySeq DEF Popped
  <1> QED BY <1>1, <1>2, <1>3, <1>4, <1>5 DEF Nested, InBody, Popped

LEMMA EmptiedNests ==
    ASSUME frames' = <<>>, depth' = 0, ~throwing' PROVE Nested' /\ Framed' /\ depth' \in 0 .. MaxDepth
  BY EmptySeq, TransactionAssumption DEF Nested, Framed

Connected == /\ disk \subseteq Units \X Parts /\ work \subseteq Units \X Parts
             /\ stack \in Seq(SUBSET (Units \X Parts))

\* Whether or not there is a level to go back to.
LEMMA RollBackConnects ==
    ASSUME TypeOK, NEW f, RollBack(f)
    PROVE  /\ Connected' /\ disk' = disk
           /\ stack # <<>> =>
                /\ work' = stack[Len(stack)] /\ Len(stack') = Len(stack) - 1
                /\ \A i \in 1 .. Len(stack) - 1 : stack'[i] = stack[i]
           /\ stack = <<>> => UNCHANGED <<work, stack>>
  <1>1. Connected
    BY DEF TypeOK, Connected
  <1>2. CASE stack = <<>>
    BY <1>1, <1>2 DEF RollBack, connection, Connected
  <1>3. CASE stack # <<>>
    <2>1. Len(stack) \in Nat /\ Len(stack) > 0
      BY <1>1, <1>3, EmptySeq DEF Connected
    <2>2. stack[Len(stack)] \in SUBSET (Units \X Parts)
      BY <1>1, <2>1, ElementOfSeq DEF Connected
    <2>3. work' = stack[Len(stack)] /\ stack' = SubSeq(stack, 1, Len(stack) - 1) /\ disk' = disk
      BY <1>3 DEF RollBack
    <2>4. /\ stack' \in Seq(SUBSET (Units \X Parts)) /\ Len(stack') = Len(stack) - 1
          /\ \A i \in 1 .. Len(stack) - 1 : stack'[i] = stack[i]
      BY <1>1, <1>3, <2>3, Pop DEF Connected
    <2> QED BY <1>1, <1>3, <2>2, <2>3, <2>4 DEF Connected
  <1> QED BY <1>2, <1>3

\* The topmost call, wherever it is.
LEMMA NestedTop ==
    ASSUME TypeOK, Nested, frames # <<>>
    PROVE  /\ Len(frames) \in 1 .. MaxDepth /\ Len(frames) \in Nat /\ Len(frames) > 0
           /\ Top = frames[Len(frames)] /\ Top \in FrameType
           /\ Top.depth = Len(frames) - 1
           /\ Top.pc = "begin" => depth = Len(frames) - 1 /\ Top.wrote = 0 /\ Top.inner = {}
           /\ Top.pc # "begin" => depth = Len(frames)
           /\ Top.pc = "committed" => Len(frames) = 1
           /\ throwing => Top.pc = "body"
  <1>1. /\ Len(frames) \in 1 .. MaxDepth /\ Len(frames) \in Nat /\ Len(frames) > 0
        /\ Top = frames[Len(frames)] /\ Top \in FrameType
    BY TopCall
  <1>2. /\ Top.depth = Len(frames) - 1
        /\ Top.pc = "begin" => Top.wrote = 0 /\ Top.inner = {}
        /\ Top.pc = "committed" => Len(frames) = 1
    <2> DEFINE n == Len(frames)
    <2>1. n \in 1 .. n
      BY <1>1
    <2>2. /\ frames[n].depth = n - 1
          /\ frames[n].pc = "begin" => frames[n].wrote = 0 /\ frames[n].inner = {}
          /\ frames[n].pc = "committed" => n = 1
      BY <2>1 DEF Nested
    <2> QED BY <1>1, <2>2
  <1> QED BY <1>1, <1>2 DEF Nested, InBody

\* Calls, levels and counters stay typed and nested.
LEMMA ShapeStep == ASSUME TypeOK, Nested, [Next]_vars PROVE TypeOK' /\ Nested'
  <1>0. /\ Framed /\ Connected /\ depth \in 0 .. MaxDepth
        /\ MaxDepth \in Nat \ {0} /\ MaxAborts \in Nat /\ MaxCommitFaults \in Nat /\ MaxCrashes \in Nat
    BY TransactionAssumption DEF TypeOK, Framed, Connected
  <1> DEFINE Fine == Nested' /\ Framed' /\ depth' \in 0 .. MaxDepth
  <1>1. ASSUME NEW u \in Units, Call(u) PROVE Fine /\ TypeOK'
    <2> DEFINE f == [unit |-> u, attempt |-> 1, pc |-> "begin", depth |-> depth,
                     wrote |-> 0, inner |-> {}]
    <2>1. f \in FrameType
      BY <1>0, TransactionAssumption DEF FrameType
    <2>2. Len(frames) \in Nat /\ Len(frames) < MaxDepth /\ depth = Len(frames)
      BY <1>0, <1>1, NestedTop, EmptySeq DEF Call, Framed, InBody, Nested
    <2>3. ~throwing /\ ~throwing' /\ depth' = depth
      BY <1>1 DEF Call, Nested, InBody
    <2>4. /\ frames' \in Seq(FrameType) /\ Len(frames') = Len(frames) + 1
          /\ frames'[Len(frames) + 1] = f
          /\ \A i \in 1 .. Len(frames) : frames'[i] = frames[i]
      BY <1>0, <1>1, <2>1, AppendProperties DEF Call, Framed
    <2>5. \A i \in 1 .. Len(frames) : frames[i].pc = "body"
      <3>1. CASE frames = <<>>
        BY <3>1, EmptySeq
      <3>2. CASE InBody
        BY <1>0, <2>2, <3>2 DEF Nested, InBody, Top
      <3> QED BY <1>1, <3>1, <3>2 DEF Call
    <2>6. \A i \in 1 .. Len(frames) + 1 :
            /\ frames'[i].depth = i - 1
            /\ i < Len(frames) + 1 => frames'[i].pc = "body"
            /\ frames'[i].pc = "begin" => frames'[i].wrote = 0 /\ frames'[i].inner = {}
            /\ frames'[i].pc = "committed" => i = 1
      <3> SUFFICES ASSUME NEW i \in 1 .. Len(frames) + 1
                   PROVE  /\ frames'[i].depth = i - 1
                          /\ i < Len(frames) + 1 => frames'[i].pc = "body"
                          /\ frames'[i].pc = "begin" => frames'[i].wrote = 0 /\ frames'[i].inner = {}
                          /\ frames'[i].pc = "committed" => i = 1
        OBVIOUS
      <3>1. CASE i = Len(frames) + 1
        BY <2>2, <2>4, <3>1
      <3>2. CASE i \in 1 .. Len(frames)
        BY <2>2, <2>4, <2>5, <3>2 DEF Nested
      <3> QED BY <2>2, <3>1, <3>2
    <2>7. frames' # <<>> /\ Top' = f
      BY <2>2, <2>4, EmptySeq DEF Top
    <2>8. Fine
      BY <1>0, <2>2, <2>3, <2>4, <2>6, <2>7 DEF Nested, Framed
    <2> QED BY <1>1, <2>8 DEF Call, TypeOK, Framed, connection, bounds
  <1>2. CASE Begin
    <2> DEFINE f == [Top EXCEPT !.pc = "body", !.depth = depth]
    <2>1. frames # <<>> /\ Top.pc = "begin" /\ ~throwing
      BY <1>2 DEF Begin, Nested, InBody
    <2>2. f \in FrameType /\ f.depth = Len(frames) - 1 /\ f.pc = "body"
      <3>1. Top \in FrameType /\ depth = Len(frames) - 1
        BY <2>1, NestedTop
      <3>2. f = [[Top EXCEPT !.pc = "body"] EXCEPT !.depth = depth]
        OBVIOUS
      <3>3. f \in FrameType
        BY <1>0, <3>1, <3>2, CallFields
      <3> QED BY <3>1, <3>3 DEF FrameType
    <2>3. Replaced(f) /\ depth' = Len(frames) /\ ~throwing'
      <3>1. SetTop(f) /\ depth' = depth + 1 /\ throwing' = throwing
        BY <1>2 DEF Begin
      <3> QED BY <1>0, <2>1, <2>2, <3>1, SetTopReplaces, NestedTop
    <2>4. Fine
      BY <2>1, <2>2, <2>3, ReplacedNests
    <2>5. stack' \in Seq(SUBSET (Units \X Parts))
      BY <1>0, <1>2, AppendProperties DEF Begin, Connected
    <2> QED BY <1>2, <2>1, <2>3, <2>4, <2>5 DEF Begin, TypeOK, Framed, history, bounds
  <1>3. ASSUME NEW retryable \in BOOLEAN, AttemptFails(Top, retryable), frames # <<>>,
               depth' = Len(frames) - 1, Connected', UNCHANGED <<begun, answered, aborts, crashes>>,
               commitFaults' \in 0 .. MaxCommitFaults, throwing => ~retryable
        PROVE  Fine /\ TypeOK'
    <2>1. Top \in FrameType /\ Top.depth = Len(frames) - 1 /\ Len(frames) \in 1 .. MaxDepth
      BY <1>3, NestedTop
    <2>2. failed' \subseteq Units
      <3>1. failed' = failed \/ failed' = failed \cup {Top.unit}
        BY <1>3, AttemptEnds
      <3>2. Top.unit \in Units
        BY <2>1 DEF FrameType
      <3> QED BY <3>1, <3>2 DEF TypeOK
    <2>3. ASSUME Popped, throwing' = (throwing /\ Len(frames) > 1) PROVE Fine
      BY <1>3, <2>3, PoppedNests
    <2>4. ASSUME Replaced(Restarted(Top)), Restarted(Top) \in FrameType, UNCHANGED throwing
          PROVE  Fine
      <3>1. retryable
        <4>1. CASE ~retryable
          <5>1. Popped
            BY <1>3, <4>1, BelowPops DEF AttemptFails, Throw
          <5> QED BY <2>4, <5>1, <2>1, <1>0 DEF Popped, Replaced
        <4> QED BY <4>1
      <3>2. /\ Restarted(Top).depth = Len(frames) - 1 /\ Restarted(Top).pc = "begin"
            /\ Restarted(Top).wrote = 0 /\ Restarted(Top).inner = {}
        BY <2>1 DEF Restarted, FrameType
      <3> QED BY <1>3, <2>4, <3>1, <3>2, ReplacedNests
    <2>5. Fine /\ throwing' \in BOOLEAN
      BY <1>3, <2>3, <2>4, AttemptEnds DEF TypeOK
    <2> QED BY <1>3, <2>2, <2>5 DEF TypeOK, Framed, Connected
  <1>4. CASE BeginFails
    <2>1. /\ frames # <<>> /\ depth = Len(frames) - 1 /\ ~throwing
          /\ depth' = depth /\ AttemptFails(Top, stack = <<>>)
      BY <1>4, NestedTop DEF BeginFails
    <2> QED BY <1>0, <1>3, <1>4, <2>1 DEF BeginFails, connection, bounds, Connected, TypeOK
  <1>5. CASE Write
    <2> DEFINE f == [Top EXCEPT !.wrote = @ + 1]
    <2>1. frames # <<>> /\ Top.pc = "body" /\ ~throwing /\ Top.wrote < 2
      BY <1>5 DEF Write, InBody
    <2>2. Top \in FrameType /\ Top.depth = Len(frames) - 1 /\ depth = Len(frames)
      BY <2>1, NestedTop
    <2>3. f \in FrameType /\ f.depth = Len(frames) - 1 /\ f.pc = "body" /\ Top.wrote + 1 \in Parts
      BY <2>1, <2>2 DEF FrameType, Parts
    <2>4. Replaced(f) /\ depth' = Len(frames) /\ ~throwing'
      BY <1>5, <2>1, <2>2, <2>3, SetTopReplaces DEF Write
    <2>5. Fine
      BY <2>1, <2>3, <2>4, ReplacedNests
    <2>6. Connected'
      <3>1. <<Top.unit, Top.wrote + 1>> \in Units \X Parts
        BY <2>2, <2>3 DEF FrameType
      <3>2. work' = work \cup {<<Top.unit, Top.wrote + 1>>} /\ disk' \in {work', disk} /\ stack' = stack
        BY <1>5 DEF Write
      <3> QED BY <1>0, <3>1, <3>2 DEF Connected
    <2> QED BY <1>5, <2>1, <2>4, <2>5, <2>6 DEF Write, TypeOK, Framed, Connected, history, bounds
  <1>6. ASSUME NEW retryable \in BOOLEAN, BodyThrows(retryable) PROVE Fine /\ TypeOK'
    <2>1. /\ frames # <<>> /\ depth' = Len(frames) - 1 /\ Connected'
          /\ AttemptFails(Top, retryable /\ ~throwing)
      BY <1>6, NestedTop, RollBackConnects DEF BodyThrows, InBody
    <2> QED BY <1>3, <1>6, <2>1 DEF BodyThrows, bounds, TypeOK
  <1>7. CASE Abort
    <2>1. Fine /\ Connected'
      BY <1>0, <1>7, EmptySeq DEF Abort, Nested, Framed, Connected, InBody, Top
    <2> QED BY <1>0, <1>7, <2>1 DEF Abort, TypeOK, Framed, Connected, history
  <1>8. CASE Release
    <2> DEFINE n == Len(frames) - 1
               f == [frames[n] EXCEPT !.inner = @ \cup Top.inner \cup {Top.unit}]
    <2>1. /\ frames # <<>> /\ Top \in FrameType /\ Len(frames) \in 1 .. MaxDepth
          /\ ~throwing /\ Len(frames) > 1 /\ depth' = n
      BY <1>8, NestedTop DEF Release, InBody, IsSavepoint
    <2>2. frames[n] \in FrameType /\ frames[n].pc = "body" /\ frames[n].depth = n - 1
      BY <1>0, <2>1, TopCall DEF Nested
    <2>3. f \in FrameType /\ f.pc = "body" /\ f.depth = n - 1
      BY <2>1, <2>2 DEF FrameType
    <2>4. /\ Below \in Seq(FrameType) /\ Len(Below) = n
          /\ \A i \in 1 .. n : Below[i] = frames[i]
      BY <1>0, <2>1, Pop DEF Below, Framed
    <2>5. frames' = [Below EXCEPT ![n] = f]
      <3>1. frames' = [Below EXCEPT ![n].inner = @ \cup Top.inner \cup {Top.unit}]
        BY <1>8 DEF Release
      <3>2. n \in 1 .. n /\ Below[n] = frames[n]
        BY <2>1, <2>4
      <3> QED BY <3>1, <3>2
    <2>6. /\ frames' \in Seq(FrameType) /\ Len(frames') = n
          /\ \A i \in 1 .. n : frames'[i] = IF i = n THEN f ELSE frames[i]
      BY <2>1, <2>3, <2>4, <2>5, ExceptSeq
    <2> HIDE DEF f
    <2>7. frames' # <<>> /\ Top' = f
      BY <2>1, <2>6, EmptySeq DEF Top
    <2>8. \A i \in 1 .. n : frames'[i].pc = "body" /\ frames'[i].depth = i - 1
      BY <1>0, <2>1, <2>3, <2>6 DEF Nested
    <2>9. ~throwing'
      BY <1>8 DEF Release
    <2>10. Fine
      BY <1>0, <2>1, <2>3, <2>6, <2>7, <2>8, <2>9 DEF Nested, Framed
    <2>11. Connected'
      <3>1. stack # <<>> /\ stack' = SubSeq(stack, 1, Len(stack) - 1) /\ work' = work /\ disk' \in {work, disk}
        BY <1>8 DEF Release
      <3> QED BY <1>0, <3>1, Pop DEF Connected
    <2> QED BY <1>8, <2>9, <2>10, <2>11 DEF Release, TypeOK, Framed, Connected, history, bounds
  <1>9. CASE Commit
    <2> DEFINE f == [Top EXCEPT !.pc = "committed"]
    <2>1. /\ frames # <<>> /\ Top \in FrameType /\ Len(frames) = 1
          /\ Top.depth = 0 /\ ~throwing /\ depth' = 1
      BY <1>9, NestedTop DEF Commit, InBody, IsSavepoint, FrameType
    <2>2. f \in FrameType /\ f.pc = "committed" /\ f.depth = 0
      BY <2>1 DEF FrameType
    <2>3. Replaced(f) /\ ~throwing'
      BY <1>9, <2>1, <2>2, SetTopReplaces DEF Commit
    <2> HIDE DEF f
    <2>4. Fine
      BY <2>1, <2>2, <2>3, ReplacedNests
    <2>5. Connected'
      BY <1>0, <1>9, EmptySeq DEF Commit, Connected
    <2> QED BY <1>9, <2>3, <2>4, <2>5 DEF Commit, TypeOK, Framed, Connected, history, bounds
  <1>10. CASE CommitFails
    <2>1. frames # <<>> /\ depth' = Len(frames) - 1
      BY <1>10, NestedTop DEF CommitFails, InBody
    <2>2. commitFaults' \in 0 .. MaxCommitFaults
      BY <1>0, <1>10 DEF CommitFails, TypeOK
    <2>3. disk' = disk /\ work' \in {work, disk} /\ stack' \in {stack, <<>>}
      BY <1>10 DEF CommitFails, connection
    <2>4. Connected'
      BY <1>0, <2>3, EmptySeq DEF Connected
    <2>5. ASSUME NEW b \in BOOLEAN, AttemptFails(Top, b /\ stack # <<>>) PROVE Fine /\ TypeOK'
      BY <1>3, <1>10, <2>1, <2>2, <2>4, <2>5 DEF CommitFails
    <2> QED BY <1>10, <2>5 DEF CommitFails
  <1>11. CASE Return
    <2>0. frames # <<>> /\ Top.pc = "committed" /\ UNCHANGED throwing
      BY <1>11 DEF Return
    <2>1. /\ frames # <<>> /\ Top \in FrameType /\ ~throwing /\ Top.depth = 0
      <3>1. /\ Len(frames) = 1 /\ Top \in FrameType /\ Top.depth = Len(frames) - 1
            /\ throwing => Top.pc = "body"
        BY <2>0, NestedTop
      <3>2. Top.depth = 0
        BY <3>1
      <3>3. ~throwing
        BY <2>0, <3>1
      <3> QED BY <2>0, <3>1, <3>2, <3>3
    <2>2. Fine
      BY <1>11, <2>0, <2>1, EmptiedNests DEF Return
    <2>3. answered' \subseteq Units
      BY <1>11, <2>1 DEF Return, TypeOK, FrameType
    <2> QED BY <1>0, <1>11, <2>2, <2>3 DEF Return, TypeOK, Framed, Connected, connection, bounds
  <1>12. CASE Crash
    <2>1. Fine
      BY <1>12, EmptiedNests DEF Crash
    <2>2. Connected'
      BY <1>0, <1>12, EmptySeq DEF Crash, Connected
    <2>3. UNCHANGED <<begun, answered, failed, aborts, commitFaults>> /\ throwing' = FALSE
      BY <1>12 DEF Crash, history
    <2>4. crashes' \in 0 .. MaxCrashes
      BY <1>0, <1>12 DEF Crash, TypeOK
    <2> QED BY <2>1, <2>2, <2>3, <2>4 DEF TypeOK, Framed, Connected
  <1>13. CASE UNCHANGED vars
    BY <1>13 DEF vars, connection, history, bounds, TypeOK, Nested, Top, InBody
  <1> QED BY <1>1, <1>2, <1>4, <1>5, <1>6, <1>7, <1>8, <1>9, <1>10, <1>11, <1>12, <1>13
          DEF Next, Step

(***************************************************************************)
(* Levels of the connection                                                *)
(***************************************************************************)

LEMMA BaseZero == ASSUME NEW D, NEW F PROVE BaseOf(D, F, 0) = D
  BY DEF BaseOf

LEMMA BaseSucc ==
    ASSUME NEW D, NEW F, NEW n \in Nat
    PROVE  BaseOf(D, F, n + 1) = BaseOf(D, F, n) \cup Rows(F[n + 1])
  <1>1. 1 .. n + 1 = (1 .. n) \cup {n + 1}
    OBVIOUS
  <1> QED BY <1>1 DEF BaseOf

LEMMA BaseAbove == ASSUME NEW m \in Nat PROVE Base(m + 1) = Base(m) \cup Rows(frames[m + 1])
  BY BaseSucc DEF Base

\* A step that leaves the durable rows and the m lowest calls leaves their levels.
LEMMA BaseKept ==
    ASSUME disk' = disk, NEW m \in Nat, \A k \in 1 .. m : frames'[k] = frames[k]
    PROVE  \A i \in 0 .. m : BaseOf(disk', frames', i) = Base(i)
  <1> SUFFICES ASSUME NEW i \in 0 .. m PROVE BaseOf(disk', frames', i) = Base(i)
    OBVIOUS
  <1>1. \A k \in 1 .. i : frames'[k] = frames[k]
    OBVIOUS
  <1> QED BY <1>1 DEF Base, BaseOf

\* The rows of a call that has not begun, of one that writes its next row, and of one
\* that is complete.
LEMMA RowsOf ==
    ASSUME NEW f \in FrameType
    PROVE  /\ f.wrote = 0 /\ f.inner = {} => Rows(f) = {}
           /\ f.wrote < 2 => Rows([f EXCEPT !.wrote = @ + 1])
                                = Rows(f) \cup {<<f.unit, f.wrote + 1>>}
           /\ f.wrote = 2 => Rows(f) = Own(f) \X Parts
  <1>1. f.wrote \in 0 .. 2
    BY DEF FrameType
  <1>2. f.wrote = 0 /\ f.inner = {} => Rows(f) = {}
    BY DEF Rows
  <1>3. ASSUME f.wrote < 2
        PROVE  Rows([f EXCEPT !.wrote = @ + 1]) = Rows(f) \cup {<<f.unit, f.wrote + 1>>}
    <2>1. 1 .. f.wrote + 1 = (1 .. f.wrote) \cup {f.wrote + 1}
      BY <1>1
    <2>2. /\ [f EXCEPT !.wrote = @ + 1].wrote = f.wrote + 1
          /\ [f EXCEPT !.wrote = @ + 1].unit = f.unit
          /\ [f EXCEPT !.wrote = @ + 1].inner = f.inner
      BY DEF FrameType
    <2> QED BY <2>1, <2>2 DEF Rows
  <1>4. f.wrote = 2 => Rows(f) = Own(f) \X Parts
    BY DEF Rows, Own, Parts
  <1> QED BY <1>2, <1>3, <1>4

\* A connection with as many levels as calls have begun, none of them committed.
LEMMA LayersOf ==
    ASSUME TypeOK', ~throwing', ~Committed', NEW m \in Nat, depth' = m, Len(stack') = m,
           \A i \in 1 .. m : stack'[i] = BaseOf(disk', frames', i - 1),
           work' = BaseOf(disk', frames', m)
    PROVE  Layers'
  <1>1. stack' = <<>> => m = 0
    BY EmptySeq
  <1>2. m = 0 => work' = disk'
    BY BaseZero
  <1> QED BY <1>1, <1>2 DEF Layers, Base

\* In a body the levels are the calls.
LEMMA InBodyLevels ==
    ASSUME TypeOK, Nested, Layers, InBody, ~throwing
    PROVE  /\ depth = Len(frames) /\ Len(stack) = Len(frames) /\ stack # <<>>
           /\ \A i \in 1 .. Len(frames) : stack[i] = Base(i - 1)
           /\ work = Base(Len(frames))
  <1>1. Len(frames) \in Nat /\ Len(frames) > 0 /\ depth = Len(frames) /\ ~Committed
    BY NestedTop, TransactionAssumption DEF InBody, Committed
  <1>2. /\ Len(stack) = depth /\ \A i \in 1 .. depth : stack[i] = Base(i - 1)
        /\ work = Base(depth)
    BY <1>1 DEF Layers
  <1> QED BY <1>1, <1>2, EmptySeq

\* The number of calls below the topmost one.
LEMMA Height ==
    ASSUME TypeOK, Nested, frames # <<>>
    PROVE  \E m \in Nat : /\ Len(frames) = m + 1 /\ Len(frames) - 1 = m
                          /\ Len(frames) = 1 <=> m = 0
                          /\ Len(frames) > 1 <=> m > 0
                          /\ Top = frames[m + 1] /\ Top \in FrameType /\ Top.depth = m
                          /\ Top.pc = "begin" => depth = m
                          /\ Top.pc # "begin" => depth = m + 1
                          /\ \A i \in 1 .. m : frames[i].pc = "body"
  <1>1. /\ Len(frames) \in Nat /\ Len(frames) > 0
        /\ Top = frames[Len(frames)] /\ Top \in FrameType
        /\ Top.depth = Len(frames) - 1
        /\ Top.pc = "begin" => depth = Len(frames) - 1
        /\ Top.pc # "begin" => depth = Len(frames)
    BY NestedTop
  <1>2. \A l \in Nat : l > 0 => /\ l - 1 \in Nat /\ l = (l - 1) + 1
                                /\ l = 1 <=> l - 1 = 0
                                /\ l > 1 <=> l - 1 > 0
    OBVIOUS
  <1>3. \A i \in 1 .. Len(frames) - 1 : frames[i].pc = "body"
    BY <1>1 DEF Nested
  <1> WITNESS Len(frames) - 1 \in Nat
  <1> QED BY <1>1, <1>2, <1>3

\* What the error path leaves: the calls below, none of them committed.
LEMMA AttemptLeaves ==
    ASSUME TypeOK, Nested, frames # <<>>, NEW retryable \in BOOLEAN,
           AttemptFails(Top, retryable)
    PROVE  /\ ~Committed'
           /\ \A k \in 1 .. Len(frames) - 1 : frames'[k] = frames[k]
           /\ ~throwing => ~throwing'
           /\ throwing' => throwing
  <1> PICK m \in Nat : /\ Len(frames) = m + 1 /\ Len(frames) - 1 = m
                       /\ Top \in FrameType
                       /\ \A i \in 1 .. m : frames[i].pc = "body"
    BY Height
  <1>2. ASSUME Replaced(Restarted(Top)), UNCHANGED throwing
        PROVE  ~Committed' /\ \A k \in 1 .. m : frames'[k] = frames[k]
    <2>1. Top' = Restarted(Top)
      BY <1>2 DEF Replaced, Top
    <2>2. Restarted(Top).pc = "begin"
      BY DEF Restarted, FrameType
    <2> QED BY <1>2, <2>1, <2>2 DEF Committed, Replaced
  <1>3. ASSUME Popped
        PROVE  ~Committed' /\ \A k \in 1 .. m : frames'[k] = frames[k]
    <2>1. /\ frames' \in Seq(FrameType) /\ Len(frames') = m
          /\ \A k \in 1 .. m : frames'[k] = frames[k]
      BY <1>3 DEF Popped
    <2>2. frames' # <<>> => m \in 1 .. m
      BY <2>1, EmptySeq
    <2> QED BY <2>1, <2>2 DEF Committed, Top
  <1>4. CASE Replaced(Restarted(Top)) /\ UNCHANGED throwing
    BY <1>2, <1>4
  <1>5. CASE Popped /\ throwing' = (throwing /\ Len(frames) > 1)
    BY <1>3, <1>5
  <1> QED BY <1>4, <1>5, AttemptEnds

\* The call below the released one takes over its units.
LEMMA Released ==
    ASSUME TypeOK, NEW m \in Nat, Len(frames) = m + 2, Len(frames) - 1 = m + 1,
           frames' = [Below EXCEPT ![Len(frames) - 1].inner = @ \cup Top.inner \cup {Top.unit}]
    PROVE  /\ frames' \in Seq(FrameType) /\ Len(frames') = m + 1
           /\ \A i \in 1 .. m : frames'[i] = frames[i]
           /\ frames'[m + 1] = [frames[m + 1] EXCEPT !.inner = @ \cup Own(Top)]
  <1>1. frames \in Seq(FrameType) /\ frames # <<>> /\ m + 1 \in 1 .. m + 1 /\ m + 1 \in Nat
    BY EmptySeq DEF TypeOK
  <1>2. /\ Below \in Seq(FrameType) /\ Len(Below) = m + 1
        /\ \A i \in 1 .. m + 1 : Below[i] = frames[i]
    BY <1>1, Pop DEF Below
  <1>3. Top \in FrameType /\ frames[m + 1] \in FrameType
    BY <1>1, TopCall
  <1> DEFINE f == [frames[m + 1] EXCEPT !.inner = @ \cup Own(Top)]
  <1>4. f \in FrameType
    BY <1>3 DEF FrameType, Own
  <1>5. frames' = [Below EXCEPT ![m + 1] = f]
    <2>1. \A S, T : S \cup T.inner \cup {T.unit} = S \cup Own(T)
      BY DEF Own
    <2>2. Below[m + 1] = frames[m + 1]
      BY <1>1, <1>2
    <2> QED BY <2>1, <2>2
  <1> HIDE DEF f
  <1> DEFINE s == Below
  <1>6. frames' = [s EXCEPT ![m + 1] = f] /\ s \in Seq(FrameType) /\ Len(s) = m + 1
    BY <1>2, <1>5
  <1> HIDE DEF s
  <1>7. /\ frames' \in Seq(FrameType) /\ Len(frames') = m + 1
        /\ \A i \in 1 .. m + 1 : frames'[i] = IF i = m + 1 THEN f ELSE s[i]
    <2>1. m + 1 \in 1 .. Len(s)
      BY <1>1, <1>6
    <2>2. /\ [s EXCEPT ![m + 1] = f] \in Seq(FrameType)
          /\ Len([s EXCEPT ![m + 1] = f]) = Len(s)
          /\ \A j \in 1 .. Len(s) : [s EXCEPT ![m + 1] = f][j] = IF j = m + 1 THEN f ELSE s[j]
      BY <1>4, <1>6, <2>1, ExceptSeq
    <2> QED BY <1>6, <2>2
  <1>8. frames'[m + 1] = f /\ \A i \in 1 .. m : i \in 1 .. m + 1 /\ frames'[i] = s[i]
    BY <1>1, <1>7
  <1>9. \A i \in 1 .. m : frames'[i] = frames[i]
    BY <1>2, <1>8 DEF s
  <1> QED BY <1>7, <1>8, <1>9 DEF f

\* When no call has begun, or the connection is as it was below the topmost call.
LEMMA LayersBelow ==
    ASSUME TypeOK, Nested, TypeOK', Nested', frames # <<>>, ~throwing, disk' = disk,
           NEW retryable \in BOOLEAN, AttemptFails(Top, retryable),
           NEW m \in Nat, Len(frames) - 1 = m, depth' = m,
           m > 0 => /\ Len(stack') = m /\ work' = Base(m)
                    /\ \A i \in 1 .. m : stack'[i] = Base(i - 1),
           m = 0 => (stack' = <<>> => work' = disk')
    PROVE  Layers'
  <1>1. ~Committed' /\ ~throwing' /\ \A k \in 1 .. m : frames'[k] = frames[k]
    BY AttemptLeaves
  <1>2. CASE m = 0
    BY <1>1, <1>2 DEF Layers
  <1>3. CASE m > 0
    <2>1. \A i \in 0 .. m : BaseOf(disk', frames', i) = Base(i)
      BY <1>1, BaseKept
    <2>2. work' = BaseOf(disk', frames', m)
      BY <1>3, <2>1
    <2>3. \A i \in 1 .. m : stack'[i] = BaseOf(disk', frames', i - 1)
      BY <1>3, <2>1
    <2> QED BY <1>1, <1>3, <2>2, <2>3, LayersOf
  <1> QED BY <1>2, <1>3

\* The levels stay those of the calls below the topmost one, which changes its rows.
LEMMA LayersTop ==
    ASSUME TypeOK', ~throwing', ~Committed', disk' = disk,
           NEW m \in Nat, Len(frames) = m + 1, Len(frames) - 1 = m, depth' = m + 1,
           Replaced(Top'), Len(stack') = m + 1,
           \A i \in 1 .. m + 1 : stack'[i] = Base(i - 1),
           work' = Base(m) \cup Rows(Top')
    PROVE  Layers'
  <1>1. /\ frames'[m + 1] = Top' /\ \A k \in 1 .. m : frames'[k] = frames[k]
    BY DEF Replaced
  <1>2. \A i \in 0 .. m : BaseOf(disk', frames', i) = Base(i)
    BY <1>1, BaseKept
  <1>3. BaseOf(disk', frames', m + 1) = Base(m) \cup Rows(Top')
    BY <1>1, <1>2, BaseSucc
  <1>4. \A i \in 1 .. m + 1 : stack'[i] = BaseOf(disk', frames', i - 1)
    BY <1>2
  <1> QED BY <1>3, <1>4, LayersOf

LEMMA LayersStep ==
    ASSUME BodiesRethrow, TypeOK, Nested, Layers, [Next]_vars PROVE Layers'
  <1>0. TypeOK' /\ Nested'
    BY ShapeStep
  <1>1. ASSUME NEW u \in Units, Call(u) PROVE Layers'
    <2>1. /\ UNCHANGED <<disk, work, stack, depth, throwing>> /\ ~throwing
          /\ frames = <<>> \/ InBody
          /\ frames' = Append(frames, [unit |-> u, attempt |-> 1, pc |-> "begin",
                                       depth |-> depth, wrote |-> 0, inner |-> {}])
      BY <1>1 DEF Call, connection, Nested, InBody
    <2> DEFINE n == Len(frames)
    <2>2. /\ n \in Nat /\ Len(frames') = n + 1 /\ frames'[n + 1].pc = "begin"
          /\ \A k \in 1 .. n : frames'[k] = frames[k]
      <3>1. [unit |-> u, attempt |-> 1, pc |-> "begin", depth |-> depth, wrote |-> 0,
             inner |-> {}] \in FrameType
        BY TransactionAssumption DEF FrameType, TypeOK
      <3> QED BY <2>1, <3>1, AppendProperties, EmptySeq DEF TypeOK
    <2>3. ~Committed'
      BY <2>2 DEF Committed, Top
    <2>4. CASE frames = <<>>
      <3>1. depth = 0
        BY <2>4, EmptySeq DEF Nested
      <3>2. stack = <<>> => work = disk
        BY <2>1, <2>4 DEF Layers, Committed
      <3> QED BY <2>1, <2>3, <3>1, <3>2 DEF Layers
    <2>5. CASE InBody
      <3>1. /\ depth = n /\ Len(stack) = n /\ work = Base(n)
            /\ \A i \in 1 .. n : stack[i] = Base(i - 1)
        BY <2>1, <2>5, InBodyLevels
      <3>2. n \in Nat /\ \A i \in 0 .. n : BaseOf(disk', frames', i) = Base(i)
        BY <2>1, <2>2, BaseKept
      <3> HIDE DEF n
      <3>3. n \in 0 .. n /\ \A i \in 1 .. n : i - 1 \in 0 .. n
        BY <3>2
      <3>4. depth' = n /\ Len(stack') = n /\ work' = BaseOf(disk', frames', n)
        BY <2>1, <3>1, <3>2, <3>3
      <3>5. \A i \in 1 .. n : stack'[i] = BaseOf(disk', frames', i - 1)
        BY <2>1, <3>1, <3>2, <3>3
      <3> QED BY <1>0, <2>1, <2>2, <2>3, <3>4, <3>5, LayersOf
    <2> QED BY <2>1, <2>4, <2>5
  <1>2. CASE Begin
    <2> DEFINE f == [Top EXCEPT !.pc = "body", !.depth = depth]
    <2>1. /\ frames # <<>> /\ Top.pc = "begin" /\ ~throwing /\ ~throwing' /\ ~Committed
          /\ disk' = disk /\ work' = work /\ stack' = Append(stack, work)
          /\ depth' = depth + 1 /\ SetTop(f) /\ (depth = 0 => stack = <<>>)
      BY <1>2 DEF Begin, Nested, InBody, Committed
    <2> PICK m \in Nat : Len(frames) = m + 1 /\ Len(frames) - 1 = m /\ depth = m
      BY <2>1, Height
    <2>2. f \in FrameType /\ f.pc = "body" /\ f.wrote = 0 /\ f.inner = {}
      <3>1. Top \in FrameType /\ Top.wrote = 0 /\ Top.inner = {}
        BY <2>1, NestedTop
      <3>2. f = [[Top EXCEPT !.pc = "body"] EXCEPT !.depth = depth]
        OBVIOUS
      <3>3. f \in FrameType
        BY <3>1, <3>2, CallFields DEF TypeOK
      <3> QED BY <3>1, <3>3 DEF FrameType
    <2> HIDE DEF f
    <2>3. Replaced(f) /\ Top' = f /\ Rows(f) = {}
      BY <2>1, <2>2, SetTopReplaces, RowsOf DEF Replaced, Top
    <2>4. /\ Len(stack) = m /\ work = Base(m)
          /\ \A i \in 1 .. m : stack[i] = Base(i - 1)
      <3>1. CASE m = 0
        BY <2>1, <3>1, EmptySeq, BaseZero DEF Layers, Base
      <3>2. CASE m > 0
        BY <2>1, <3>2 DEF Layers
      <3> QED BY <3>1, <3>2
    <2>5. /\ Len(stack') = m + 1 /\ stack'[m + 1] = work
          /\ \A i \in 1 .. m : stack'[i] = stack[i]
      <3>1. stack \in Seq(SUBSET (Units \X Parts)) /\ work \in SUBSET (Units \X Parts)
        BY DEF TypeOK
      <3> QED BY <2>1, <2>4, <3>1, AppendProperties
    <2>6. \A i \in 1 .. m + 1 : stack'[i] = Base(i - 1)
      BY <2>4, <2>5
    <2>7. ~Committed'
      BY <2>2, <2>3 DEF Committed
    <2> QED BY <1>0, <2>1, <2>3, <2>4, <2>5, <2>6, <2>7, LayersTop
  <1>3. CASE BeginFails
    <2>1. /\ frames # <<>> /\ Top.pc = "begin" /\ depth = 0 /\ AttemptFails(Top, stack = <<>>)
          /\ UNCHANGED <<disk, work, stack, depth>>
      BY <1>3 DEF BeginFails, connection
    <2>2. ~throwing /\ ~Committed
      BY <2>1, NestedTop DEF Committed
    <2>3. stack = <<>> => work = disk
      BY <2>2 DEF Layers
    <2> PICK m \in Nat : Len(frames) - 1 = m /\ m = 0
      BY <2>1, Height
    <2> DEFINE b == stack = <<>>
    <2>4. b \in BOOLEAN /\ AttemptFails(Top, b)
      BY <2>1
    <2>5. stack' = <<>> => work' = disk'
      BY <2>1, <2>3
    <2> HIDE DEF b
    <2> QED BY <1>0, <2>1, <2>2, <2>4, <2>5, LayersBelow
  <1>4. CASE Write
    <2> DEFINE f == [Top EXCEPT !.wrote = @ + 1]
    <2>1. /\ InBody /\ frames # <<>> /\ ~throwing /\ ~throwing' /\ Top.wrote < 2
          /\ work' = work \cup {<<Top.unit, Top.wrote + 1>>}
          /\ disk' = IF stack = <<>> THEN work' ELSE disk
          /\ SetTop(f) /\ stack' = stack /\ depth' = depth
      BY <1>4 DEF Write, InBody
    <2> PICK m \in Nat : /\ Len(frames) = m + 1 /\ Len(frames) - 1 = m /\ Top = frames[m + 1]
                         /\ Top \in FrameType
      BY <2>1, Height
    <2>2. /\ depth = m + 1 /\ Len(stack) = m + 1 /\ disk' = disk /\ work = Base(m + 1)
          /\ \A i \in 1 .. m + 1 : stack[i] = Base(i - 1)
      BY <2>1, InBodyLevels
    <2>3. f \in FrameType /\ f.pc = "body"
      BY <2>1 DEF FrameType, InBody
    <2>4. Rows(f) = Rows(Top) \cup {<<Top.unit, Top.wrote + 1>>}
      BY <2>1, RowsOf
    <2> HIDE DEF f
    <2>5. Replaced(f) /\ Top' = f
      BY <2>1, <2>3, SetTopReplaces DEF Replaced, Top
    <2>6. work = Base(m) \cup Rows(Top)
      BY <2>2, BaseAbove
    <2>7. work' = Base(m) \cup Rows(Top')
      BY <2>1, <2>4, <2>5, <2>6
    <2>8. ~Committed'
      BY <2>3, <2>5 DEF Committed
    <2>9. \A i \in 1 .. m + 1 : stack'[i] = Base(i - 1)
      BY <2>1, <2>2
    <2> QED BY <1>0, <2>1, <2>2, <2>5, <2>7, <2>8, <2>9, LayersTop
  <1>5. ASSUME NEW retryable \in BOOLEAN, BodyThrows(retryable) PROVE Layers'
    <2>1. /\ InBody /\ frames # <<>> /\ ~Committed /\ RollBack(Top) /\ depth' = Top.depth
          /\ AttemptFails(Top, retryable /\ ~throwing)
      BY <1>5 DEF BodyThrows, InBody, Committed
    <2> PICK m \in Nat : /\ Len(frames) = m + 1 /\ Len(frames) - 1 = m /\ Top.depth = m
                         /\ Len(frames) > 1 <=> m > 0
      BY <2>1, Height
    <2>2. /\ disk' = disk
          /\ stack # <<>> => /\ work' = stack[Len(stack)] /\ Len(stack') = Len(stack) - 1
                             /\ \A i \in 1 .. Len(stack) - 1 : stack'[i] = stack[i]
          /\ stack = <<>> => UNCHANGED <<work, stack>>
      BY <2>1, RollBackConnects
    <2>3. CASE throwing
      <3>1. stack = <<>> /\ work = disk /\ stack' = <<>> /\ work' = disk'
        BY <2>2, <2>3 DEF Layers
      <3>2. ~Committed'
        BY <2>1, AttemptLeaves
      <3>3. Popped /\ throwing' = (throwing /\ Len(frames) > 1)
        <4>1. ~(retryable /\ ~throwing)
          BY <2>3
        <4>2. frames' = Below /\ throwing' = (throwing /\ Len(frames) > 1)
          BY <2>1, <4>1 DEF AttemptFails, Throw
        <4> QED BY <2>1, <4>2, BelowPops
      <3>4. throwing' \/ depth' = 0
        <4>1. CASE m = 0
          BY <2>1, <4>1
        <4>2. CASE m > 0
          BY <2>3, <3>3, <4>2
        <4> QED BY <4>1, <4>2
      <3> QED BY <3>1, <3>2, <3>4 DEF Layers
    <2>4. CASE ~throwing
      <3>1. /\ Len(stack) = m + 1 /\ stack # <<>>
            /\ \A i \in 1 .. m + 1 : stack[i] = Base(i - 1)
        BY <2>1, <2>4, InBodyLevels
      <3>2. /\ Len(stack') = m /\ \A i \in 1 .. m : stack'[i] = Base(i - 1)
            /\ work' = Base(m)
        BY <2>2, <3>1
      <3>3. m = 0 => work' = disk'
        BY <2>2, <3>2, BaseZero DEF Base
      <3> QED BY <1>0, <2>1, <2>2, <2>4, <3>2, <3>3, LayersBelow
    <2> QED BY <2>3, <2>4
  <1>6. CASE Abort
    <2>1. throwing' /\ stack' = <<>> /\ work' = disk'
      <3>1. aborts < MaxAborts /\ aborts \in 0 .. MaxAborts
        BY <1>6 DEF Abort, TypeOK
      <3>2. ~CatchesAborts
        BY <3>1 DEF BodiesRethrow
      <3> QED BY <1>6, <3>2 DEF Abort
    <2> QED BY <2>1 DEF Layers
  <1>7. CASE Release
    <2>1. /\ InBody /\ frames # <<>> /\ ~throwing /\ ~throwing' /\ Top.wrote = 2 /\ Top.depth > 0
          /\ stack' = SubSeq(stack, 1, Len(stack) - 1) /\ stack # <<>> /\ work' = work
          /\ disk' = IF Len(stack) = 1 THEN work ELSE disk
          /\ depth' = Top.depth
          /\ frames' = [Below EXCEPT ![Len(frames) - 1].inner = @ \cup Top.inner \cup {Top.unit}]
      BY <1>7 DEF Release, InBody, IsSavepoint
    <2> PICK l \in Nat : /\ Len(frames) = l + 1 /\ Len(frames) - 1 = l /\ Top = frames[l + 1]
                         /\ Top \in FrameType /\ Top.depth = l
                         /\ \A i \in 1 .. l : frames[i].pc = "body"
      BY <2>1, Height
    <2> PICK m \in Nat : l = m + 1 /\ l - 1 = m
      <3>1. l - 1 \in Nat /\ l = (l - 1) + 1
        BY <2>1
      <3> QED BY <3>1
    <2>2. /\ Len(stack) = m + 2 /\ disk' = disk /\ work = Base(m + 2)
          /\ \A i \in 1 .. m + 2 : stack[i] = Base(i - 1)
      BY <2>1, InBodyLevels
    <2>3. Len(stack') = m + 1 /\ \A i \in 1 .. m + 1 : stack'[i] = Base(i - 1)
      <3>1. stack \in Seq(SUBSET (Units \X Parts))
        BY DEF TypeOK
      <3> QED BY <2>1, <2>2, <3>1, Pop
    <2>4. /\ frames' \in Seq(FrameType) /\ Len(frames') = m + 1
          /\ \A i \in 1 .. m : frames'[i] = frames[i]
          /\ frames'[m + 1] = [frames[m + 1] EXCEPT !.inner = @ \cup Own(Top)]
      BY <2>1, Released
    <2>5. Rows(frames'[m + 1]) = Rows(frames[m + 1]) \cup Rows(Top)
      <3>1. frames[m + 1] \in FrameType
        BY <2>1, TopCall
      <3>2. Rows(Top) = Own(Top) \X Parts
        BY <2>1, RowsOf
      <3> QED BY <2>4, <3>1, <3>2 DEF Rows, FrameType
    <2>6. \A i \in 0 .. m : BaseOf(disk', frames', i) = Base(i)
      BY <2>2, <2>4, BaseKept
    <2>7. work' = BaseOf(disk', frames', m + 1)
      <3>1. BaseOf(disk', frames', m + 1) = Base(m) \cup Rows(frames'[m + 1])
        BY <2>6, BaseSucc
      <3>2. Base(m + 1) = Base(m) \cup Rows(frames[m + 1])
        BY BaseAbove
      <3>3. Base(m + 2) = Base(m + 1) \cup Rows(Top)
        <4>1. m + 1 \in Nat /\ (m + 1) + 1 = m + 2 /\ frames[m + 2] = Top
          OBVIOUS
        <4>2. Base((m + 1) + 1) = Base(m + 1) \cup Rows(frames[(m + 1) + 1])
          BY <4>1, BaseAbove
        <4> QED BY <4>1, <4>2
      <3> QED BY <2>1, <2>2, <2>5, <3>1, <3>2, <3>3
    <2>8. \A i \in 1 .. m + 1 : stack'[i] = BaseOf(disk', frames', i - 1)
      BY <2>3, <2>6
    <2>9. ~Committed'
      <3>1. frames[m + 1].pc = "body" /\ frames[m + 1] \in FrameType
        BY <2>1, TopCall
      <3>2. frames'[m + 1].pc = "body"
        BY <2>4, <3>1 DEF FrameType
      <3> QED BY <2>4, <3>2 DEF Committed, Top
    <2> QED BY <1>0, <2>1, <2>3, <2>7, <2>8, <2>9, LayersOf
  <1>8. CASE Commit
    <2>1. /\ stack' = <<>> /\ work' = work /\ disk' = work /\ frames # <<>>
          /\ SetTop([Top EXCEPT !.pc = "committed"])
      BY <1>8 DEF Commit, InBody
    <2>2. [Top EXCEPT !.pc = "committed"] \in FrameType
      BY <2>1, TopCall, CallFields
    <2>3. Top' = [Top EXCEPT !.pc = "committed"] /\ frames' # <<>>
      BY <2>1, <2>2, SetTopReplaces, TopCall, EmptySeq DEF Replaced, Top
    <2>4. Committed'
      BY <2>1, <2>3, TopCall DEF Committed, FrameType
    <2> QED BY <2>1, <2>4 DEF Layers
  <1>9. CASE CommitFails
    <2>1. InBody /\ frames # <<>> /\ ~throwing /\ depth' = Top.depth
      BY <1>9 DEF CommitFails, InBody
    <2>2. stack # <<>> /\ ~IsSavepoint(Top) /\ disk' = disk
      BY <1>9, <2>1, InBodyLevels DEF CommitFails
    <2> PICK m \in Nat : Len(frames) = m + 1 /\ Len(frames) - 1 = m /\ m = 0 /\ depth' = m
      BY <2>1, <2>2, Height DEF IsSavepoint
    <2>3. stack' = <<>> => work' = disk'
      BY <1>9, <2>2 DEF CommitFails
    <2>4. PICK retryable \in BOOLEAN : AttemptFails(Top, retryable /\ stack # <<>>)
      BY <1>9 DEF CommitFails
    <2> QED BY <1>0, <2>1, <2>2, <2>3, <2>4, LayersBelow
  <1>10. CASE Return
    <2>1. /\ frames' = <<>> /\ depth' = Top.depth /\ UNCHANGED <<connection, throwing>>
          /\ frames # <<>> /\ Top.pc = "committed"
      BY <1>10 DEF Return
    <2>2. depth' = 0 /\ ~throwing' /\ ~Committed' /\ Committed
      <3>1. Top.depth = Len(frames) - 1 /\ Len(frames) = 1 /\ (throwing => Top.pc = "body")
        BY <2>1, NestedTop
      <3>2. ~throwing
        BY <2>1, <3>1
      <3> QED BY <2>1, <3>1, <3>2 DEF Committed
    <2> QED BY <2>1, <2>2 DEF Layers, connection
  <1>11. CASE Crash
    BY <1>11 DEF Crash, Layers, Committed
  <1>12. CASE UNCHANGED vars
    BY <1>12 DEF vars, connection, Layers, Committed, Top, Base, BaseOf, Rows
  <1> QED BY <1>1, <1>2, <1>3, <1>4, <1>5, <1>6, <1>7, <1>8, <1>9, <1>10, <1>11, <1>12
          DEF Next, Step

(***************************************************************************)
(* Units of the open calls                                                 *)
(***************************************************************************)

\* Calls that keep their units, or fewer of them, and none of them committed.
LEMMA OwnedKept ==
    ASSUME Owned, disk' = disk, begun' = begun, failed' = failed,
           NEW l \in Nat, NEW m \in 0 .. l, Len(frames) = l, Len(frames') = m,
           \A i \in 1 .. m : /\ Own(frames'[i]) \subseteq Own(frames[i])
                             /\ frames[i].pc # "committed" /\ frames'[i].pc # "committed"
    PROVE  Owned'
  <1>1. \A i \in 1 .. m :
            /\ i \in 1 .. l /\ frames[i].pc # "committed" /\ frames'[i].pc # "committed"
            /\ Own(frames[i]) \subseteq begun \ failed /\ Own(frames'[i]) \subseteq Own(frames[i])
            /\ (Own(frames[i]) \X Parts) \cap disk = {}
            /\ \A j \in 1 .. m : i # j => Own(frames[i]) \cap Own(frames[j]) = {}
    BY DEF Owned
  <1>2. ASSUME NEW i \in 1 .. m
        PROVE  /\ Own(frames'[i]) \subseteq begun' \ failed'
               /\ (Own(frames'[i]) \X Parts) \cap disk' = {}
               /\ frames'[i].pc # "committed"
               /\ \A j \in 1 .. m : i # j => Own(frames'[i]) \cap Own(frames'[j]) = {}
    BY <1>1
  <1> QED BY <1>2 DEF Owned

\* The topmost call becomes one of the same units.
LEMMA OwnedTop ==
    ASSUME TypeOK, Nested, Owned, disk' = disk, begun' = begun, failed' = failed,
           frames # <<>>, NEW f \in FrameType, Replaced(f), Own(f) \subseteq Own(Top),
           Top.pc # "committed", f.pc # "committed"
    PROVE  Owned'
  <1> PICK m \in Nat : /\ Len(frames) = m + 1 /\ Len(frames) - 1 = m /\ Top = frames[m + 1]
                       /\ \A i \in 1 .. m : frames[i].pc = "body"
    BY Height
  <1>1. /\ Len(frames') = m + 1 /\ frames'[m + 1] = f
        /\ \A i \in 1 .. m : frames'[i] = frames[i]
    BY DEF Replaced
  <1>2. \A i \in 1 .. m + 1 : i \in 1 .. m \/ i = m + 1
    OBVIOUS
  <1>3. \A i \in 1 .. m + 1 :
            /\ Own(frames'[i]) \subseteq Own(frames[i])
            /\ frames[i].pc # "committed" /\ frames'[i].pc # "committed"
    BY <1>1, <1>2
  <1>4. m + 1 \in Nat /\ m + 1 \in 0 .. m + 1
    OBVIOUS
  <1> QED BY <1>1, <1>3, <1>4, OwnedKept

\* A call that throws is refused; the units of the others are not.
LEMMA OwnedAttempt ==
    ASSUME TypeOK, Nested, Owned, disk' = disk, begun' = begun, frames # <<>>,
           Top.pc # "committed", NEW retryable \in BOOLEAN, AttemptFails(Top, retryable)
    PROVE  /\ Owned'
           /\ failed' = failed \/ failed' = failed \cup {Top.unit}
           /\ Top.unit \in Units /\ ({Top.unit} \X Parts) \cap disk = {}
  <1> PICK m \in Nat : /\ Len(frames) = m + 1 /\ Len(frames) - 1 = m /\ Top = frames[m + 1]
                       /\ Top \in FrameType
                       /\ \A i \in 1 .. m : frames[i].pc = "body"
    BY Height
  <1>1. /\ m + 1 \in 1 .. m + 1
        /\ \A i \in 1 .. m : i \in 1 .. m + 1 /\ i # m + 1
    OBVIOUS
  <1>2. Top.unit \in Units /\ Top.unit \in Own(Top)
    BY DEF FrameType, Own
  <1>3. /\ Own(Top) \subseteq begun \ failed /\ (Own(Top) \X Parts) \cap disk = {}
        /\ \A i \in 1 .. m : /\ Own(frames[i]) \cap Own(Top) = {}
                             /\ Own(frames[i]) \subseteq begun \ failed
                             /\ (Own(frames[i]) \X Parts) \cap disk = {}
                             /\ \A j \in 1 .. m : i # j => Own(frames[i]) \cap Own(frames[j]) = {}
    BY <1>1 DEF Owned
  <1>4. ({Top.unit} \X Parts) \cap disk = {}
    BY <1>2, <1>3
  <1>5. CASE Replaced(Restarted(Top)) /\ Restarted(Top) \in FrameType /\ failed' = failed
    <2>1. Own(Restarted(Top)) \subseteq Own(Top) /\ Restarted(Top).pc # "committed"
      BY DEF Restarted, FrameType, Own
    <2> QED BY <1>2, <1>4, <1>5, <2>1, OwnedTop
  <1>6. CASE Popped /\ failed' = failed \cup {Top.unit}
    <2>1. Len(frames') = m /\ \A i \in 1 .. m : frames'[i] = frames[i] /\ frames'[i].pc = "body"
      BY <1>6 DEF Popped
    <2>2. \A i \in 1 .. m : Own(frames[i]) \subseteq begun' \ failed'
      BY <1>2, <1>3, <1>6
    <2>3. disk' \subseteq begun' \X Parts /\ failed' \subseteq begun'
      BY <1>2, <1>3, <1>6 DEF Owned
    <2>4. Owned'
      BY <1>3, <2>1, <2>2, <2>3 DEF Owned
    <2> QED BY <1>2, <1>4, <1>6, <2>4
  <1> QED BY <1>5, <1>6, AttemptEnds

\* What becomes durable when the outermost call commits, and what is refused when a
\* call throws.
CommitOf == /\ disk' = disk \cup (Own(Top) \X Parts)
            /\ (Own(Top) \X Parts) \cap disk = {} /\ Own(Top) \subseteq Units \ failed
            /\ UNCHANGED <<answered, failed>>
RefusalOf == /\ failed' = failed \cup {Top.unit} /\ Top.unit \in Units
             /\ ({Top.unit} \X Parts) \cap disk = {}
             /\ UNCHANGED <<disk, answered>>
AnswerOf == /\ answered' = answered \cup Own(Top)
            /\ Own(Top) \X Parts \subseteq disk /\ Own(Top) \subseteq Units
            /\ UNCHANGED <<disk, failed>>
Outcome == CommitOf \/ RefusalOf \/ AnswerOf \/ UNCHANGED <<disk, answered, failed>>

LEMMA OwnedStep ==
    ASSUME BodiesRethrow, TypeOK, Nested, Layers, Owned, [Next]_vars PROVE Owned' /\ Outcome
  <1>1. ASSUME NEW u \in Units, Call(u) PROVE Owned' /\ Outcome
    <2> DEFINE n == Len(frames)
               f == [unit |-> u, attempt |-> 1, pc |-> "begin", depth |-> depth,
                     wrote |-> 0, inner |-> {}]
    <2>1. /\ u \notin begun /\ begun' = begun \cup {u} /\ UNCHANGED <<disk, answered, failed>>
          /\ frames' = Append(frames, f)
      BY <1>1 DEF Call, connection
    <2>2. Own(f) = {u} /\ f.pc = "begin" /\ f \in FrameType
      BY TransactionAssumption DEF Own, FrameType, TypeOK
    <2> HIDE DEF f
    <2>3. /\ n \in Nat /\ Len(frames') = n + 1 /\ frames'[n + 1] = f
          /\ \A k \in 1 .. n : frames'[k] = frames[k]
      BY <2>1, <2>2, AppendProperties DEF TypeOK
    <2>4. /\ disk \subseteq begun \X Parts /\ failed \subseteq begun
          /\ \A i \in 1 .. n :
                /\ Own(frames[i]) \subseteq begun \ failed
                /\ frames[i].pc # "committed" => (Own(frames[i]) \X Parts) \cap disk = {}
                /\ frames[i].pc = "committed" => Own(frames[i]) \X Parts \subseteq disk
                /\ \A j \in 1 .. n : i # j => Own(frames[i]) \cap Own(frames[j]) = {}
      BY DEF Owned
    <2> HIDE DEF n
    <2>5. \A i \in 1 .. n + 1 : i \in 1 .. n \/ i = n + 1
      BY <2>3
    <2>6. \A i \in 1 .. n + 1 :
                /\ Own(frames'[i]) \subseteq begun' \ failed'
                /\ frames'[i].pc # "committed" => (Own(frames'[i]) \X Parts) \cap disk' = {}
                /\ frames'[i].pc = "committed" => Own(frames'[i]) \X Parts \subseteq disk'
      BY <2>1, <2>2, <2>3, <2>4, <2>5
    <2>7. \A i, j \in 1 .. n + 1 : i # j => Own(frames'[i]) \cap Own(frames'[j]) = {}
      <3>1. \A i \in 1 .. n : /\ Own(frames'[i]) \subseteq begun /\ frames'[i] = frames[i]
                              /\ \A j \in 1 .. n : i # j =>
                                     Own(frames'[i]) \cap Own(frames'[j]) = {}
        BY <2>3, <2>4
      <3>2. Own(frames'[n + 1]) = {u}
        BY <2>2, <2>3
      <3>3. \A i \in 1 .. n : Own(frames'[i]) \cap Own(frames'[n + 1]) = {}
        BY <2>1, <3>1, <3>2
      <3> QED BY <2>5, <3>1, <3>3
    <2>8. disk' \subseteq begun' \X Parts /\ failed' \subseteq begun'
      BY <2>1, <2>4
    <2> QED BY <2>1, <2>3, <2>6, <2>7, <2>8 DEF Owned, Outcome
  <1>2. CASE Begin
    <2> DEFINE f == [Top EXCEPT !.pc = "body", !.depth = depth]
    <2>1. /\ frames # <<>> /\ Top.pc = "begin" /\ SetTop(f)
          /\ UNCHANGED <<disk, begun, answered, failed>>
      BY <1>2 DEF Begin, history
    <2>2. f \in FrameType /\ f.pc = "body" /\ Own(f) = Own(Top)
      <3>1. Top \in FrameType /\ f = [[Top EXCEPT !.pc = "body"] EXCEPT !.depth = depth]
        BY <2>1, TopCall
      <3>2. f \in FrameType
        BY <3>1, CallFields DEF TypeOK
      <3> QED BY <3>1, <3>2 DEF FrameType, Own
    <2> HIDE DEF f
    <2> QED BY <2>1, <2>2, SetTopReplaces, OwnedTop DEF Outcome
  <1>3. ASSUME frames # <<>>, Top.pc # "committed", UNCHANGED <<disk, begun, answered>>,
               NEW retryable \in BOOLEAN, AttemptFails(Top, retryable)
        PROVE  Owned' /\ Outcome
    BY <1>3, OwnedAttempt DEF Outcome, RefusalOf
  <1>4. CASE BeginFails
    <2> DEFINE b == stack = <<>>
    <2>1. /\ frames # <<>> /\ Top.pc # "committed" /\ UNCHANGED <<disk, begun, answered>>
          /\ b \in BOOLEAN /\ AttemptFails(Top, b)
      BY <1>4 DEF BeginFails, connection
    <2> HIDE DEF b
    <2> QED BY <1>3, <2>1
  <1>5. CASE Write
    <2> DEFINE f == [Top EXCEPT !.wrote = @ + 1]
    <2>1. /\ InBody /\ frames # <<>> /\ ~throwing /\ Top.wrote < 2 /\ SetTop(f)
          /\ disk' = (IF stack = <<>> THEN work' ELSE disk) /\ Top.pc = "body"
          /\ UNCHANGED <<begun, answered, failed>>
      BY <1>5 DEF Write, InBody, history
    <2>2. stack # <<>> /\ Top \in FrameType
      BY <2>1, InBodyLevels, TopCall
    <2>3. f \in FrameType /\ f.pc = "body" /\ Own(f) = Own(Top)
      BY <2>1, <2>2 DEF FrameType, Own
    <2> HIDE DEF f
    <2> QED BY <2>1, <2>2, <2>3, SetTopReplaces, OwnedTop DEF Outcome
  <1>6. ASSUME NEW retryable \in BOOLEAN, BodyThrows(retryable) PROVE Owned' /\ Outcome
    <2>1. /\ frames # <<>> /\ Top.pc # "committed" /\ UNCHANGED <<disk, begun, answered>>
          /\ AttemptFails(Top, retryable /\ ~throwing)
      BY <1>6, RollBackConnects DEF BodyThrows, InBody
    <2> QED BY <1>3, <2>1
  <1>7. CASE Abort
    BY <1>7 DEF Abort, history, Owned, Outcome
  <1>8. CASE Release
    <2>1. /\ InBody /\ frames # <<>> /\ ~throwing /\ Top.depth > 0
          /\ disk' = IF Len(stack) = 1 THEN work ELSE disk
          /\ frames' = [Below EXCEPT ![Len(frames) - 1].inner = @ \cup Top.inner \cup {Top.unit}]
          /\ UNCHANGED <<begun, answered, failed>>
      BY <1>8 DEF Release, InBody, IsSavepoint, history
    <2> PICK l \in Nat : /\ Len(frames) = l + 1 /\ Len(frames) - 1 = l /\ Top = frames[l + 1]
                         /\ Top \in FrameType /\ Top.depth = l
                         /\ \A i \in 1 .. l : frames[i].pc = "body"
      BY <2>1, Height
    <2> PICK m \in Nat : l = m + 1
      <3>1. l - 1 \in Nat /\ l = (l - 1) + 1
        BY <2>1
      <3> QED BY <3>1
    <2>2. Len(stack) = m + 2 /\ disk' = disk
      BY <2>1, InBodyLevels
    <2>3. /\ Len(frames') = m + 1 /\ \A i \in 1 .. m : frames'[i] = frames[i]
          /\ frames'[m + 1] = [frames[m + 1] EXCEPT !.inner = @ \cup Own(Top)]
          /\ frames[m + 1] \in FrameType
      BY <2>1, Released, TopCall
    <2>4. /\ Own(frames'[m + 1]) = Own(frames[m + 1]) \cup Own(frames[m + 2])
          /\ frames'[m + 1].pc = "body"
      BY <2>3 DEF FrameType, Own
    <2>5. /\ Top.pc = "body"
          /\ \A i \in 1 .. m + 1 : frames[i].pc = "body" /\ i \in 1 .. m + 2 /\ i # m + 2
          /\ m + 2 \in 1 .. m + 2 /\ m + 1 \in 1 .. m + 1
          /\ \A i \in 1 .. m + 1 : i \in 1 .. m \/ i = m + 1
          /\ \A i \in 1 .. m : i # m + 1 /\ i \in 1 .. m + 1
      BY <2>1 DEF InBody
    <2>6. \A i \in 1 .. m + 2 :
              /\ Own(frames[i]) \subseteq begun \ failed
              /\ (Own(frames[i]) \X Parts) \cap disk = {}
              /\ \A j \in 1 .. m + 2 : i # j => Own(frames[i]) \cap Own(frames[j]) = {}
      <3>1. \A i \in 1 .. m + 2 : frames[i].pc # "committed"
        BY <2>5
      <3> QED BY <3>1 DEF Owned
    <2>7. \A i \in 1 .. m + 1 :
              /\ Own(frames'[i]) \subseteq begun \ failed
              /\ (Own(frames'[i]) \X Parts) \cap disk = {}
              /\ frames'[i].pc = "body"
      <3>1. \A i \in 1 .. m :
              /\ Own(frames'[i]) \subseteq begun \ failed
              /\ (Own(frames'[i]) \X Parts) \cap disk = {}
              /\ frames'[i].pc = "body"
        BY <2>3, <2>5, <2>6
      <3>2. /\ Own(frames'[m + 1]) \subseteq begun \ failed
            /\ (Own(frames'[m + 1]) \X Parts) \cap disk = {}
        BY <2>4, <2>5, <2>6
      <3> QED BY <2>4, <2>5, <3>1, <3>2
    <2>8. \A i, j \in 1 .. m + 1 : i # j => Own(frames'[i]) \cap Own(frames'[j]) = {}
      <3>1. \A i, j \in 1 .. m : i # j => Own(frames'[i]) \cap Own(frames'[j]) = {}
        BY <2>3, <2>5, <2>6
      <3>2. ASSUME NEW i \in 1 .. m PROVE Own(frames'[i]) \cap Own(frames'[m + 1]) = {}
        <4>1. /\ i \in 1 .. m + 2 /\ i # m + 1 /\ i # m + 2
              /\ m + 1 \in 1 .. m + 2 /\ m + 2 \in 1 .. m + 2
          OBVIOUS
        <4>2. /\ Own(frames[i]) \cap Own(frames[m + 1]) = {}
              /\ Own(frames[i]) \cap Own(frames[m + 2]) = {}
          BY <2>6, <4>1
        <4> QED BY <2>3, <2>4, <4>2
      <3> QED BY <2>5, <3>1, <3>2
    <2> QED BY <2>1, <2>2, <2>3, <2>7, <2>8 DEF Owned, Outcome
  <1>9. CASE Commit
    <2> DEFINE f == [Top EXCEPT !.pc = "committed"]
    <2>1. /\ InBody /\ frames # <<>> /\ ~throwing /\ Top.wrote = 2 /\ ~(Top.depth > 0)
          /\ disk' = work /\ SetTop(f) /\ UNCHANGED <<begun, answered, failed>> /\ Top.pc = "body"
      BY <1>9 DEF Commit, InBody, IsSavepoint, history
    <2> PICK m \in Nat : /\ Len(frames) = m + 1 /\ Top = frames[m + 1] /\ Top \in FrameType
                         /\ m = 0
      BY <2>1, Height
    <2>2. f \in FrameType /\ f.pc = "committed" /\ Own(f) = Own(Top)
      BY <2>1 DEF FrameType, Own
    <2> HIDE DEF f
    <2>3. Len(frames') = 1 /\ frames'[1] = f
      BY <2>1, <2>2, SetTopReplaces DEF Replaced
    <2>4. disk' = disk \cup (Own(Top) \X Parts)
      <3>1. work = Base(0) \cup Rows(Top)
        BY <2>1, InBodyLevels, BaseAbove
      <3> QED BY <2>1, <3>1, RowsOf, BaseZero DEF Base
    <2>5. /\ Own(Top) \subseteq begun \ failed /\ (Own(Top) \X Parts) \cap disk = {}
          /\ disk \subseteq begun \X Parts /\ failed \subseteq begun
      BY <2>1 DEF Owned
    <2>6. disk' \subseteq begun' \X Parts
      BY <2>1, <2>4, <2>5
    <2>7. begun \subseteq Units
      BY DEF TypeOK
    <2> QED BY <2>1, <2>2, <2>3, <2>4, <2>5, <2>6, <2>7 DEF Owned, Outcome, CommitOf
  <1>10. CASE CommitFails
    <2>1. /\ InBody /\ frames # <<>> /\ ~throwing /\ Top.pc # "committed"
          /\ UNCHANGED <<begun, answered>>
      BY <1>10 DEF CommitFails, InBody
    <2>2. disk' = disk
      BY <1>10 DEF CommitFails, connection
    <2>3. PICK retryable \in BOOLEAN : AttemptFails(Top, retryable /\ stack # <<>>)
      BY <1>10 DEF CommitFails
    <2> QED BY <1>3, <2>1, <2>2, <2>3
  <1>11. CASE Return
    <2>1. /\ frames' = <<>> /\ frames # <<>> /\ Top.pc = "committed"
          /\ UNCHANGED <<disk, begun, failed>>
          /\ answered' = answered \cup Own(Top)
      BY <1>11 DEF Return, connection, Own
    <2> PICK m \in Nat : Len(frames) = m + 1 /\ Top = frames[m + 1] /\ Top \in FrameType
      BY <2>1, Height
    <2>2. Own(Top) \X Parts \subseteq disk /\ Own(Top) \subseteq Units
      <3>1. m + 1 \in 1 .. m + 1 /\ frames[m + 1].pc = "committed"
        BY <2>1
      <3> QED BY <3>1 DEF Owned, Own, FrameType
    <2> QED BY <2>1, <2>2, EmptySeq DEF Owned, Outcome, AnswerOf
  <1>12. CASE Crash
    BY <1>12, EmptySeq DEF Crash, history, Owned, Outcome
  <1>13. CASE UNCHANGED vars
    BY <1>13 DEF vars, connection, history, Owned, Outcome
  <1> QED BY <1>1, <1>2, <1>4, <1>5, <1>6, <1>7, <1>8, <1>9, <1>10, <1>11, <1>12, <1>13
          DEF Next, Step

(***************************************************************************)
(* Theorems                                                                *)
(***************************************************************************)

TInv == TypeOK /\ Nested /\ Layers /\ Owned

LEMMA InitInv == ASSUME Init PROVE TInv
  <1>1. /\ disk = {} /\ work = {} /\ stack = <<>> /\ depth = 0 /\ frames = <<>> /\ throwing = FALSE
        /\ begun = {} /\ answered = {} /\ failed = {}
        /\ aborts = 0 /\ commitFaults = 0 /\ crashes = 0
    BY DEF Init
  <1>2. Len(frames) = 0 /\ \A i \in 1 .. Len(frames) : FALSE
    BY <1>1, EmptySeq
  <1>3. TypeOK
    <2>1. depth \in 0 .. MaxDepth /\ Len(frames) <= MaxDepth
      BY <1>1, <1>2, TransactionAssumption
    <2>2. aborts \in 0 .. MaxAborts /\ commitFaults \in 0 .. MaxCommitFaults /\ crashes \in 0 .. MaxCrashes
      BY <1>1, TransactionAssumption
    <2>3. stack \in Seq(SUBSET (Units \X Parts)) /\ frames \in Seq(FrameType)
      BY <1>1, EmptySeq
    <2> QED BY <1>1, <2>1, <2>2, <2>3 DEF TypeOK
  <1>4. Nested
    BY <1>1, <1>2 DEF Nested
  <1>5. Layers
    BY <1>1 DEF Layers, Committed
  <1>6. Owned
    BY <1>1, <1>2 DEF Owned
  <1> QED BY <1>3, <1>4, <1>5, <1>6 DEF TInv

\* Database, depth counter and the calls on the JavaScript stack keep their types, whatever
\* the bodies do with errors (transaction.ts:72-160).
THEOREM TypeCorrect == Spec => []TypeOK
  <1>1. Init => TypeOK /\ Nested
    BY InitInv DEF TInv
  <1>2. TypeOK /\ Nested /\ [Next]_vars => (TypeOK /\ Nested)'
    BY ShapeStep
  <1> QED BY <1>1, <1>2, PTL DEF Spec

\* The layers and the owners are kept while such errors leave the bodies.
THEOREM Invariant == BodiesRethrow /\ Spec => []TInv
  <1> SUFFICES ASSUME BodiesRethrow PROVE Spec => []TInv
    OBVIOUS
  <1>1. Init => TInv
    BY InitInv
  <1>2. TInv /\ [Next]_vars => TInv'
    BY ShapeStep, LayersStep, OwnedStep DEF TInv
  <1> QED BY <1>1, <1>2, PTL DEF Spec

\* The module's depth counter is the number of levels SQLite has open wherever a body
\* runs, after any number of retries and rollbacks: what chooses between BEGIN and
\* SAVEPOINT, COMMIT and RELEASE (transaction.ts:135-139).
THEOREM DepthRight == BodiesRethrow /\ Spec => []DepthAgrees
  <1>1. TInv => DepthAgrees
    BY InBodyLevels DEF TInv, DepthAgrees
  <1> QED BY <1>1, Invariant, PTL

\* The writes of a unit and of the units nested in it become durable at once or not at
\* all, only durable units are answered, refused ones never become durable
\* (transaction.ts:6-8, 76-82), for any nesting and any number of retries.
THEOREM Refines == BodiesRethrow /\ Spec => ImplementsAtomicStore
  <1> SUFFICES ASSUME BodiesRethrow PROVE Spec => ImplementsAtomicStore
    OBVIOUS
  <1>1. Init => Store!Init
    BY DEF Init, Store!Init
  <1>2. TInv /\ [Next]_vars => [Store!Next]_(Store!vars)
    <2> SUFFICES ASSUME TInv, [Next]_vars PROVE [Store!Next]_(Store!vars)
      OBVIOUS
    <2>1. Outcome
      BY OwnedStep DEF TInv
    <2>2. CASE CommitOf
      <3>1. Own(Top) # {} /\ Own(Top) \in SUBSET Units
        BY <2>2 DEF CommitOf, Own
      <3>2. Store!Commit(Own(Top))
        BY <2>2, <3>1 DEF CommitOf, Store!Commit, Store!WritesOf
      <3> QED BY <3>1, <3>2 DEF Store!Next
    <2>3. CASE RefusalOf
      <3>1. Store!Refuse(Top.unit)
        BY <2>3 DEF RefusalOf, Store!Refuse, Store!WritesOf
      <3> QED BY <2>3, <3>1 DEF RefusalOf, Store!Next
    <2>4. CASE AnswerOf
      <3>1. Store!Answer(Own(Top)) /\ Own(Top) \in SUBSET Units
        BY <2>4 DEF AnswerOf, Store!Answer, Store!WritesOf
      <3> QED BY <3>1 DEF Store!Next
    <2>5. CASE UNCHANGED <<disk, answered, failed>>
      BY <2>5 DEF Store!vars
    <2> QED BY <2>1, <2>2, <2>3, <2>4, <2>5 DEF Outcome
  <1> QED BY <1>1, <1>2, Invariant, PTL DEF Spec, ImplementsAtomicStore, Store!Spec
=============================================================================
