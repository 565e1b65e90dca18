-------------------------- MODULE ScriptCallsProofs --------------------------
(***************************************************************************)
(* Proofs about ScriptCalls: for every set of programs, whatever scripts   *)
(* declare, call and stop each other, at any depth.                        *)
(***************************************************************************)
EXTENDS ScriptCalls, SequenceTheorems, TLAPS


------------------------------------------------------------------------------
(* The inductive invariant. *)

\* Only the innermost activation tests its script, the others run and wait for
\* their callee with no exit code.
FramesInv ==
  \A i \in 1 .. Len(frames) :
    /\ i < Len(frames) => frames[i].pass = "run" /\ frames[i].rc = 0
    /\ frames[i].pass = "run" => tested[frames[i].script]
    /\ frames[i].pass = "check" => frames[i].rc = 0

\* A name leads to a script of that name, for ever.
NamesInv ==
  /\ \A n \in DOMAIN registered : NameOf[registered[n]] = n
  /\ NameOf[Main] \in DOMAIN registered /\ registered[NameOf[Main]] = Main

\* The stack of names has a name for each activation on top, the outermost one is
\* an activation of Main, and its name stays when none is left.
StackInv ==
  /\ Len(stack) = Len(returns) /\ Len(stack) >= 1 /\ Len(frames) <= Len(stack)
  /\ \A i \in 1 .. Len(frames) :
       registered[stack[Len(stack) - Len(frames) + i]] = frames[i].script
  /\ current = IF frames = <<>> THEN Main ELSE This
  /\ IF frames = <<>> THEN registered[stack[Len(stack)]] = Main ELSE frames[1].script = Main

\* The line a caller will go on with is a line of its script or the end.
ReturnsInv ==
  \A i \in 1 .. Len(frames) - 1 :
    returns[Len(returns) - Len(frames) + i + 1] <= Len(text[frames[i].script])

\* The statements that passed the test: all of a tested script, those before the
\* index of another one.
AcceptedInv ==
  ~rejected => \A o \in Objects :
    accepted[o] = IF tested[o] THEN DOMAIN text[o] ELSE 1 .. index[o]

\* While a script is tested the global variable is kept in the frame.
GlobalsInv ==
  ~rejected => assigned = IF frames # <<>> /\ Top.pass = "check" THEN Top.safe ELSE globals

IInv ==
  TypeOK /\ FramesInv /\ NamesInv /\ StackInv /\ ReturnsInv /\ AcceptedInv /\ GlobalsInv

------------------------------------------------------------------------------
(* What the types say. *)

LEMMA Facts ==
  ASSUME TypeOK
  PROVE  /\ \A o \in Objects :
              /\ text[o] \in Seq(Statement) /\ Len(text[o]) \in Nat
              /\ DOMAIN text[o] = 1 .. Len(text[o])
              /\ index[o] \in 0 .. Len(text[o])
         /\ Len(frames) \in Nat /\ DOMAIN frames = 1 .. Len(frames)
         /\ \A i \in 1 .. Len(frames) : frames[i] \in FrameType
         /\ Len(stack) \in Nat /\ Len(returns) \in Nat
         /\ \A i \in 1 .. Len(stack) : stack[i] \in DOMAIN registered
         /\ \A i \in 1 .. Len(returns) : returns[i] \in Nat
<1>1. \A o \in Objects : text[o] \in Seq(Statement) /\ index[o] \in Nat /\ index[o] <= Len(text[o])
  BY DEF TypeOK
<1>2. \A o \in Objects : /\ Len(text[o]) \in Nat /\ DOMAIN text[o] = 1 .. Len(text[o])
                         /\ index[o] \in 0 .. Len(text[o])
  BY <1>1, LenProperties
<1>3. frames \in Seq(FrameType) /\ stack \in Seq(DOMAIN registered) /\ returns \in Seq(Nat)
  BY DEF TypeOK
<1> QED
  BY <1>1, <1>2, <1>3, LenProperties, ElementOfSeq

LEMMA TopFacts ==
  ASSUME TypeOK, frames # <<>>
  PROVE  /\ Len(frames) \in Nat /\ Len(frames) >= 1 /\ Top \in FrameType
         /\ This \in Objects /\ Top.pass \in {"check", "run"} /\ Top.safe \in Values
         /\ Top.rc \in Values
         /\ Len(text[This]) \in Nat /\ index[This] \in 0 .. Len(text[This])
<1>1. Len(frames) >= 1 /\ Len(frames) \in Nat
  BY EmptySeq DEF TypeOK
<1>2. Top \in FrameType
  BY <1>1, Facts DEF Top
<1> QED
  BY <1>1, <1>2, Facts DEF FrameType, This

LEMMA AtFacts ==
  ASSUME TypeOK, NEW pass \in {"check", "run"}, NEW ops, At(pass, ops)
  PROVE  /\ frames # <<>> /\ Top.pass = pass
         /\ pass = "check" => ~tested[This]
         /\ pass = "run" => Top.rc = 0
         /\ Line \in 1 .. Len(text[This]) /\ Line = index[This] + 1
         /\ It \in Statement /\ It.op \in ops
<1>1. frames # <<>> /\ Top.pass = pass /\ index[This] < Len(text[This]) /\ It.op \in ops
      /\ (pass = "check" => ~tested[This]) /\ (pass = "run" => Top.rc = 0)
  BY DEF At
<1>2. Line \in 1 .. Len(text[This]) /\ Line = index[This] + 1
  BY <1>1, TopFacts DEF Line
<1>3. It \in Statement
  BY <1>1, <1>2, TopFacts, Facts, ElementOfSeq DEF It
<1> QED
  BY <1>1, <1>2, <1>3

------------------------------------------------------------------------------
(* Initially. *)

LEMMA InvInit == Init => IInv
<1> SUFFICES ASSUME Init PROVE IInv
  OBVIOUS
<1>1. text \in [Objects -> Seq(Statement)]
  BY TextsAssumption DEF Init
<1>2. \A o \in Objects : Len(text[o]) \in Nat
  BY <1>1, LenProperties
<1>3. TypeOK
  <2>1. registered = [n \in {NameOf[Main]} |-> Main] /\ NameOf[Main] \in Names
    BY NamesAssumption DEF Init
  <2>2. stack = <<NameOf[Main]>> /\ returns = <<0>> /\ frames = <<>>
    BY DEF Init
  <2>3. stack \in Seq(DOMAIN registered) /\ returns \in Seq(Nat) /\ frames \in Seq(FrameType)
    BY <2>1, <2>2
  <2>4. index \in [Objects -> Nat] /\ \A o \in Objects : index[o] <= Len(text[o])
    BY <1>2 DEF Init
  <2>5. tested \in [Objects -> BOOLEAN] /\ accepted \in [Objects -> SUBSET Nat]
    BY DEF Init
  <2>6. starts \in 0 .. MaxStarts
    BY DepthAssumption DEF Init
  <2> QED
    BY <1>1, <2>1, <2>3, <2>4, <2>5, <2>6, NamesAssumption, ValuesAssumption
    DEF Init, TypeOK
<1>4. FramesInv /\ ReturnsInv
  BY DEF Init, FramesInv, ReturnsInv
<1>5. NamesInv /\ StackInv
  BY DEF Init, NamesInv, StackInv
<1>6. AcceptedInv /\ GlobalsInv
  BY DEF Init, AcceptedInv, GlobalsInv
<1> QED
  BY <1>3, <1>4, <1>5, <1>6 DEF IInv

------------------------------------------------------------------------------
(* Parts of steps. *)

\* The engine forgets no script, and learns scripts by their names only.
Extended ==
  /\ DOMAIN registered \subseteq DOMAIN registered' /\ DOMAIN registered' \subseteq Names
  /\ \A n \in DOMAIN registered : registered'[n] = registered[n]
  /\ \A n \in DOMAIN registered' : registered'[n] \in Objects /\ NameOf[registered'[n]] = n

LEMMA SameRegistered ==
  ASSUME IInv, registered' = registered
  PROVE  Extended
BY DEF IInv, TypeOK, NamesInv, Extended

LEMMA Registers ==
  ASSUME IInv, NEW o \in Objects,
         NameOf[o] \in DOMAIN registered => registered[NameOf[o]] = o,
         registered' = Registered(o)
  PROVE  Extended /\ DOMAIN registered' = DOMAIN registered \cup {NameOf[o]}
                  /\ registered'[NameOf[o]] = o
<1>2. NameOf[o] \in Names /\ DOMAIN registered \subseteq Names
  BY NamesAssumption DEF IInv, TypeOK
<1> QED
  BY <1>2 DEF IInv, TypeOK, NamesInv, Extended, Registered

\* The names on the stack stay names of scripts.
LEMMA StackKept ==
  ASSUME IInv, Extended
  PROVE  stack \in Seq(DOMAIN registered') /\ NamesInv'
<1>1. stack \in Seq(DOMAIN registered')
  BY SeqMonotonic DEF IInv, TypeOK, Extended
<1>2. NamesInv'
  BY DEF IInv, NamesInv, Extended
<1> QED
  BY <1>1, <1>2

\* A statement that calls nothing: what the frames and the engine say stays true.
LEMMA InFrame ==
  ASSUME IInv, frames # <<>>, NEW v \in 0 .. Len(text[This]),
         index' = [index EXCEPT ![This] = v], Extended,
         UNCHANGED <<text, tested, frames, stack, returns, current>>
  PROVE  /\ index' \in [Objects -> Nat] /\ \A o \in Objects : index'[o] <= Len(text'[o])
         /\ stack' \in Seq(DOMAIN registered')
         /\ FramesInv' /\ NamesInv' /\ StackInv' /\ ReturnsInv'
<1>1. TypeOK
  BY DEF IInv
<1>2. index' \in [Objects -> Nat] /\ \A o \in Objects : index'[o] <= Len(text'[o])
  BY <1>1, TopFacts, Facts DEF TypeOK
<1>3. stack' \in Seq(DOMAIN registered') /\ NamesInv'
  BY StackKept
<1>4. FramesInv' /\ ReturnsInv'
  BY DEF IInv, FramesInv, ReturnsInv
<1>5. StackInv'
  <2>1. \A i \in 1 .. Len(stack) : registered'[stack[i]] = registered[stack[i]]
    BY <1>1, Facts DEF Extended
  <2>2. \A i \in 1 .. Len(frames) : Len(stack) - Len(frames) + i \in 1 .. Len(stack)
    BY <1>1, Facts DEF IInv, StackInv
  <2>3. This' = This
    BY DEF This, Top
  <2>4. StackInv
    BY DEF IInv
  <2>5. \A i \in 1 .. Len(frames) :
          registered'[stack[Len(stack) - Len(frames) + i]] = frames[i].script
    BY <2>1, <2>2, <2>4 DEF StackInv
  <2> QED
    BY <2>3, <2>4, <2>5 DEF StackInv
<1> QED
  BY <1>2, <1>3, <1>4, <1>5

LEMMA Predecessor ==
  ASSUME NEW m \in Nat, m # 0
  PROVE  \E n \in Nat : m = n + 1
<1>1. m - 1 \in Nat /\ m = m - 1 + 1
  OBVIOUS
<1> QED
  BY <1>1

\* Front of a sequence with one element changed.
LEMMA FrontProperties ==
  ASSUME NEW S, NEW s \in Seq(S), s # <<>>
  PROVE  /\ Front(s) \in Seq(S) /\ Len(Front(s)) = Len(s) - 1
         /\ \A i \in 1 .. Len(s) - 1 : Front(s)[i] = s[i]
         /\ Last(s) = s[Len(s)] /\ Last(s) \in S
<1>1. Len(s) \in Nat /\ Len(s) >= 1
  BY EmptySeq
<1>2. \A i \in 1 .. Len(s) : s[i] \in S
  BY ElementOfSeq
<1>3. Front(s) = SubSeq(s, 1, Len(s) - 1) /\ Last(s) = s[Len(s)]
  BY DEF Front, Last
<1>4. PICK n \in Nat : Len(s) = n + 1
  BY <1>1
<1>5. /\ SubSeq(s, 1, n) \in Seq(S) /\ Len(SubSeq(s, 1, n)) = n
      /\ \A i \in 1 .. n : SubSeq(s, 1, n)[i] = s[i]
  <2>1. \A i \in 1 .. n : s[i] \in S
    BY <1>2, <1>4
  <2>2. /\ SubSeq(s, 1, n) \in Seq(S)
        /\ Len(SubSeq(s, 1, n)) = IF 1 <= n THEN n - 1 + 1 ELSE 0
        /\ \A i \in 1 .. n - 1 + 1 : SubSeq(s, 1, n)[i] = s[1 + i - 1]
    BY <2>1, SubSeqProperties
  <2> QED
    BY <2>2
<1>6. Len(s) - 1 = n
  BY <1>4
<1> QED
  BY <1>1, <1>2, <1>3, <1>5, <1>6

\* The frames that are left when the innermost one returns rc.
Left(rc) ==
  IF Len(frames) = 1 THEN <<>>
  ELSE [Front(frames) EXCEPT ![Len(frames) - 1].rc = rc]

LEMMA LeftFrames ==
  ASSUME TypeOK, FramesInv, frames # <<>>, NEW rc \in Values
  PROVE  /\ Left(rc) \in Seq(FrameType) /\ Len(Left(rc)) = Len(frames) - 1
         /\ \A i \in 1 .. Len(frames) - 1 :
              /\ Left(rc)[i].script = frames[i].script
              /\ Left(rc)[i].pass = "run" /\ frames[i].pass = "run"
              /\ Left(rc)[i].rc = IF i = Len(frames) - 1 THEN rc ELSE 0
<1>1. frames \in Seq(FrameType) /\ Len(frames) \in Nat /\ Len(frames) >= 1
  BY TopFacts DEF TypeOK
<1>2. \A i \in 1 .. Len(frames) - 1 : frames[i].pass = "run" /\ frames[i].rc = 0
  BY <1>1 DEF FramesInv
<1>3. CASE Len(frames) = 1
  BY <1>1, <1>3, EmptySeq DEF Left
<1>4. CASE Len(frames) # 1
  <2>0. PICK n \in Nat : Len(frames) = n + 1 /\ n >= 1
    <3>1. PICK n \in Nat : Len(frames) = n + 1
      BY <1>1, Predecessor
    <3>2. n >= 1
      BY <1>4, <3>1
    <3> QED
      BY <3>1, <3>2
  <2> DEFINE f == Front(frames)
             g == [f[n] EXCEPT !.rc = rc]
  <2>1. n \in 1 .. n /\ f \in Seq(FrameType) /\ Len(f) = n /\ \A i \in 1 .. n : f[i] = frames[i]
    BY <1>1, <2>0, FrontProperties
  <2>2. \A i \in 1 .. n : f[i] \in FrameType
    BY <2>1, ElementOfSeq
  <2>3. g \in FrameType /\ g.script = f[n].script /\ g.pass = f[n].pass /\ g.rc = rc
    BY <2>1, <2>2 DEF FrameType
  <2>4. Len(frames) - 1 = n
    BY <2>0
  <2>5. Left(rc) = [f EXCEPT ![n] = g]
    BY <1>4, <2>4, Zenon DEF Left
  <2> HIDE DEF f, g
  <2>6. /\ Left(rc) \in Seq(FrameType) /\ Len(Left(rc)) = n
        /\ \A i \in 1 .. n : Left(rc)[i] = IF i = n THEN g ELSE f[i]
    BY <2>1, <2>3, <2>5, ExceptSeq
  <2> QED
    BY <1>2, <2>1, <2>3, <2>4, <2>6
<1> QED
  BY <1>3, <1>4

\* testAndRun() returns to the client.
LEMMA ReturnLast ==
  ASSUME IInv, Len(frames) = 1, NEW rc \in Values, NEW idx,
         Return(rc, idx), UNCHANGED <<text, tested>>
  PROVE  /\ frames' = <<>> /\ index' = idx /\ result' = rc /\ UNCHANGED engine
         /\ FramesInv' /\ NamesInv' /\ StackInv' /\ ReturnsInv'
<1>1. TypeOK /\ NamesInv /\ StackInv
  BY DEF IInv
<1>2. frames' = <<>> /\ index' = idx /\ result' = rc /\ UNCHANGED engine
  BY Zenon DEF Return
<1>3. FramesInv' /\ ReturnsInv' /\ NamesInv'
  BY <1>1, <1>2 DEF FramesInv, ReturnsInv, NamesInv, engine
<1>4. current = Main /\ registered[stack[Len(stack)]] = Main
  <2>1. 1 \in 1 .. Len(frames) /\ Len(stack) - Len(frames) + 1 = Len(stack) /\ frames # <<>>
    <3>1. Len(stack) \in Nat /\ (frames = <<>> => Len(frames) = 0)
      BY <1>1, Facts
    <3> QED
      BY <3>1
  <2>2. registered[stack[Len(stack)]] = frames[1].script /\ frames[1].script = Main
    BY <1>1, <2>1 DEF StackInv
  <2>3. current = frames[1].script
    BY <1>1, <2>1 DEF StackInv, This, Top
  <2> QED
    BY <2>2, <2>3
<1>5. StackInv'
  BY <1>1, <1>2, <1>4, Facts DEF StackInv, engine
<1> QED
  BY <1>2, <1>3, <1>5

\* testAndRun() returns to call(): the caller is found on the stack and gets its
\* index back.
LEMMA ReturnToCaller ==
  ASSUME IInv, frames # <<>>, Len(frames) # 1, NEW rc \in Values,
         NEW idx \in [Objects -> Nat], \A o \in Objects : idx[o] <= Len(text[o]),
         Return(rc, idx), UNCHANGED <<text, tested>>,
         NEW n \in Nat, Len(frames) = n + 1
  PROVE  /\ n >= 1 /\ frames' = Left(rc) /\ frames' # <<>> /\ (Top.pass = "run")'
         /\ index' = [idx EXCEPT ![frames[n].script] = returns[Len(returns)]]
         /\ tested[frames[n].script]
         /\ returns[Len(returns)] \in 0 .. Len(text[frames[n].script])
         /\ returns' = Front(returns) /\ stack' = Front(stack)
         /\ registered' = registered /\ result' = result
         /\ current' = frames[n].script /\ frames[n].script \in Objects
         /\ FramesInv' /\ NamesInv' /\ StackInv' /\ ReturnsInv'
<1>1. TypeOK /\ FramesInv /\ NamesInv /\ StackInv /\ ReturnsInv
  BY DEF IInv
<1>2. n >= 1 /\ n \in 1 .. n /\ n \in 1 .. Len(frames) /\ Len(frames) - 1 = n
  OBVIOUS
<1>3. PICK k \in Nat : Len(stack) = k + 1 /\ Len(returns) = k + 1 /\ n <= k
  <2>1. Len(stack) \in Nat /\ Len(stack) = Len(returns) /\ Len(frames) <= Len(stack)
    BY <1>1, Facts DEF StackInv
  <2>2. Len(stack) - 1 \in Nat /\ Len(stack) = Len(stack) - 1 + 1 /\ n <= Len(stack) - 1
    BY <2>1
  <2> QED
    BY <2>1, <2>2
<1> DEFINE caller == registered[stack[Len(stack) - 1]]
<1>4. /\ frames' = Left(rc) /\ stack' = Front(stack) /\ returns' = Front(returns)
      /\ current' = caller /\ index' = [idx EXCEPT ![caller] = Last(returns)]
      /\ result' = result /\ registered' = registered
  BY Zenon DEF Return, Left
<1>5. caller = frames[n].script
  <2>1. Len(stack) - 1 = Len(stack) - Len(frames) + n
    BY <1>3
  <2> QED
    BY <1>1, <1>2, <2>1 DEF StackInv
<1>6. frames[n].script \in Objects /\ tested[frames[n].script]
  <2>1. frames[n] \in FrameType /\ frames[n].pass = "run"
    BY <1>1, <1>2, Facts DEF FramesInv
  <2> QED
    BY <1>1, <1>2, <2>1 DEF FramesInv, FrameType
<1>7. /\ stack' \in Seq(DOMAIN registered) /\ Len(stack') = k
      /\ \A i \in 1 .. k : stack'[i] = stack[i]
      /\ returns' \in Seq(Nat) /\ Len(returns') = k
      /\ \A i \in 1 .. k : returns'[i] = returns[i]
      /\ Last(returns) = returns[Len(returns)] /\ Last(returns) \in Nat
  <2>1. stack # <<>> /\ returns # <<>> /\ stack \in Seq(DOMAIN registered) /\ returns \in Seq(Nat)
    BY <1>1, <1>3, EmptySeq DEF TypeOK
  <2>2. Len(stack) - 1 = k /\ Len(returns) - 1 = k
    BY <1>3
  <2> QED
    BY <1>4, <2>1, <2>2, FrontProperties
<1>8. Last(returns) <= Len(text[frames[n].script])
  <2>1. n \in 1 .. Len(frames) - 1 /\ Len(returns) - Len(frames) + n + 1 = Len(returns)
    BY <1>2, <1>3
  <2> QED
    BY <1>1, <1>7, <2>1 DEF ReturnsInv
<1>9. /\ Len(frames') = n /\ frames' # <<>>
      /\ \A i \in 1 .. n : /\ frames'[i].script = frames[i].script
                           /\ frames'[i].pass = "run" /\ frames[i].pass = "run"
                           /\ frames'[i].rc = IF i = n THEN rc ELSE 0
  BY <1>1, <1>2, <1>4, LeftFrames, EmptySeq
<1>10. Top' = frames'[n]
  BY <1>9 DEF Top
<1>11. FramesInv'
  <2>1. \A i \in 1 .. n : i \in 1 .. Len(frames) /\ (i < n => i # n)
    OBVIOUS
  <2>2. \A i \in 1 .. n : tested[frames[i].script]
    BY <1>1, <1>9, <2>1 DEF FramesInv
  <2> QED
    BY <1>9, <2>1, <2>2 DEF FramesInv
<1>12. StackInv'
  <2>1. \A i \in 1 .. n : registered'[stack'[Len(stack') - Len(frames') + i]] = frames'[i].script
    <3> TAKE i \in 1 .. n
    <3>1. /\ Len(stack') - Len(frames') + i = k - n + i /\ k - n + i \in 1 .. k
          /\ Len(stack) - Len(frames) + i = k - n + i /\ i \in 1 .. Len(frames)
      BY <1>3, <1>7, <1>9
    <3>2. registered[stack[k - n + i]] = frames[i].script
      BY <1>1, <3>1 DEF StackInv
    <3> QED
      BY <1>4, <1>7, <1>9, <3>1, <3>2
  <2>2. frames'[1].script = Main
    <3>1. 1 \in 1 .. n
      BY <1>2
    <3> QED
      BY <1>1, <1>9, <3>1 DEF StackInv
  <2>3. Len(stack') = Len(returns') /\ Len(stack') >= 1 /\ Len(frames') <= Len(stack')
    BY <1>2, <1>3, <1>7, <1>9
  <2>4. current' = This'
    BY <1>2, <1>4, <1>5, <1>9, <1>10 DEF This
  <2> QED
    BY <1>9, <2>1, <2>2, <2>3, <2>4 DEF StackInv
<1>13. ReturnsInv'
  <2>1. \A i \in 1 .. n - 1 :
          returns'[Len(returns') - Len(frames') + i + 1] <= Len(text'[frames'[i].script])
    <3> TAKE i \in 1 .. n - 1
    <3>1. /\ Len(returns') - Len(frames') + i + 1 = k - n + i + 1 /\ k - n + i + 1 \in 1 .. k
          /\ Len(returns) - Len(frames) + i + 1 = k - n + i + 1
          /\ i \in 1 .. n /\ i \in 1 .. Len(frames) - 1
      BY <1>3, <1>7, <1>9
    <3>2. returns[k - n + i + 1] <= Len(text[frames[i].script])
      BY <1>1, <3>1 DEF ReturnsInv
    <3> QED
      BY <1>7, <1>9, <3>1, <3>2
  <2> QED
    BY <1>9, <2>1 DEF ReturnsInv
<1>14. NamesInv'
  BY <1>1, <1>4 DEF NamesInv
<1>15. (Top.pass = "run")'
  BY <1>2, <1>9, <1>10
<1> QED
  BY <1>2, <1>4, <1>5, <1>6, <1>7, <1>8, <1>9, <1>11, <1>12, <1>13, <1>14, <1>15

\* Both ways to return.
LEMMA ReturnKeeps ==
  ASSUME IInv, frames # <<>>, NEW rc \in Values,
         NEW idx \in [Objects -> Nat], \A o \in Objects : idx[o] <= Len(text[o]),
         Return(rc, idx), UNCHANGED <<text, tested>>
  PROVE  /\ frames' = Left(rc) /\ frames' \in Seq(FrameType)
         /\ frames' # <<>> => (Top.pass = "run")'
         /\ index' \in [Objects -> Nat] /\ \A o \in Objects : index'[o] <= Len(text'[o])
         /\ \A o \in Objects : ~tested[o] => index'[o] = idx[o]
         /\ registered' = registered /\ stack' \in Seq(DOMAIN registered)
         /\ returns' \in Seq(Nat) /\ current' \in Objects /\ result' \in Values
         /\ FramesInv' /\ NamesInv' /\ StackInv' /\ ReturnsInv'
<1>1. TypeOK /\ FramesInv /\ StackInv
  BY DEF IInv
<1>2. Len(frames) \in Nat /\ Len(frames) >= 1 /\ Left(rc) \in Seq(FrameType)
  BY <1>1, TopFacts, LeftFrames
<1>3. CASE Len(frames) = 1
  <2>1. /\ frames' = <<>> /\ index' = idx /\ result' = rc /\ UNCHANGED engine
        /\ FramesInv' /\ NamesInv' /\ StackInv' /\ ReturnsInv'
    BY <1>3, ReturnLast
  <2>2. frames' = Left(rc)
    BY <1>3, <2>1 DEF Left
  <2> QED
    BY <1>1, <1>2, <2>1, <2>2 DEF engine, TypeOK
<1>4. CASE Len(frames) # 1
  <2>1. PICK n \in Nat : Len(frames) = n + 1
    BY <1>2, Predecessor
  <2>2. /\ frames' = Left(rc) /\ frames' # <<>> /\ (Top.pass = "run")'
        /\ index' = [idx EXCEPT ![frames[n].script] = returns[Len(returns)]]
        /\ tested[frames[n].script] /\ frames[n].script \in Objects
        /\ returns[Len(returns)] \in 0 .. Len(text[frames[n].script])
        /\ returns' = Front(returns) /\ stack' = Front(stack)
        /\ registered' = registered /\ result' = result
        /\ current' = frames[n].script
        /\ FramesInv' /\ NamesInv' /\ StackInv' /\ ReturnsInv'
    BY <1>4, <2>1, ReturnToCaller
  <2>3. /\ index' \in [Objects -> Nat] /\ \A o \in Objects : index'[o] <= Len(text'[o])
        /\ \A o \in Objects : ~tested[o] => index'[o] = idx[o]
    <3>1. Len(text[frames[n].script]) \in Nat
      BY <1>1, <2>2, Facts
    <3> QED
      BY <2>2, <3>1
  <2>4. stack' \in Seq(DOMAIN registered) /\ returns' \in Seq(Nat)
    <3>1. stack # <<>> /\ returns # <<>> /\ stack \in Seq(DOMAIN registered) /\ returns \in Seq(Nat)
      BY <1>1, Facts, EmptySeq DEF StackInv, TypeOK
    <3> QED
      BY <2>2, <3>1, FrontProperties
  <2> QED
    BY <1>1, <1>2, <2>2, <2>3, <2>4 DEF TypeOK
<1> QED
  BY <1>3, <1>4

------------------------------------------------------------------------------
(* One lemma for each kind of step. *)

\* check() accepts a statement.
LEMMA CheckStep ==
  ASSUME IInv, NEW ops, At("check", ops), Advance, Accept, Extended, globals' \in Values,
         UNCHANGED <<text, tested, frames, stack, returns, current, result, starts,
                     rejected, assigned, stopping>>
  PROVE  IInv'
<1>1. TypeOK /\ AcceptedInv /\ GlobalsInv
  BY DEF IInv
<1>2. /\ frames # <<>> /\ Top.pass = "check" /\ ~tested[This]
      /\ Line \in 1 .. Len(text[This]) /\ Line = index[This] + 1
      /\ This \in Objects /\ index[This] \in Nat /\ Len(text[This]) \in Nat
  BY <1>1, AtFacts, TopFacts
<1>3. Line \in 0 .. Len(text[This]) /\ index' = [index EXCEPT ![This] = Line]
  BY <1>2 DEF Advance
<1>4. /\ index' \in [Objects -> Nat] /\ \A o \in Objects : index'[o] <= Len(text'[o])
      /\ stack' \in Seq(DOMAIN registered')
      /\ FramesInv' /\ NamesInv' /\ StackInv' /\ ReturnsInv'
  BY <1>2, <1>3, InFrame
<1>5. accepted' \in [Objects -> SUBSET Nat] /\ AcceptedInv'
  <2>1. accepted' = [accepted EXCEPT ![This] = accepted[This] \cup {Line}]
    BY DEF Accept
  <2>2. accepted' \in [Objects -> SUBSET Nat]
    BY <1>1, <1>2, <2>1 DEF TypeOK
  <2>3. 1 .. Line = (1 .. index[This]) \cup {Line}
    BY <1>2
  <2>4. AcceptedInv'
    BY <1>1, <1>2, <1>3, <2>1, <2>3 DEF AcceptedInv, TypeOK
  <2> QED
    BY <2>2, <2>4
<1>6. GlobalsInv'
  <2>1. Top' = Top
    BY DEF Top
  <2> QED
    BY <1>1, <1>2, <2>1 DEF GlobalsInv
<1>7. TypeOK'
  BY <1>1, <1>4, <1>5 DEF TypeOK, Extended
<1> QED
  BY <1>4, <1>5, <1>6, <1>7 DEF IInv

\* run() executes a statement that calls nothing and does not end the call.
LEMMA RunStep ==
  ASSUME IInv, NEW ops, At("run", ops), NEW v \in 0 .. Len(text[This]),
         index' = [index EXCEPT ![This] = v],
         globals' \in Values,
         globals' = assigned' \/ UNCHANGED <<globals, assigned>>,
         UNCHANGED <<text, tested, frames, engine, result, starts, accepted, rejected,
                     stopping>>
  PROVE  IInv'
<1>1. TypeOK /\ FramesInv /\ AcceptedInv /\ GlobalsInv
  BY DEF IInv
<1>2. frames # <<>> /\ Top.pass = "run" /\ This \in Objects /\ tested[This]
  <2>1. frames # <<>> /\ Top.pass = "run" /\ This \in Objects /\ Len(frames) \in 1 .. Len(frames)
    BY <1>1, AtFacts, TopFacts
  <2> QED
    BY <1>1, <2>1 DEF FramesInv, This, Top
<1>3. Extended
  BY SameRegistered DEF engine
<1>4. /\ index' \in [Objects -> Nat] /\ \A o \in Objects : index'[o] <= Len(text'[o])
      /\ stack' \in Seq(DOMAIN registered')
      /\ FramesInv' /\ NamesInv' /\ StackInv' /\ ReturnsInv'
  BY <1>2, <1>3, InFrame DEF engine
<1>5. AcceptedInv'
  BY <1>1, <1>2 DEF AcceptedInv, TypeOK
<1>6. GlobalsInv'
  <2>1. Top' = Top
    BY DEF Top
  <2> QED
    BY <1>1, <1>2, <2>1 DEF GlobalsInv
<1>7. TypeOK'
  BY <1>1, <1>4 DEF TypeOK, engine
<1> QED
  BY <1>4, <1>5, <1>6, <1>7 DEF IInv

\* run() ends, with an error or without one.
LEMMA RunReturns ==
  ASSUME IInv, frames # <<>>, Top.pass = "run", NEW rc \in Values,
         NEW v \in 0 .. Len(text[This]), Return(rc, [index EXCEPT ![This] = v]),
         stopping' \in BOOLEAN,
         UNCHANGED <<text, tested, globals, starts, accepted, rejected, assigned>>
  PROVE  IInv'
<1>1. TypeOK /\ FramesInv /\ AcceptedInv /\ GlobalsInv
  BY DEF IInv
<1>2. This \in Objects /\ tested[This]
  <2>1. This \in Objects /\ Len(frames) \in 1 .. Len(frames)
    BY <1>1, TopFacts
  <2> QED
    BY <1>1, <2>1 DEF FramesInv, This, Top
<1> DEFINE idx == [index EXCEPT ![This] = v]
<1>3. /\ idx \in [Objects -> Nat] /\ \A o \in Objects : idx[o] <= Len(text[o])
      /\ \A o \in Objects : ~tested[o] => idx[o] = index[o]
  BY <1>1, <1>2, Facts DEF TypeOK
<1>4. Return(rc, idx)
  OBVIOUS
<1> HIDE DEF idx
<1>5. /\ frames' = Left(rc) /\ frames' \in Seq(FrameType)
      /\ frames' # <<>> => (Top.pass = "run")'
      /\ index' \in [Objects -> Nat] /\ \A o \in Objects : index'[o] <= Len(text'[o])
      /\ \A o \in Objects : ~tested[o] => index'[o] = idx[o]
      /\ registered' = registered /\ stack' \in Seq(DOMAIN registered)
      /\ returns' \in Seq(Nat) /\ current' \in Objects /\ result' \in Values
      /\ FramesInv' /\ NamesInv' /\ StackInv' /\ ReturnsInv'
  BY <1>3, <1>4, ReturnKeeps
<1>6. AcceptedInv'
  BY <1>1, <1>3, <1>5 DEF AcceptedInv
<1>7. GlobalsInv'
  BY <1>1, <1>5 DEF GlobalsInv
<1>8. TypeOK'
  BY <1>1, <1>5 DEF TypeOK
<1> QED
  BY <1>5, <1>6, <1>7, <1>8 DEF IInv


LEMMA CheckFailsStep == IInv /\ CheckFails => IInv'
<1> SUFFICES ASSUME IInv, CheckFails PROVE IInv'
  OBVIOUS
<1>1. TypeOK
  BY DEF IInv
<1>2. PICK ops : At("check", ops)
  BY DEF CheckFails
<1>3. frames # <<>> /\ Line \in 1 .. Len(text[This]) /\ This \in Objects
  BY <1>1, <1>2, AtFacts, TopFacts
<1> DEFINE idx == [index EXCEPT ![This] = Line]
<1>4. idx \in [Objects -> Nat] /\ \A o \in Objects : idx[o] <= Len(text[o])
  BY <1>1, <1>3, Facts DEF TypeOK
<1>5. /\ Return(1, idx) /\ rejected' = TRUE
      /\ UNCHANGED <<text, tested, globals, starts, accepted, assigned, stopping>>
  BY Zenon DEF CheckFails, Throw
<1>6. 1 \in Values
  BY ValuesAssumption
<1> HIDE DEF idx
<1>7. /\ frames' \in Seq(FrameType)
      /\ index' \in [Objects -> Nat] /\ \A o \in Objects : index'[o] <= Len(text'[o])
      /\ registered' = registered /\ stack' \in Seq(DOMAIN registered)
      /\ returns' \in Seq(Nat) /\ current' \in Objects /\ result' \in Values
      /\ FramesInv' /\ NamesInv' /\ StackInv' /\ ReturnsInv'
  BY <1>3, <1>4, <1>5, <1>6, ReturnKeeps
<1>8. AcceptedInv' /\ GlobalsInv'
  BY <1>5 DEF AcceptedInv, GlobalsInv
<1>9. TypeOK'
  BY <1>1, <1>5, <1>7 DEF TypeOK
<1> QED
  BY <1>7, <1>8, <1>9 DEF IInv

\* The frames when the innermost goes on with the second pass.
LEMMA RunFrames ==
  ASSUME TypeOK, frames # <<>>, frames' = [frames EXCEPT ![Len(frames)].pass = "run"]
  PROVE  /\ frames' \in Seq(FrameType) /\ Len(frames') = Len(frames)
         /\ \A i \in 1 .. Len(frames) :
              /\ i < Len(frames) => frames'[i] = frames[i]
              /\ frames'[i].script = frames[i].script /\ frames'[i].rc = frames[i].rc
              /\ frames'[i].safe = frames[i].safe
         /\ frames'[Len(frames)].pass = "run"
<1> DEFINE g == [frames[Len(frames)] EXCEPT !.pass = "run"]
<1>1. /\ Len(frames) \in 1 .. Len(frames) /\ frames \in Seq(FrameType) /\ Len(frames) \in Nat
      /\ \A i \in 1 .. Len(frames) : frames[i] \in FrameType
  BY TopFacts, Facts DEF TypeOK
<1>2. /\ g \in FrameType /\ g.script = frames[Len(frames)].script
      /\ g.rc = frames[Len(frames)].rc /\ g.safe = frames[Len(frames)].safe /\ g.pass = "run"
  BY <1>1 DEF FrameType
<1>3. frames' = [frames EXCEPT ![Len(frames)] = g]
  OBVIOUS
<1> HIDE DEF g
<1>4. /\ frames' \in Seq(FrameType) /\ Len(frames') = Len(frames)
      /\ \A i \in 1 .. Len(frames) : frames'[i] = IF i = Len(frames) THEN g ELSE frames[i]
  BY <1>1, <1>2, <1>3, ExceptSeq
<1> QED
  BY <1>1, <1>2, <1>4

LEMMA EndCheckStep == IInv /\ EndCheck => IInv'
<1> SUFFICES ASSUME IInv, EndCheck PROVE IInv'
  OBVIOUS
<1>1. TypeOK /\ FramesInv /\ NamesInv /\ StackInv /\ ReturnsInv /\ AcceptedInv /\ GlobalsInv
  BY DEF IInv
<1>2. /\ frames # <<>> /\ Top.pass = "check"
      /\ tested[This] \/ index[This] >= Len(text[This])
      /\ tested' = [tested EXCEPT ![This] = TRUE] /\ globals' = Top.safe
      /\ frames' = [frames EXCEPT ![Len(frames)].pass = "run"]
      /\ index' = [index EXCEPT ![This] = 0]
      /\ UNCHANGED <<text, engine, result, starts, history>>
  BY Zenon DEF EndCheck
<1>3. /\ Len(frames) \in 1 .. Len(frames) /\ Len(frames) \in Nat
      /\ This \in Objects /\ Top.safe \in Values
      /\ Len(text[This]) \in Nat /\ index[This] \in 0 .. Len(text[This])
  BY <1>1, <1>2, TopFacts
<1>4. /\ frames' \in Seq(FrameType) /\ Len(frames') = Len(frames)
      /\ \A i \in 1 .. Len(frames) :
           /\ i < Len(frames) => frames'[i] = frames[i]
           /\ frames'[i].script = frames[i].script /\ frames'[i].rc = frames[i].rc
      /\ frames'[Len(frames)].pass = "run"
  BY <1>1, <1>2, RunFrames
<1>5. index' \in [Objects -> Nat] /\ \A o \in Objects : index'[o] <= Len(text'[o])
  BY <1>1, <1>2, <1>3, Facts DEF TypeOK
<1>6. FramesInv'
  <2>1. \A i \in 1 .. Len(frames) :
          /\ i < Len(frames) => frames'[i].pass = "run" /\ frames'[i].rc = 0
          /\ frames'[i].pass = "run" => tested'[frames'[i].script]
          /\ frames'[i].pass = "check" => frames'[i].rc = 0
    <3> TAKE i \in 1 .. Len(frames)
    <3>1. CASE i = Len(frames)
      <4>1. frames'[i].script = This /\ frames'[i].pass = "run"
        BY <1>4, <3>1 DEF This, Top
      <4>2. tested'[This]
        BY <1>1, <1>2, <1>3 DEF TypeOK
      <4> QED
        BY <3>1, <4>1, <4>2
    <3>2. CASE i < Len(frames)
      <4>1. frames'[i] = frames[i] /\ frames[i].script \in Objects
        BY <1>1, <1>4, <3>2, Facts DEF FrameType
      <4>2. tested[frames[i].script] => tested'[frames[i].script]
        BY <1>1, <1>2, <4>1 DEF TypeOK
      <4> QED
        BY <1>1, <3>2, <4>1, <4>2 DEF FramesInv
    <3> QED
      BY <1>3, <3>1, <3>2
  <2> QED
    BY <1>4, <2>1 DEF FramesInv
<1>7. StackInv' /\ NamesInv'
  <2>1. This' = This /\ frames' # <<>>
    BY <1>3, <1>4, EmptySeq DEF This, Top
  <2>2. 1 \in 1 .. Len(frames)
    BY <1>3
  <2>3. /\ \A i \in 1 .. Len(frames) :
             registered[stack[Len(stack) - Len(frames) + i]] = frames'[i].script
        /\ frames'[1].script = Main /\ current = This
    BY <1>1, <1>2, <1>4, <2>2 DEF StackInv
  <2>4. Len(stack) = Len(returns) /\ Len(stack) >= 1 /\ Len(frames) <= Len(stack)
    BY <1>1 DEF StackInv
  <2>5. stack' = stack /\ returns' = returns /\ registered' = registered /\ current' = current
    BY <1>2 DEF engine
  <2>6. StackInv'
    BY <1>4, <2>1, <2>3, <2>4, <2>5 DEF StackInv
  <2> QED
    BY <1>1, <2>5, <2>6 DEF NamesInv
<1>8. ReturnsInv'
  <2>1. returns' = returns /\ text' = text
    BY <1>2 DEF engine
  <2>2. \A i \in 1 .. Len(frames) - 1 : i \in 1 .. Len(frames)
    BY <1>3
  <2>3. \A i \in 1 .. Len(frames) - 1 :
          returns[Len(returns) - Len(frames) + i + 1] <= Len(text[frames'[i].script])
    BY <1>1, <1>4, <2>2 DEF ReturnsInv
  <2> QED
    BY <1>4, <2>1, <2>3 DEF ReturnsInv
<1>9. AcceptedInv'
  <2> SUFFICES ASSUME ~rejected, NEW o \in Objects
               PROVE  accepted[o] = IF tested'[o] THEN DOMAIN text[o] ELSE 1 .. index'[o]
    BY <1>2 DEF AcceptedInv, history
  <2>1. accepted[o] = IF tested[o] THEN DOMAIN text[o] ELSE 1 .. index[o]
    BY <1>1 DEF AcceptedInv
  <2>2. CASE o = This
    <3>1. tested'[o] /\ (~tested[o] => index[o] = Len(text[o])) /\ DOMAIN text[o] = 1 .. Len(text[o])
      BY <1>1, <1>2, <1>3, <2>2, Facts DEF TypeOK
    <3> QED
      BY <2>1, <3>1
  <2>3. CASE o # This
    BY <1>1, <1>2, <2>1, <2>3 DEF TypeOK
  <2> QED
    BY <2>2, <2>3
<1>10. GlobalsInv'
  <2>1. (Top.pass = "run")'
    BY <1>4 DEF Top
  <2>2. ~rejected => assigned = Top.safe
    BY <1>1, <1>2 DEF GlobalsInv
  <2> QED
    BY <1>2, <2>1, <2>2 DEF GlobalsInv, history
<1>11. TypeOK'
  BY <1>1, <1>2, <1>3, <1>4, <1>5 DEF TypeOK, engine, history
<1> QED
  BY <1>6, <1>7, <1>8, <1>9, <1>10, <1>11 DEF IInv


\* What testAndRun() of the client and Call put on top.
LEMMA FrameFacts ==
  ASSUME TypeOK, NEW o \in Objects
  PROVE  /\ Frame(o) \in FrameType /\ Frame(o).script = o /\ Frame(o).pass = "check"
         /\ Frame(o).safe = globals /\ Frame(o).rc = 0
BY ValuesAssumption DEF Frame, FrameType, TypeOK

LEMMA StartedStep ==
  ASSUME IInv, Started,
         \/ UNCHANGED <<stack, returns>>
         \/ /\ stack' = Append(stack, NameOf[Main])
            /\ returns' = Append(returns, index[Main])
  PROVE  IInv'
<1>1. TypeOK /\ FramesInv /\ NamesInv /\ StackInv /\ AcceptedInv /\ GlobalsInv
  BY DEF IInv
<1>2. /\ frames = <<>> /\ starts < MaxStarts /\ starts' = starts + 1
      /\ frames' = <<Frame(Main)>> /\ stopping' = FALSE /\ current = Main
      /\ UNCHANGED <<text, index, tested, registered, current, globals, result,
                     accepted, rejected, assigned>>
  BY <1>1 DEF Started, StackInv
<1>3. Main \in Objects /\ NameOf[Main] \in DOMAIN registered /\ registered[NameOf[Main]] = Main
  BY <1>1, NamesAssumption DEF NamesInv
<1>4. /\ frames' \in Seq(FrameType) /\ Len(frames') = 1 /\ frames'[1].script = Main
      /\ frames'[1].pass = "check" /\ frames'[1].rc = 0 /\ frames'[1].safe = globals
      /\ frames' # <<>>
  BY <1>1, <1>2, <1>3, FrameFacts
<1>5. /\ stack' \in Seq(DOMAIN registered) /\ returns' \in Seq(Nat)
      /\ Len(stack') = Len(returns') /\ Len(stack') >= 1
      /\ registered[stack'[Len(stack')]] = Main
  <2>1. /\ stack \in Seq(DOMAIN registered) /\ returns \in Seq(Nat) /\ index[Main] \in Nat
        /\ Len(stack) = Len(returns) /\ Len(stack) >= 1 /\ registered[stack[Len(stack)]] = Main
        /\ Len(stack) \in Nat
    BY <1>1, <1>2, <1>3, Facts DEF TypeOK, StackInv
  <2>2. CASE UNCHANGED <<stack, returns>>
    BY <2>1, <2>2
  <2>3. CASE /\ stack' = Append(stack, NameOf[Main])
             /\ returns' = Append(returns, index[Main])
    BY <1>3, <2>1, <2>3, AppendProperties
  <2> QED
    BY <2>2, <2>3
<1>6. FramesInv'
  BY <1>4 DEF FramesInv
<1>7. StackInv' /\ NamesInv' /\ ReturnsInv'
  <2>1. Len(stack') \in Nat /\ Len(stack') - Len(frames') + 1 = Len(stack')
    BY <1>4, <1>5
  <2>2. \A i \in 1 .. Len(frames') : i = 1
    BY <1>4
  <2>3. \A i \in 1 .. Len(frames') :
          registered'[stack'[Len(stack') - Len(frames') + i]] = frames'[i].script
    BY <1>2, <1>4, <1>5, <2>1, <2>2
  <2>4. This' = Main
    BY <1>4 DEF This, Top
  <2> QED
    BY <1>1, <1>2, <1>4, <1>5, <2>3, <2>4 DEF StackInv, NamesInv, ReturnsInv
<1>8. AcceptedInv' /\ GlobalsInv'
  BY <1>1, <1>2, <1>4 DEF AcceptedInv, GlobalsInv, Top
<1>9. TypeOK'
  <2>1. starts' \in 0 .. MaxStarts
    BY <1>1, <1>2, DepthAssumption DEF TypeOK
  <2> QED
    BY <1>1, <1>2, <1>4, <1>5, <2>1 DEF TypeOK
<1> QED
  BY <1>6, <1>7, <1>8, <1>9 DEF IInv

LEMMA FoundFacts ==
  ASSUME IInv, It \in Statement
  PROVE  /\ Found \in Objects /\ NameOf[Found] \in Names
         /\ NameOf[Found] \in DOMAIN registered => registered[NameOf[Found]] = Found
<1>1. It.callee \in Objects
  BY DEF Statement
<1> QED
  BY <1>1, NamesAssumption DEF Found, IInv, TypeOK, NamesInv

LEMMA CallStep == IInv /\ Call => IInv'
<1> SUFFICES ASSUME IInv, Call PROVE IInv'
  OBVIOUS
<1>1. TypeOK /\ FramesInv /\ NamesInv /\ StackInv /\ ReturnsInv /\ AcceptedInv /\ GlobalsInv
  BY DEF IInv
<1>2. /\ At("run", {"call", "callfile"}) /\ Advance
      /\ registered' = Registered(Found)
      /\ stack' = Append(stack, NameOf[Found]) /\ returns' = Append(returns, Line)
      /\ current' = Found /\ frames' = Append(frames, Frame(Found))
      /\ UNCHANGED <<text, tested, globals, result, starts, history>>
  BY DEF Call
<1>3. /\ frames # <<>> /\ Top.pass = "run" /\ Top.rc = 0 /\ This \in Objects
      /\ Line \in 1 .. Len(text[This]) /\ Len(text[This]) \in Nat /\ It \in Statement
  BY <1>1, <1>2, AtFacts, TopFacts
<1>4. Found \in Objects /\ (NameOf[Found] \in DOMAIN registered => registered[NameOf[Found]] = Found)
  BY <1>3, FoundFacts
<1>5. Extended /\ NameOf[Found] \in DOMAIN registered' /\ registered'[NameOf[Found]] = Found
  BY <1>2, <1>4, Registers
<1>6. PICK n \in Nat : Len(frames) = n /\ n >= 1
  BY <1>1, <1>3, TopFacts
<1>7. PICK k \in Nat : Len(stack) = k /\ Len(returns) = k /\ n <= k /\ k >= 1
  BY <1>1, <1>6, Facts DEF StackInv
<1>8. tested[This]
  BY <1>1, <1>3, <1>6 DEF FramesInv, This, Top
<1>9. /\ index' \in [Objects -> Nat] /\ \A o \in Objects : index'[o] <= Len(text'[o])
      /\ \A o \in Objects : ~tested[o] => index'[o] = index[o]
  BY <1>1, <1>2, <1>3, <1>8, Facts DEF Advance, TypeOK
<1>10. /\ frames' \in Seq(FrameType) /\ Len(frames') = n + 1
       /\ \A i \in 1 .. n : frames'[i] = frames[i]
       /\ frames'[n + 1] = Frame(Found)
  <2>1. frames \in Seq(FrameType) /\ Frame(Found) \in FrameType
    BY <1>1, <1>4, FrameFacts DEF TypeOK
  <2> QED
    BY <1>2, <1>6, <2>1, AppendProperties
<1>11. /\ stack' \in Seq(DOMAIN registered') /\ Len(stack') = k + 1
       /\ \A i \in 1 .. k : stack'[i] = stack[i]
       /\ stack'[k + 1] = NameOf[Found]
  <2>1. stack \in Seq(DOMAIN registered')
    BY <1>5, StackKept
  <2> QED
    BY <1>2, <1>5, <1>7, <2>1, AppendProperties
<1>12. /\ returns' \in Seq(Nat) /\ Len(returns') = k + 1
       /\ \A i \in 1 .. k : returns'[i] = returns[i]
       /\ returns'[k + 1] = Line
  <2>1. returns \in Seq(Nat) /\ Line \in Nat
    BY <1>1, <1>3 DEF TypeOK
  <2> QED
    BY <1>2, <1>7, <2>1, AppendProperties
<1>13. /\ Frame(Found).script = Found /\ Frame(Found).pass = "check"
       /\ Frame(Found).safe = globals /\ Frame(Found).rc = 0
  BY <1>1, <1>4, FrameFacts
<1>14. Top' = Frame(Found) /\ This' = Found /\ frames' # <<>>
  BY <1>10, <1>13, EmptySeq DEF This, Top
<1>15. FramesInv'
  <2>1. \A i \in 1 .. n + 1 :
          /\ i < n + 1 => frames'[i].pass = "run" /\ frames'[i].rc = 0
          /\ frames'[i].pass = "run" => tested[frames'[i].script]
          /\ frames'[i].pass = "check" => frames'[i].rc = 0
    <3> TAKE i \in 1 .. n + 1
    <3>1. CASE i = n + 1
      BY <1>10, <1>13, <3>1
    <3>2. CASE i < n
      <4>1. i \in 1 .. n /\ i \in 1 .. Len(frames) /\ i < Len(frames)
        BY <1>6, <3>2
      <4> QED
        BY <1>1, <1>10, <3>2, <4>1 DEF FramesInv
    <3>3. CASE i = n
      <4>1. i \in 1 .. n /\ frames'[i] = Top
        BY <1>6, <1>10, <3>3 DEF Top
      <4> QED
        BY <1>3, <1>8, <4>1 DEF This
    <3> QED
      BY <3>1, <3>2, <3>3
  <2> QED
    BY <1>2, <1>10, <2>1 DEF FramesInv
<1>16. StackInv'
  <2>1. \A i \in 1 .. n + 1 : registered'[stack'[k + 1 - (n + 1) + i]] = frames'[i].script
    <3> TAKE i \in 1 .. n + 1
    <3>1. CASE i = n + 1
      <4>1. k + 1 - (n + 1) + i = k + 1
        BY <3>1
      <4> QED
        BY <1>5, <1>10, <1>11, <1>13, <3>1, <4>1
    <3>2. CASE i \in 1 .. n
      <4>1. k + 1 - (n + 1) + i = k - n + i /\ k - n + i \in 1 .. k
        BY <1>7, <3>2
      <4>2. registered[stack[k - n + i]] = frames[i].script
        BY <1>1, <1>6, <1>7, <3>2 DEF StackInv
      <4>3. registered'[stack[k - n + i]] = registered[stack[k - n + i]]
        BY <1>1, <1>5, <1>7, <4>1, Facts DEF Extended
      <4> QED
        BY <1>10, <1>11, <3>2, <4>1, <4>2, <4>3
    <3> QED
      BY <3>1, <3>2
  <2>2. frames'[1].script = Main
    <3>1. 1 \in 1 .. n
      BY <1>6
    <3> QED
      BY <1>1, <1>3, <1>10, <3>1 DEF StackInv
  <2>3. \A i \in 1 .. Len(frames') :
          registered'[stack'[Len(stack') - Len(frames') + i]] = frames'[i].script
    BY <1>10, <1>11, <2>1, SMTT(60)
  <2>4. Len(stack') = Len(returns') /\ Len(stack') >= 1 /\ Len(frames') <= Len(stack')
    BY <1>7, <1>10, <1>11, <1>12
  <2> QED
    BY <1>2, <1>14, <2>2, <2>3, <2>4 DEF StackInv
<1>17. ReturnsInv'
  <2>1. \A i \in 1 .. n : returns'[k + 1 - (n + 1) + i + 1] <= Len(text[frames'[i].script])
    <3> TAKE i \in 1 .. n
    <3>1. CASE i = n
      <4>1. k + 1 - (n + 1) + i + 1 = k + 1 /\ frames'[i] = Top
        BY <1>6, <1>10, <3>1 DEF Top
      <4> QED
        BY <1>3, <1>12, <4>1 DEF This
    <3>2. CASE i < n
      <4>1. k + 1 - (n + 1) + i + 1 = k - n + i + 1 /\ k - n + i + 1 \in 1 .. k /\ i \in 1 .. n - 1
        BY <1>7, <3>2
      <4>2. returns[k - n + i + 1] <= Len(text[frames[i].script])
        BY <1>1, <1>6, <1>7, <4>1 DEF ReturnsInv
      <4> QED
        BY <1>10, <1>12, <4>1, <4>2
    <3> QED
      BY <3>1, <3>2
  <2>2. Len(frames') - 1 = n
    BY <1>10
  <2>3. \A i \in 1 .. Len(frames') - 1 :
          returns'[Len(returns') - Len(frames') + i + 1] <= Len(text[frames'[i].script])
    BY <1>10, <1>12, <2>1, <2>2, SMTT(60)
  <2> QED
    BY <1>2, <2>3 DEF ReturnsInv
<1>18. AcceptedInv' /\ GlobalsInv'
  BY <1>1, <1>2, <1>3, <1>9, <1>13, <1>14 DEF AcceptedInv, GlobalsInv, history
<1>19. NamesInv'
  BY <1>5, StackKept
<1>20. TypeOK'
  BY <1>1, <1>2, <1>4, <1>5, <1>9, <1>10, <1>11, <1>12 DEF TypeOK, Extended, history
<1> QED
  BY <1>15, <1>16, <1>17, <1>18, <1>19, <1>20 DEF IInv


LEMMA InvNext == IInv /\ [Next]_vars => IInv'
<1> SUFFICES ASSUME IInv, [Next]_vars PROVE IInv'
  OBVIOUS
<1>0. TypeOK /\ 0 \in Values /\ 1 \in Values
  BY ValuesAssumption DEF IInv
<1>1. CASE Start
  BY <1>1, StartedStep DEF Start
<1>2. CASE StartByName
  BY <1>2, StartedStep DEF StartByName
<1>3. CASE CheckPlain
  BY <1>0, <1>3, CheckStep, SameRegistered DEF CheckPlain, engine, TypeOK
<1>4. CASE CheckSet
  <2>1. globals' \in Values
    BY <1>0, <1>4, AtFacts DEF CheckSet, Statement
  <2> QED
    BY <1>4, <2>1, CheckStep, SameRegistered DEF CheckSet, engine
<1>5. CASE CheckCall
  BY <1>0, <1>5, CheckStep, SameRegistered DEF CheckCall, engine, TypeOK
<1>6. CASE CheckDeclare
  <2>1. It.callee \in Objects
    BY <1>0, <1>6, AtFacts DEF CheckDeclare, Statement
  <2>2. Extended
    BY <1>6, <2>1, Registers DEF CheckDeclare
  <2> QED
    BY <1>0, <1>6, <2>2, CheckStep DEF CheckDeclare, TypeOK
<1>7. CASE CheckFails
  BY <1>7, CheckFailsStep
<1>8. CASE EndCheck
  BY <1>8, EndCheckStep
<1>9. CASE RunPlain
  <2>1. Line \in 0 .. Len(text[This])
    BY <1>0, <1>9, AtFacts DEF RunPlain
  <2> QED
    BY <1>0, <1>9, <2>1, RunStep DEF RunPlain, Advance, history, TypeOK
<1>10. CASE RunSet
  <2>1. Line \in 0 .. Len(text[This]) /\ It.value \in Values
    BY <1>0, <1>10, AtFacts DEF RunSet, Statement
  <2> QED
    BY <1>10, <2>1, RunStep DEF RunSet, Advance
<1>11. CASE Call
  BY <1>11, CallStep
<1>12. CASE Exit
  <2>1. Len(text[This]) \in 0 .. Len(text[This])
    BY <1>0, <1>12, AtFacts, TopFacts DEF Exit
  <2> QED
    BY <1>0, <1>12, <2>1, RunStep DEF Exit, history, TypeOK
<1>13. CASE ExitGlobal
  <2>1. /\ Line \in 0 .. Len(text[This]) /\ It.value \in Values
        /\ frames # <<>> /\ Top.pass = "run"
    BY <1>0, <1>13, AtFacts DEF ExitGlobal, Statement
  <2> QED
    BY <1>0, <1>13, <2>1, RunReturns DEF ExitGlobal, Throw
<1>14. CASE Stop
  <2>1. Line \in 0 .. Len(text[This]) /\ frames # <<>> /\ Top.pass = "run"
    BY <1>0, <1>14, AtFacts DEF Stop
  <2> QED
    BY <1>0, <1>14, <2>1, RunReturns DEF Stop, Throw, history, TypeOK
<1>15. CASE RunFails
  <2>1. PICK ops : At("run", ops)
    BY <1>15 DEF RunFails
  <2>2. Line \in 0 .. Len(text[This]) /\ frames # <<>> /\ Top.pass = "run"
    BY <1>0, <2>1, AtFacts
  <2> QED
    BY <1>0, <1>15, <2>2, RunReturns DEF RunFails, Throw, history, TypeOK
<1>16. CASE EndRun
  <2>1. frames # <<>> /\ Top.pass = "run" /\ Return(0, index)
    BY <1>16 DEF EndRun
  <2>2. index[This] \in 0 .. Len(text[This])
    BY <1>0, <2>1, TopFacts
  <2>3. index = [index EXCEPT ![This] = index[This]]
    BY <1>0 DEF TypeOK
  <2>4. Return(0, [index EXCEPT ![This] = index[This]])
    BY <2>1, <2>3
  <2> QED
    BY <1>0, <1>16, <2>1, <2>2, <2>4, RunReturns DEF EndRun, history, TypeOK
<1>17. CASE UNCHANGED vars
  <2>1. /\ text' = text /\ index' = index /\ tested' = tested /\ registered' = registered
        /\ stack' = stack /\ returns' = returns /\ current' = current
        /\ globals' = globals /\ frames' = frames /\ result' = result /\ starts' = starts
        /\ accepted' = accepted /\ rejected' = rejected /\ assigned' = assigned
        /\ stopping' = stopping
    BY <1>17 DEF vars, engine, history
  <2> QED
    BY <2>1 DEF IInv, TypeOK, FramesInv, NamesInv, StackInv, ReturnsInv, AcceptedInv,
                GlobalsInv, This, Top
<1> QED
  BY <1>1, <1>2, <1>3, <1>4, <1>5, <1>6, <1>7, <1>8, <1>9, <1>10, <1>11, <1>12, <1>13,
     <1>14, <1>15, <1>16, <1>17 DEF Next, Step

LEMMA Invariant == Spec => []IInv
BY InvInit, InvNext, PTL DEF Spec

------------------------------------------------------------------------------
(* What the invariant says. *)

\* Type correctness: no index leaves its script, every name on the stack leads to a
\* script.
THEOREM SpecTypeOK == Spec => []TypeOK
<1>1. IInv => TypeOK
  BY DEF IInv
<1> QED
  BY <1>1, Invariant, PTL

\* The stack of names, which popScript() reads the caller from, follows the C++ stack
\* (SearchEngine::popScript), whatever fails on the way.
THEOREM SpecEngineFollows == Spec => []EngineFollows
<1>1. IInv => EngineFollows
  BY DEF IInv, StackInv, EngineFollows
<1> QED
  BY <1>1, Invariant, PTL

\* run() executes only scripts all of whose statements check() has accepted, until
\* a check fails (SearchEngine::testAndRun, Script::check).
THEOREM SpecRunsTested == Spec => []RunsTested
<1>1. IInv => RunsTested
  <2> SUFFICES ASSUME IInv, ~rejected, NEW i \in 1 .. Len(frames), frames[i].pass = "run"
               PROVE  accepted[frames[i].script] = DOMAIN text[frames[i].script]
    BY DEF RunsTested
  <2>1. frames[i].script \in Objects
    BY Facts DEF IInv, FrameType
  <2>2. tested[frames[i].script]
    BY DEF IInv, FramesInv
  <2> QED
    BY <2>1, <2>2 DEF IInv, AcceptedInv
<1> QED
  BY <1>1, Invariant, PTL

\* check() assigns the global variable, testAndRun() restores it: until a check fails
\* the assignments of run() are the only ones that show.
THEOREM SpecTestIsSilent == Spec => []TestIsSilent
<1>1. IInv => TestIsSilent
  <2> SUFFICES ASSUME IInv, ~rejected, frames = <<>> \/ Top.pass = "run"
               PROVE  globals = assigned
    BY DEF TestIsSilent
  <2>1. frames # <<>> => Top.pass # "check"
    OBVIOUS
  <2> QED
    BY <2>1 DEF IInv, GlobalsInv
<1> QED
  BY <1>1, Invariant, PTL


------------------------------------------------------------------------------
(* The refinement of CallReturn. *)

Activation == [script : Objects, line : Nat]

\* The line of the innermost activation.
TopLine ==
  IF Top.pass = "check" THEN 0 ELSE IF Top.rc # 0 THEN Len(text[This]) ELSE index[This]

\* What the refinement mapping shows: the waiting activations go on where the stack
\* of the engine says.
LinesAre ==
  /\ Len(frames) \in Nat /\ Len(Activations) = Len(frames) /\ Activations \in Seq(Activation)
  /\ \A i \in 1 .. Len(frames) - 1 :
       Activations[i] = [script |-> frames[i].script,
                         line |-> returns[Len(returns) - Len(frames) + i + 1]]
  /\ frames # <<>> =>
       /\ Len(frames) >= 1 /\ TopLine \in 0 .. Len(text[This]) /\ This \in Objects
       /\ Len(text[This]) \in Nat
       /\ Activations[Len(frames)] = [script |-> This, line |-> TopLine]

LEMMA LinesNow == IInv => LinesAre
<1> SUFFICES ASSUME IInv PROVE LinesAre
  OBVIOUS
<1>1. TypeOK /\ FramesInv /\ StackInv
  BY DEF IInv
<1>2. /\ Len(frames) \in Nat /\ Len(returns) \in Nat /\ Len(frames) <= Len(returns)
      /\ \A i \in 1 .. Len(frames) : frames[i] \in FrameType
      /\ \A i \in 1 .. Len(returns) : returns[i] \in Nat
  BY <1>1, Facts DEF StackInv
<1>3. \A i \in 1 .. Len(frames) - 1 :
        LineOf(i) = returns[Len(returns) - Len(frames) + i + 1] /\ LineOf(i) \in Nat
  <2> TAKE i \in 1 .. Len(frames) - 1
  <2>1. /\ i \in 1 .. Len(frames) /\ i < Len(frames) /\ i # Len(frames)
        /\ Len(returns) - Len(frames) + i + 1 \in 1 .. Len(returns)
    BY <1>2
  <2>2. frames[i].pass = "run" /\ frames[i].rc = 0
    BY <1>1, <2>1 DEF FramesInv
  <2> QED
    BY <1>2, <2>1, <2>2 DEF LineOf
<1>4. ASSUME frames # <<>>
      PROVE  /\ Len(frames) >= 1 /\ LineOf(Len(frames)) = TopLine /\ TopLine \in Nat
             /\ TopLine \in 0 .. Len(text[This]) /\ This \in Objects /\ Len(text[This]) \in Nat
  <2>1. /\ Len(frames) >= 1 /\ Top.pass \in {"check", "run"} /\ This \in Objects
        /\ Len(text[This]) \in Nat /\ index[This] \in 0 .. Len(text[This])
    BY <1>1, <1>4, TopFacts
  <2>2. TopLine \in 0 .. Len(text[This])
    BY <2>1 DEF TopLine
  <2>3. LineOf(Len(frames)) = TopLine
    BY <2>1 DEF LineOf, TopLine, This, Top
  <2> QED
    BY <2>1, <2>2, <2>3
<1>5. \A i \in 1 .. Len(frames) : LineOf(i) \in Nat
  <2> TAKE i \in 1 .. Len(frames)
  <2>1. i = Len(frames) \/ i \in 1 .. Len(frames) - 1
    BY <1>2
  <2>2. frames # <<>>
    BY <1>2
  <2> QED
    BY <1>3, <1>4, <2>1, <2>2
<1>6. /\ Len(Activations) = Len(frames) /\ Activations \in Seq(Activation)
      /\ \A i \in 1 .. Len(frames) :
           Activations[i] = [script |-> frames[i].script, line |-> LineOf(i)]
  <2>1. Activations =
          [i \in 1 .. Len(frames) |-> [script |-> frames[i].script, line |-> LineOf(i)]]
    BY DEF Activations
  <2>2. \A i \in 1 .. Len(frames) :
          [script |-> frames[i].script, line |-> LineOf(i)] \in Activation
    BY <1>2, <1>5 DEF Activation, FrameType
  <2>3. Activations \in [1 .. Len(frames) -> Activation]
    BY <2>1, <2>2
  <2> QED
    BY <1>2, <2>1, <2>3, LenProperties, IsASeq
<1>7. \A i \in 1 .. Len(frames) - 1 : i \in 1 .. Len(frames)
  BY <1>2
<1>8. frames # <<>> => Len(frames) \in 1 .. Len(frames)
  BY <1>2, <1>4
<1> QED
  BY <1>2, <1>3, <1>4, <1>6, <1>7, <1>8 DEF LinesAre, This, Top

LEMMA LinesNext == IInv' => LinesAre'
BY LinesNow, PTL

\* The steps in which nobody is called and nobody returns: the innermost activation
\* moves, or it does not.
LEMMA SameActivations ==
  ASSUME LinesAre, LinesAre', Len(frames') = Len(frames), returns' = returns,
         \A i \in 1 .. Len(frames) : frames'[i].script = frames[i].script, frames # <<>>
  PROVE  /\ frames' # <<>> /\ This' = This
         /\ Activations' = [Activations EXCEPT ![Len(Activations)].line = TopLine']
         /\ TopLine' = TopLine => Activations' = Activations
<1>1. PICK n \in Nat : n = Len(frames) /\ n >= 1
  BY DEF LinesAre
<1>2. frames' # <<>> /\ This' = This
  BY <1>1, EmptySeq DEF This, Top
<1>3. /\ Activations \in Seq(Activation) /\ Len(Activations) = n
      /\ \A i \in 1 .. n - 1 :
           Activations[i] = [script |-> frames[i].script, line |-> returns[Len(returns) - n + i + 1]]
      /\ Activations[n] = [script |-> This, line |-> TopLine] /\ This \in Objects
  BY <1>1 DEF LinesAre
<1>4. /\ Activations' \in Seq(Activation) /\ Len(Activations') = n
      /\ \A i \in 1 .. n - 1 :
           Activations'[i] = [script |-> frames'[i].script, line |-> returns[Len(returns) - n + i + 1]]
      /\ Activations'[n] = [script |-> This, line |-> TopLine'] /\ TopLine' \in Nat
  BY <1>1, <1>2, SMTT(60) DEF LinesAre, Activation
<1>5. \A i \in 1 .. n - 1 : Activations'[i] = Activations[i]
  <2> TAKE i \in 1 .. n - 1
  <2>1. i \in 1 .. Len(frames)
    BY <1>1
  <2>2. frames'[i].script = frames[i].script
    BY <2>1
  <2> QED
    BY <1>3, <1>4, <2>2
<1> DEFINE g == [script |-> This, line |-> TopLine']
<1>6. g \in Activation /\ [Activations[n] EXCEPT !.line = TopLine'] = g
  BY <1>3, <1>4 DEF Activation
<1>7. [Activations EXCEPT ![Len(Activations)].line = TopLine'] = [Activations EXCEPT ![n] = g]
  BY <1>3, <1>6, Zenon
<1>8. Activations'[n] = g
  BY <1>4
<1> HIDE DEF g
<1>9. /\ [Activations EXCEPT ![n] = g] \in Seq(Activation)
      /\ Len([Activations EXCEPT ![n] = g]) = n
      /\ \A i \in 1 .. n : [Activations EXCEPT ![n] = g][i] = IF i = n THEN g ELSE Activations[i]
  BY <1>1, <1>3, <1>6, ExceptSeq
<1>10. \A i \in 1 .. n : Activations'[i] = [Activations EXCEPT ![n] = g][i]
  BY <1>5, <1>8, <1>9
<1>11. Activations' = [Activations EXCEPT ![n] = g]
  BY <1>4, <1>9, <1>10, SeqEqual
<1>12. ASSUME TopLine' = TopLine PROVE Activations' = Activations
  <2>1. \A i \in 1 .. n : Activations'[i] = Activations[i]
    BY <1>3, <1>4, <1>5, <1>12
  <2> QED
    BY <1>3, <1>4, <2>1, SeqEqual
<1> QED
  BY <1>2, <1>7, <1>11, <1>12

\* Inside a call nothing but the frames, the index and the passes matters.
LEMMA InFrameNests ==
  ASSUME IInv, IInv', frames # <<>>, UNCHANGED <<text, frames, returns>>
  PROVE  /\ This' = This /\ Top' = Top
         /\ Activations' = [Activations EXCEPT ![Len(Activations)].line = TopLine']
         /\ Top.pass = "check" => Activations' = Activations
<1>1. LinesAre /\ LinesAre'
  BY LinesNow, LinesNext
<1>2. Top' = Top
  BY DEF Top
<1>3. Top.pass = "check" => TopLine' = TopLine
  BY <1>2 DEF TopLine
<1> QED
  BY <1>1, <1>2, <1>3, SameActivations


\* testAndRun() returns: its activation ends, its caller goes on behind the call or,
\* with an exit code, at its end.
LEMMA ReturnNests ==
  ASSUME IInv, IInv', frames # <<>>, NEW rc \in Values,
         NEW idx \in [Objects -> Nat], \A o \in Objects : idx[o] <= Len(text[o]),
         Return(rc, idx), UNCHANGED <<text, tested>>
  PROVE  Activations' = Calls!Left(IF rc = 0 THEN Calls!CallerLine ELSE Calls!CallerEnd)
<1>1. LinesAre /\ LinesAre' /\ TypeOK /\ FramesInv
  BY LinesNow, LinesNext DEF IInv
<1>2. CASE Len(frames) = 1
  <2>1. frames' = <<>>
    BY <1>2, ReturnLast
  <2>2. Activations' = <<>>
    BY <1>1, <2>1, EmptySeq DEF LinesAre
  <2> QED
    BY <1>1, <1>2, <2>2 DEF LinesAre, Calls!Left
<1>3. CASE Len(frames) # 1
  <2>0. Len(frames) \in Nat /\ Len(frames) >= 1
    BY <1>1, TopFacts
  <2>1. PICK m \in Nat : Len(frames) = m + 1
    BY <2>0, Predecessor
  <2>2. PICK k \in Nat : Len(returns) = k + 1 /\ m <= k
    <3>1. /\ Len(returns) \in Nat /\ Len(returns) = Len(stack) /\ Len(frames) <= Len(stack)
      BY <1>1, Facts DEF IInv, StackInv, LinesAre
    <3>0. Len(returns) # 0
      BY <2>0, <3>1
    <3>2. PICK k \in Nat : Len(returns) = k + 1
      BY <3>0, <3>1, Predecessor
    <3>3. m <= k
      BY <2>1, <3>1, <3>2
    <3> QED
      BY <3>2, <3>3
  <2>3. /\ m >= 1 /\ frames' = Left(rc) /\ frames' # <<>> /\ (Top.pass = "run")'
        /\ index' = [idx EXCEPT ![frames[m].script] = returns[Len(returns)]]
        /\ frames[m].script \in Objects
        /\ returns[Len(returns)] \in 0 .. Len(text[frames[m].script])
        /\ returns' = Front(returns)
    BY <1>3, <2>1, ReturnToCaller
  <2>4. /\ Len(frames') = m
        /\ \A i \in 1 .. m : frames'[i].script = frames[i].script
        /\ frames'[m].rc = rc
    <3>1. Len(frames) - 1 = m /\ m \in 1 .. m
      BY <2>1, <2>3
    <3> QED
      BY <1>1, <2>3, <3>1, LeftFrames
  <2>5. Top'.rc = rc /\ This' = frames[m].script
    BY <2>3, <2>4 DEF This, Top
  <2>6. Len(returns') = k /\ \A i \in 1 .. k : returns'[i] = returns[i]
    <3>1. returns \in Seq(Nat) /\ returns # <<>> /\ Len(returns) - 1 = k
      BY <1>1, <2>2, EmptySeq DEF TypeOK
    <3> QED
      BY <2>3, <3>1, FrontProperties
  <2>7. Len(text[frames[m].script]) \in Nat /\ text' = text
    BY <1>1, <2>3, Facts
  <2>8. TopLine' = IF rc = 0 THEN returns[Len(returns)] ELSE Len(text[frames[m].script])
    <3>1. index'[frames[m].script] = returns[Len(returns)]
      BY <2>3
    <3> QED
      BY <2>3, <2>5, <2>7, <3>1 DEF TopLine
  \* The activations before and after the step.
  <2>9. /\ Activations \in Seq(Activation) /\ Len(Activations) = m + 1
        /\ \A i \in 1 .. m : Activations[i] = [script |-> frames[i].script,
                                               line |-> returns[k - m + i + 1]]
    <3>1. Activations \in Seq(Activation) /\ Len(Activations) = m + 1
      BY <1>1, <2>1 DEF LinesAre
    <3>2. ASSUME NEW i \in 1 .. m
          PROVE  Activations[i] = [script |-> frames[i].script, line |-> returns[k - m + i + 1]]
      <4>1. i \in 1 .. Len(frames) - 1 /\ Len(returns) - Len(frames) + i + 1 = k - m + i + 1
        BY <2>1, <2>2
      <4> QED
        BY <1>1, <4>1 DEF LinesAre
    <3> QED
      BY <3>1, <3>2
  <2>10. /\ Activations' \in Seq(Activation) /\ Len(Activations') = m
         /\ \A i \in 1 .. m - 1 : Activations'[i] = [script |-> frames[i].script,
                                                     line |-> returns[k - m + i + 1]]
         /\ Activations'[m] = [script |-> frames[m].script, line |-> TopLine']
    <3>1. /\ Activations' \in Seq(Activation) /\ Len(Activations') = m
          /\ Activations'[m] = [script |-> frames[m].script, line |-> TopLine']
      BY <1>1, <2>3, <2>4, <2>5 DEF LinesAre
    <3>2. ASSUME NEW i \in 1 .. m - 1
          PROVE  Activations'[i] = [script |-> frames[i].script, line |-> returns[k - m + i + 1]]
      <4>1. /\ i \in 1 .. Len(frames') - 1 /\ Len(returns') - Len(frames') + i + 1 = k - m + i + 1
            /\ k - m + i + 1 \in 1 .. k /\ i \in 1 .. m
        BY <2>2, <2>4, <2>6
      <4>2. Activations'[i] = [script |-> frames'[i].script, line |-> returns'[k - m + i + 1]]
        BY <1>1, <4>1 DEF LinesAre
      <4> QED
        BY <2>4, <2>6, <4>1, <4>2
    <3> QED
      BY <3>1, <3>2
  <2> DEFINE f == Front(Activations)
             l == IF rc = 0 THEN Calls!CallerLine ELSE Calls!CallerEnd
             g == [f[m] EXCEPT !.line = l]
  <2>11. Len(Activations) # 1 /\ Len(Activations) - 1 = m /\ m \in 1 .. m /\ Activations # <<>>
    BY <2>3, <2>9, EmptySeq
  <2>12. f \in Seq(Activation) /\ Len(f) = m /\ \A i \in 1 .. m : f[i] = Activations[i]
    BY <2>9, <2>11, FrontProperties
  <2>13. l = TopLine'
    <3>1. Calls!CallerLine = Activations[m].line /\ Calls!CallerEnd = Len(text[Activations[m].script])
      BY <2>11 DEF Calls!CallerLine, Calls!CallerEnd
    <3>2. k - m + m + 1 = Len(returns)
      BY <2>2
    <3>3. Activations[m] = [script |-> frames[m].script, line |-> returns[k - m + m + 1]]
      BY <2>9, <2>11
    <3>4. Activations[m].line = returns[Len(returns)] /\ Activations[m].script = frames[m].script
      BY <3>2, <3>3
    <3> QED
      BY <2>8, <3>1, <3>4
  <2>14. g = [script |-> frames[m].script, line |-> TopLine'] /\ TopLine' \in Nat
    <3>1. f[m] = [script |-> frames[m].script, line |-> returns[k - m + m + 1]]
      BY <2>9, <2>11, <2>12
    <3>2. g = [script |-> frames[m].script, line |-> TopLine']
      BY <2>13, <3>1
    <3>3. TopLine' \in Nat
      BY <1>1, <2>3 DEF LinesAre
    <3> QED
      BY <3>2, <3>3
  <2>15. g \in Activation
    BY <2>3, <2>14 DEF Activation
  <2>16. Calls!Left(l) = [f EXCEPT ![m] = g]
    <3> HIDE DEF l
    <3>1. Calls!Left(l) =
            [Front(Activations) EXCEPT ![Len(Activations) - 1].line = l]
      BY <2>11, Zenon DEF Calls!Left, Calls!Front, Front
    <3> QED
      BY <2>11, <3>1, Zenon
  <2> HIDE DEF f, g, l
  <2>17. /\ [f EXCEPT ![m] = g] \in Seq(Activation) /\ Len([f EXCEPT ![m] = g]) = m
         /\ \A i \in 1 .. m : [f EXCEPT ![m] = g][i] = IF i = m THEN g ELSE f[i]
    BY <2>11, <2>12, <2>15, ExceptSeq
  <2>18. \A i \in 1 .. m : Activations'[i] = [f EXCEPT ![m] = g][i]
    <3> TAKE i \in 1 .. m
    <3>1. CASE i = m
      BY <2>10, <2>14, <2>17, <3>1
    <3>2. CASE i # m
      <4>1. i \in 1 .. m - 1
        BY <3>2
      <4> QED
        BY <2>9, <2>10, <2>12, <2>17, <3>2, <4>1
    <3> QED
      BY <3>1, <3>2
  <2>19. Activations' = [f EXCEPT ![m] = g]
    BY <2>10, <2>17, <2>18, SeqEqual
  <2> QED
    BY <2>16, <2>19 DEF l
<1> QED
  BY <1>2, <1>3


\* call() puts a fresh activation on top, its caller has taken the statement.
LEMMA CallNests ==
  ASSUME IInv, IInv', Call
  PROVE  Activations' = Append([Activations EXCEPT ![Len(Activations)].line = TopLine + 1],
                               [script |-> Found, line |-> 0])
<1>1. LinesAre /\ LinesAre' /\ TypeOK
  BY LinesNow, LinesNext DEF IInv
<1>2. /\ At("run", {"call", "callfile"})
      /\ returns' = Append(returns, Line) /\ frames' = Append(frames, Frame(Found))
  BY DEF Call
<1>3. /\ frames # <<>> /\ Top.pass = "run" /\ Top.rc = 0 /\ Line = index[This] + 1
      /\ index[This] \in Nat /\ Line \in Nat /\ It \in Statement
  BY <1>1, <1>2, AtFacts, TopFacts
<1>4. Found \in Objects /\ Frame(Found) \in FrameType
      /\ Frame(Found).script = Found /\ Frame(Found).pass = "check"
  BY <1>1, <1>3, FoundFacts, FrameFacts
<1>5. TopLine = index[This]
  BY <1>3 DEF TopLine
<1>6. PICK n \in Nat : Len(frames) = n /\ n >= 1
  BY <1>1, <1>3 DEF LinesAre
<1>7. PICK k \in Nat : Len(returns) = k /\ n <= k
  BY <1>1, <1>6, Facts DEF IInv, StackInv
<1>8. Len(frames') = n + 1 /\ (\A i \in 1 .. n : frames'[i] = frames[i]) /\ frames'[n + 1] = Frame(Found)
  BY <1>1, <1>2, <1>4, <1>6, AppendProperties DEF TypeOK
<1>9. Len(returns') = k + 1 /\ (\A i \in 1 .. k : returns'[i] = returns[i]) /\ returns'[k + 1] = Line
  BY <1>1, <1>2, <1>3, <1>7, AppendProperties DEF TypeOK
<1>10. /\ Activations \in Seq(Activation) /\ Len(Activations) = n
       /\ \A i \in 1 .. n - 1 : Activations[i] = [script |-> frames[i].script,
                                                  line |-> returns[k - n + i + 1]]
       /\ Activations[n] = [script |-> This, line |-> index[This]] /\ This \in Objects
  BY <1>1, <1>3, <1>5, <1>6, <1>7 DEF LinesAre
<1>11. frames' # <<>> /\ This' = Found /\ TopLine' = 0
  <2>1. frames' # <<>> /\ Top' = Frame(Found)
    BY <1>6, <1>8, EmptySeq DEF Top
  <2> QED
    BY <1>4, <2>1 DEF This, TopLine
<1>12. /\ Activations' \in Seq(Activation) /\ Len(Activations') = n + 1
       /\ \A i \in 1 .. n : Activations'[i] = [script |-> frames[i].script,
                                               line |-> returns'[k - n + i + 1]]
       /\ Activations'[n + 1] = [script |-> Found, line |-> 0]
  <2>1. /\ Activations' \in Seq(Activation) /\ Len(Activations') = n + 1
        /\ Activations'[n + 1] = [script |-> Found, line |-> 0]
    BY <1>1, <1>8, <1>11 DEF LinesAre
  <2>2. ASSUME NEW i \in 1 .. n
        PROVE  Activations'[i] = [script |-> frames[i].script, line |-> returns'[k - n + i + 1]]
    <3>1. i \in 1 .. Len(frames') - 1 /\ Len(returns') - Len(frames') + i + 1 = k - n + i + 1
      BY <1>8, <1>9
    <3>2. Activations'[i] = [script |-> frames'[i].script,
                             line |-> returns'[Len(returns') - Len(frames') + i + 1]]
      BY <1>1, <3>1 DEF LinesAre
    <3> QED
      BY <1>8, <3>1, <3>2
  <2> QED
    BY <2>1, <2>2
<1> DEFINE g == [script |-> This, line |-> Line]
           moved == [Activations EXCEPT ![n] = g]
           fresh == [script |-> Found, line |-> 0]
<1>13. g \in Activation /\ fresh \in Activation /\ [Activations[n] EXCEPT !.line = TopLine + 1] = g
  BY <1>3, <1>4, <1>5, <1>10 DEF Activation
<1>14. [Activations EXCEPT ![Len(Activations)].line = TopLine + 1] = moved
  BY <1>10, <1>13, Zenon
<1>15. Activations'[n + 1] = fresh
  BY <1>12
<1>16. Activations'[n] = g
  <2>1. frames[n] = Top /\ n \in 1 .. n /\ k - n + n + 1 = k + 1
    BY <1>6, <1>7 DEF Top
  <2>2. Activations'[n] = [script |-> frames[n].script, line |-> returns'[k - n + n + 1]]
    BY <1>12, <2>1
  <2> QED
    BY <1>9, <2>1, <2>2 DEF This
<1> HIDE DEF g, fresh
<1>17. moved \in Seq(Activation) /\ Len(moved) = n
       /\ \A i \in 1 .. n : moved[i] = IF i = n THEN g ELSE Activations[i]
  BY <1>6, <1>10, <1>13, ExceptSeq
<1> HIDE DEF moved
<1>18. /\ Append(moved, fresh) \in Seq(Activation) /\ Len(Append(moved, fresh)) = n + 1
       /\ \A i \in 1 .. n : Append(moved, fresh)[i] = moved[i]
       /\ Append(moved, fresh)[n + 1] = fresh
  BY <1>13, <1>17, AppendProperties
<1>19. \A i \in 1 .. n + 1 : Activations'[i] = Append(moved, fresh)[i]
  <2>1. Activations'[n + 1] = Append(moved, fresh)[n + 1]
    BY <1>15, <1>18
  <2>2. Activations'[n] = Append(moved, fresh)[n]
    <3>1. n \in 1 .. n
      BY <1>6
    <3>2. Append(moved, fresh)[n] = moved[n] /\ moved[n] = g
      BY <1>17, <1>18, <3>1
    <3> QED
      BY <1>16, <3>2
  <2>3. ASSUME NEW i \in 1 .. n - 1
        PROVE  Activations'[i] = Append(moved, fresh)[i]
    <3>1. i \in 1 .. n /\ i # n /\ k - n + i + 1 \in 1 .. k
      BY <1>7
    <3>2. Append(moved, fresh)[i] = moved[i] /\ moved[i] = Activations[i]
      BY <1>17, <1>18, <3>1
    <3>3. Activations'[i] = Activations[i]
      BY <1>9, <1>10, <1>12, <3>1
    <3> QED
      BY <3>2, <3>3
  <2>4. \A i \in 1 .. n + 1 : i = n + 1 \/ i = n \/ i \in 1 .. n - 1
    OBVIOUS
  <2> QED
    BY <2>1, <2>2, <2>3, <2>4
<1>20. Activations' = Append(moved, fresh)
  BY <1>12, <1>18, <1>19, SeqEqual
<1> QED
  BY <1>14, <1>20 DEF fresh

\* What the names of CallReturn mean here.
LEMMA InnerFacts ==
  ASSUME IInv, frames # <<>>
  PROVE  /\ Activations # <<>> /\ Calls!Inner = [script |-> This, line |-> TopLine]
         /\ Calls!Lines = Len(text[This]) /\ Calls!Statement = text[This][TopLine + 1]
         /\ This \in Objects /\ TopLine \in 0 .. Len(text[This]) /\ Len(text[This]) \in Nat
         /\ DOMAIN text = Objects
<1>1. LinesAre
  BY LinesNow
<1>2. Activations # <<>> /\ Calls!Inner = [script |-> This, line |-> TopLine]
  BY <1>1, EmptySeq DEF LinesAre, Calls!Inner
<1>3. Calls!Lines = Len(text[This]) /\ Calls!Statement = text[This][TopLine + 1]
  BY <1>2, Zenon DEF Calls!Lines, Calls!Statement
<1> QED
  BY <1>1, <1>2, <1>3 DEF LinesAre, IInv, TypeOK


LEMMA StepNests == IInv /\ IInv' /\ [Next]_vars => [Calls!Next]_(Calls!cvars)
<1> SUFFICES ASSUME IInv, IInv', [Next]_vars PROVE [Calls!Next]_(Calls!cvars)
  OBVIOUS
<1>0. TypeOK /\ FramesInv /\ 0 \in Values /\ 1 \in Values /\ text' = text
  <2>1. text' = text
    BY DEF Next, Step, Start, StartByName, Started, CheckPlain, CheckSet, CheckCall,
           CheckDeclare, CheckFails, EndCheck, RunPlain, RunSet, Call, Exit, ExitGlobal,
           Stop, RunFails, EndRun, vars
  <2> QED
    BY <2>1, ValuesAssumption DEF IInv
<1>1. CASE Start \/ StartByName
  <2>1. frames = <<>> /\ frames' = <<Frame(Main)>> /\ Main \in Objects
    BY <1>1, NamesAssumption DEF Start, StartByName, Started, IInv, StackInv
  <2>2. LinesAre /\ LinesAre'
    BY LinesNow, LinesNext
  <2>3. /\ Len(frames') = 1 /\ frames' # <<>> /\ frames'[1].script = Main
        /\ frames'[1].pass = "check"
    BY <1>0, <2>1, FrameFacts
  <2>4. This' = Main /\ TopLine' = 0
    BY <2>3 DEF This, Top, TopLine
  <2>5. Activations = <<>>
    BY <2>1, <2>2, EmptySeq DEF LinesAre
  <2>6. Activations' = <<[script |-> Main, line |-> 0]>>
    <3>1. /\ Activations' \in Seq(Activation) /\ Len(Activations') = 1
          /\ Activations'[1] = [script |-> Main, line |-> 0]
      BY <2>2, <2>3, <2>4 DEF LinesAre
    <3> QED
      BY <3>1
  <2>7. Main \in DOMAIN text
    BY <1>0, <2>1 DEF TypeOK
  <2>8. Calls!Enter
    BY <2>5, <2>6, <2>7 DEF Calls!Enter
  <2> QED
    BY <1>0, <2>8 DEF Calls!Next
<1>2. CASE CheckPlain \/ CheckSet \/ CheckCall \/ CheckDeclare
  <2>1. PICK ops : At("check", ops)
    BY <1>2 DEF CheckPlain, CheckSet, CheckCall, CheckDeclare
  <2>2. UNCHANGED <<frames, returns>>
    BY <1>2 DEF CheckPlain, CheckSet, CheckCall, CheckDeclare, engine
  <2>3. Activations' = Activations
    BY <1>0, <2>1, <2>2, AtFacts, InFrameNests
  <2> QED
    BY <1>0, <2>3 DEF Calls!cvars
<1>3. CASE EndCheck
  <2>1. /\ frames # <<>> /\ Top.pass = "check" /\ index' = [index EXCEPT ![This] = 0]
        /\ frames' = [frames EXCEPT ![Len(frames)].pass = "run"] /\ returns' = returns
    BY <1>3, Zenon DEF EndCheck, engine
  <2>2. /\ Len(frames') = Len(frames) /\ frames'[Len(frames)].pass = "run"
        /\ \A i \in 1 .. Len(frames) :
             frames'[i].script = frames[i].script /\ frames'[i].rc = frames[i].rc
    BY <1>0, <2>1, RunFrames
  <2>3. LinesAre /\ LinesAre' /\ This \in Objects /\ Len(frames) \in 1 .. Len(frames)
    BY <1>0, <2>1, LinesNow, LinesNext, TopFacts
  <2>4. /\ This' = This
        /\ Activations' = [Activations EXCEPT ![Len(Activations)].line = TopLine']
        /\ TopLine' = TopLine => Activations' = Activations
    BY <2>1, <2>2, <2>3, SameActivations
  <2>5. TopLine = 0
    BY <2>1 DEF TopLine
  <2>6. TopLine' = 0
    <3>1. (Top.pass = "run")' /\ Top'.rc = Top.rc /\ Top.rc = 0
      BY <1>0, <2>1, <2>2, <2>3 DEF Top, FramesInv
    <3>2. index'[This] = 0
      BY <1>0, <2>1, <2>3 DEF TypeOK
    <3> QED
      BY <2>4, <3>1, <3>2 DEF TopLine
  <2> QED
    BY <1>0, <2>4, <2>5, <2>6 DEF Calls!cvars
<1>4. CASE RunPlain \/ RunSet \/ Exit
  <2>1. PICK ops : At("run", ops) /\ ops = IF Exit THEN {"exit"} ELSE {"plain", "declare", "set"}
    <3>1. CASE Exit
      BY <3>1 DEF Exit
    <3>2. CASE ~Exit
      BY <1>4, <3>2 DEF RunPlain, RunSet, At
    <3> QED
      BY <3>1, <3>2
  <2>2. UNCHANGED <<frames, returns>>
    BY <1>4 DEF RunPlain, RunSet, Exit, engine
  <2>3. /\ frames # <<>> /\ Top.pass = "run" /\ Top.rc = 0 /\ This \in Objects
        /\ Line \in 1 .. Len(text[This]) /\ Line = index[This] + 1
        /\ It.op \in ops /\ index[This] \in Nat /\ Len(text[This]) \in Nat
    BY <1>0, <2>1, AtFacts, TopFacts
  <2>4. /\ This' = This /\ Top' = Top
        /\ Activations' = [Activations EXCEPT ![Len(Activations)].line = TopLine']
    BY <1>0, <2>2, <2>3, InFrameNests
  <2>5. TopLine = index[This] /\ TopLine' = index'[This]
    BY <2>3, <2>4 DEF TopLine
  <2>6. /\ Activations # <<>> /\ Calls!Inner = [script |-> This, line |-> TopLine]
        /\ Calls!Lines = Len(text[This]) /\ Calls!Statement = It
        /\ Calls!Inner.line < Calls!Lines
    BY <2>3, <2>5, InnerFacts DEF It, Line
  <2>7. CASE Exit
    <3>1. TopLine' = Calls!Lines
      BY <1>0, <2>3, <2>5, <2>6, <2>7 DEF Exit, TypeOK
    <3>2. Calls!Statement.op = "exit"
      BY <2>1, <2>3, <2>6, <2>7
    <3>3. Calls!Exit
      BY <2>4, <2>6, <3>1, <3>2, Zenon DEF Calls!Exit
    <3> QED
      BY <1>0, <3>3 DEF Calls!Next
  <2>8. CASE ~Exit
    <3>1. TopLine' = TopLine + 1
      BY <1>0, <1>4, <2>3, <2>5, <2>8 DEF RunPlain, RunSet, Advance, TypeOK
    <3>2. Calls!Statement.op \in {"plain", "declare", "set"}
      BY <2>1, <2>3, <2>6, <2>8
    <3>3. Activations[Len(Activations)].line = TopLine
      BY <2>6 DEF Calls!Inner
    <3>4. Activations' = [Activations EXCEPT ![Len(Activations)].line = @ + 1]
      BY <2>4, <3>1, <3>3, Zenon
    <3>5. Calls!Advance
      BY <2>6, <3>2, <3>4, Zenon DEF Calls!Advance
    <3> QED
      BY <1>0, <3>5 DEF Calls!Next
  <2> QED
    BY <2>7, <2>8
<1>5. CASE Call
  <2>1. At("run", {"call", "callfile"})
    BY <1>5 DEF Call
  <2>2. /\ frames # <<>> /\ Top.pass = "run" /\ Top.rc = 0 /\ This \in Objects
        /\ Line \in 1 .. Len(text[This]) /\ Line = index[This] + 1 /\ It \in Statement
        /\ It.op \in {"call", "callfile"} /\ index[This] \in Nat /\ Len(text[This]) \in Nat
    BY <1>0, <2>1, AtFacts, TopFacts
  <2>3. TopLine = index[This]
    BY <2>2 DEF TopLine
  <2>4. /\ Activations # <<>> /\ Calls!Inner = [script |-> This, line |-> TopLine]
        /\ Calls!Statement = It /\ Calls!Inner.line < Calls!Lines /\ Found \in DOMAIN text
    BY <2>2, <2>3, InnerFacts, FoundFacts DEF It, Line
  <2>5. Activations' = Append([Activations EXCEPT ![Len(Activations)].line = TopLine + 1],
                              [script |-> Found, line |-> 0])
    BY <1>5, CallNests
  <2>6. Activations[Len(Activations)].line = TopLine
    BY <2>4 DEF Calls!Inner
  <2>7. Activations' = Append([Activations EXCEPT ![Len(Activations)].line = @ + 1],
                              [script |-> Found, line |-> 0])
    BY <2>5, <2>6, Zenon
  <2>8. Calls!Call
    BY <2>2, <2>4, <2>7, Zenon DEF Calls!Call
  <2> QED
    BY <1>0, <2>8 DEF Calls!Next
<1>6. CASE CheckFails \/ Stop \/ RunFails \/ ExitGlobal
  <2>1. PICK pass, ops : /\ pass \in {"check", "run"}
                         /\ At(pass, ops)
                         /\ ExitGlobal => ops = {"exitglobal"}
    <3>1. CASE ExitGlobal
      BY <3>1 DEF ExitGlobal
    <3>2. ASSUME ~ExitGlobal, NEW p \in {"check", "run"}, NEW o, At(p, o)
          PROVE  \E pass, ops : /\ pass \in {"check", "run"}
                                /\ At(pass, ops)
                                /\ ExitGlobal => ops = {"exitglobal"}
      BY <3>2
    <3>3. CASE ~ExitGlobal /\ CheckFails
      <4>1. \E o : At("check", o)
        BY <3>3 DEF CheckFails
      <4> QED
        BY <3>2, <3>3, <4>1
    <3>4. CASE ~ExitGlobal /\ (Stop \/ RunFails)
      <4>1. \E o : At("run", o)
        BY <3>4 DEF Stop, RunFails
      <4> QED
        BY <3>2, <3>4, <4>1
    <3> QED
      BY <1>6, <3>1, <3>3, <3>4
  <2>2. /\ frames # <<>> /\ Top.pass = pass /\ This \in Objects
        /\ Line \in 1 .. Len(text[This]) /\ Line = index[This] + 1 /\ It \in Statement
        /\ It.op \in ops /\ index[This] \in Nat /\ Len(text[This]) \in Nat
        /\ pass = "run" => Top.rc = 0
    BY <1>0, <2>1, AtFacts, TopFacts
  <2>3. PICK rc \in Values : /\ Throw(rc)
                             /\ rc = 0 => ExitGlobal /\ It.value = 0
    <3>1. It.value \in Values
      BY <2>2 DEF Statement
    <3> QED
      BY <1>0, <1>6, <3>1 DEF CheckFails, Stop, RunFails, ExitGlobal
  <2> DEFINE idx == [index EXCEPT ![This] = Line]
  <2>4. idx \in [Objects -> Nat] /\ \A o \in Objects : idx[o] <= Len(text[o])
    BY <1>0, <2>2, Facts DEF TypeOK
  <2>5. Return(rc, idx) /\ UNCHANGED <<text, tested>>
    BY <1>6, <2>3 DEF Throw, CheckFails, Stop, RunFails, ExitGlobal
  <2> HIDE DEF idx
  <2>6. Activations' = Calls!Left(IF rc = 0 THEN Calls!CallerLine ELSE Calls!CallerEnd)
    BY <2>2, <2>4, <2>5, ReturnNests
  <2>7. TopLine = IF pass = "check" THEN 0 ELSE index[This]
    BY <2>1, <2>2 DEF TopLine
  <2>8. /\ Activations # <<>> /\ Calls!Inner = [script |-> This, line |-> TopLine]
        /\ Calls!Inner.line < Calls!Lines
        /\ Calls!Statement = text[This][TopLine + 1]
    BY <2>2, <2>7, InnerFacts
  <2>9. CASE rc = 0
    <3>1. ExitGlobal /\ It.value = 0 /\ It.op = "exitglobal" /\ pass = "run"
      BY <2>1, <2>2, <2>3, <2>9 DEF ExitGlobal, At
    <3>2. Calls!Statement = It
      BY <2>2, <2>7, <2>8, <3>1 DEF It, Line
    <3>3. Activations' = Calls!Left(Calls!CallerLine)
      BY <2>6, <2>9
    <3>4. Calls!Return
      BY <2>8, <3>1, <3>2, <3>3 DEF Calls!Return
    <3> QED
      BY <1>0, <3>4 DEF Calls!Next
  <2>10. CASE rc # 0
    <3>1. Activations' = Calls!Left(Calls!CallerEnd)
      BY <2>6, <2>10
    <3>2. Calls!Fail
      BY <2>8, <3>1 DEF Calls!Fail
    <3> QED
      BY <1>0, <3>2 DEF Calls!Next
  <2> QED
    BY <2>9, <2>10
<1>7. CASE EndRun
  <2>1. /\ frames # <<>> /\ Top.pass = "run" /\ Return(0, index) /\ UNCHANGED <<text, tested>>
        /\ Top.rc # 0 \/ index[This] >= Len(text[This])
    BY <1>7 DEF EndRun
  <2>2. index \in [Objects -> Nat] /\ \A o \in Objects : index[o] <= Len(text[o])
    BY <1>0 DEF TypeOK
  <2>3. Activations' = Calls!Left(Calls!CallerLine)
    <3>1. Activations' = Calls!Left(IF 0 = 0 THEN Calls!CallerLine ELSE Calls!CallerEnd)
      BY <1>0, <2>1, <2>2, ReturnNests
    <3> QED
      BY <3>1
  <2>4. TopLine = Len(text[This])
    BY <1>0, <2>1, TopFacts DEF TopLine
  <2>5. Activations # <<>> /\ Calls!Inner.line = Calls!Lines
    BY <2>1, <2>4, InnerFacts
  <2>6. Calls!Return
    BY <2>3, <2>5 DEF Calls!Return
  <2> QED
    BY <1>0, <2>6 DEF Calls!Next
<1>8. CASE UNCHANGED vars
  <2>1. text' = text /\ index' = index /\ frames' = frames /\ returns' = returns
    BY <1>8 DEF vars, engine
  <2>2. Activations' = Activations
    BY <2>1 DEF Activations, LineOf
  <2> QED
    BY <2>1, <2>2 DEF Calls!cvars
<1> QED
  BY <1>1, <1>2, <1>3, <1>4, <1>5, <1>6, <1>7, <1>8 DEF Next, Step

\* The one index of each script and the stack of lines implement nested activations:
\* Script::call and SearchEngine::popScript let every caller, a recursive one too, go
\* on behind its call, and a callee that failed stops it.
THEOREM SpecCallsNest == Spec => CallsNest
<1>1. Init => Calls!Init
  <2> SUFFICES ASSUME Init PROVE Activations = <<>>
    BY DEF Calls!Init
  <2>1. LinesAre /\ frames = <<>>
    BY InvInit, LinesNow DEF Init
  <2> QED
    BY <2>1, EmptySeq DEF LinesAre
<1>2. IInv /\ IInv' /\ [Next]_vars => [Calls!Next]_(Calls!cvars)
  BY StepNests
<1> QED
  BY <1>1, <1>2, Invariant, PTL DEF Spec, CallsNest, Calls!Spec

==============================================================================
