---------------------------- MODULE Rules_proofs ----------------------------
(***************************************************************************)
(* Proofs about Rules, for any rules, connectors, events and callers and   *)
(* any number of operations, restarts and subscriptions.                   *)
(***************************************************************************)
EXTENDS Rules, SequenceTheorems, FiniteSetTheorems, TLAPS

\* A list of steps, read from any point on: what the code does next to what.
\* Once the list of rules is read the call carries a text it has found.
Shaped(s) ==
    \A i \in 1..Len(s) :
        /\ s[i] = "insert" => i < Len(s) /\ s[i + 1] \in {"add", "replace"}
        /\ s[i] = "remove" => i < Len(s) /\ s[i + 1] = "erase"
        /\ s[i] = "lookup" => i < Len(s) /\ s[i + 1] = "detach"
        /\ s[i] = "list" =>
              \A j \in (i + 1)..Len(s) :
                  s[j] \notin {"insert", "add", "replace", "flag", "set"}

\* The steps that write find a text, or a status, to write: the call began
\* with it or takes it from the engine first.
Supplied(s, b) ==
    \A i \in 1..Len(s) :
        /\ s[i] \in {"insert", "add", "replace"} =>
              b \in Body \/ \E j \in 1..(i - 1) : s[j] = "need"
        /\ s[i] \in {"flag", "set"} =>
              b \in Status \/ \E j \in 1..(i - 1) : s[j] = "flip"

SwapAhead(s) == \E i \in 1..Len(s) : s[i] = "swap"

\* A call has subscriptions in hand while it attaches or detaches only.
CallOK(c) ==
    /\ c \in Call
    /\ c.todo # <<>> => c.rule \in Rules
    /\ Shaped(c.todo) /\ Supplied(c.todo, c.body)
    /\ c.subs # {} => c.todo # <<>> /\ Head(c.todo) \in {"record", "unhook"}

Calls == \A p \in Callers : CallOK(call[p])

\* On a host that is the one it booted with, an id was issued once: one rule has
\* it on record or one call in hand; and what is about to be recorded is heard.
Issued ==
    \A c \in Connectors \ replaced : \A i \in 1..MaxSubs :
        LET sub == [connector |-> c, id |-> i] IN
        /\ \A r \in Rules : sub \in active[r] => i < host[c].next
        /\ \A p \in Callers : sub \in call[p].subs => i < host[c].next
        /\ \A r, s \in Rules : sub \in active[r] /\ sub \in active[s] => r = s
        /\ \A p, q \in Callers : sub \in call[p].subs /\ sub \in call[q].subs => p = q
        /\ \A r \in Rules, p \in Callers : ~ (sub \in active[r] /\ sub \in call[p].subs)
        /\ \A p \in Callers : At(p, "record") /\ sub \in call[p].subs =>
              [id |-> i, rule |-> call[p].rule] \in host[c].handlers

\* A call that will bring the engine and the row of its rule together, and one
\* that will hand the engine a text that does not compile.
Settles(c) == c.todo # <<>> /\ Head(c.todo) \in {"add", "replace", "erase"}
Offers(c)  == c.todo # <<>> /\ Head(c.todo) \in {"add", "replace"} /\ c.body = "invalid"

Settling(p, r) == call[p].rule = r /\ Settles(call[p])
Offering(p, r) == call[p].rule = r /\ Offers(call[p])

\* A text that does not compile is known to the engine, or on its way there,
\* before a toggle can find it in the store.
InvalidKnown ==
    \A r \in Rules \ refused :
        \/ row[r].toml = "invalid"
        \/ \E p \in Callers :
              call[p].rule = r /\ call[p].body = "invalid" /\ SwapAhead(call[p].todo)
        => \E p \in Callers : Offering(p, r)

IInv ==
    /\ TypeOK /\ Calls
    /\ HandlersAccounted /\ Issued /\ RecordedIsHeard
    /\ InvalidKnown /\ RowsAreLoaded

-----------------------------------------------------------------------------
\* What is left of a list of steps after the first.
LEMMA TailFacts ==
    ASSUME NEW s \in Seq(Steps), s # <<>>
    PROVE  /\ Len(s) \in Nat /\ Len(s) >= 1 /\ Head(s) = s[1] /\ s[1] \in Steps
           /\ Tail(s) \in Seq(Steps) /\ Len(Tail(s)) = Len(s) - 1
           /\ \A i \in 1..(Len(s) - 1) : Tail(s)[i] = s[i + 1]
<1>1. Len(s) \in Nat /\ Len(s) >= 1
  BY EmptySeq, LenProperties
<1>2. Tail(s) \in Seq(Steps) /\ Len(Tail(s)) = Len(s) - 1
  BY HeadTailProperties
<1>3. \A i \in 1..(Len(s) - 1) : Tail(s)[i] = s[i + 1]
  BY <1>1, <1>2, HeadTailProperties
<1>4. Head(s) = s[1] /\ s[1] \in Steps
  BY <1>1, HeadTailProperties, ElementOfSeq
<1> QED
  BY <1>1, <1>2, <1>3, <1>4

\* A list whose first step is exchanged for one that asks nothing of the rest.
LEMMA ThenFacts ==
    ASSUME NEW s \in Seq(Steps), s # <<>>, NEW x \in Steps
    PROVE  /\ <<x>> \o Tail(s) \in Seq(Steps) /\ <<x>> \o Tail(s) # <<>>
           /\ Head(<<x>> \o Tail(s)) = x
           /\ Len(<<x>> \o Tail(s)) = Len(s)
           /\ (<<x>> \o Tail(s))[1] = x
           /\ \A i \in 2..Len(s) : (<<x>> \o Tail(s))[i] = s[i]
<1> DEFINE t == Tail(s)
           u == <<x>> \o t
<1>1. /\ Len(s) \in Nat /\ Len(s) >= 1 /\ t \in Seq(Steps) /\ Len(t) = Len(s) - 1
      /\ \A i \in 1..(Len(s) - 1) : t[i] = s[i + 1]
  BY TailFacts
<1>2. <<x>> \in Seq(Steps) /\ Len(<<x>>) = 1 /\ <<x>>[1] = x
  OBVIOUS
<1> HIDE DEF t
<1>3. /\ u \in Seq(Steps) /\ Len(u) = 1 + Len(t)
      /\ \A i \in 1..(1 + Len(t)) : u[i] = IF i <= 1 THEN <<x>>[i] ELSE t[i - 1]
  BY <1>1, <1>2, ConcatProperties
<1> HIDE DEF u
<1>4. Len(u) = Len(s) /\ u[1] = x /\ u # <<>>
  BY <1>1, <1>2, <1>3, EmptySeq
<1>5. Head(u) = x
  BY <1>3, <1>4, HeadTailProperties
<1>6. \A i \in 2..Len(s) : u[i] = s[i]
  <2> SUFFICES ASSUME NEW i \in 2..Len(s) PROVE u[i] = s[i]
    OBVIOUS
  <2>1. i - 1 \in 1..(Len(s) - 1) /\ i \in 1..(1 + Len(t)) /\ ~ (i <= 1) /\ (i - 1) + 1 = i
    BY <1>1
  <2>2. u[i] = t[i - 1]
    BY <1>3, <2>1
  <2> QED
    BY <1>1, <2>1, <2>2
<1> QED
  BY <1>3, <1>4, <1>5, <1>6 DEF u, t

\* The rest of a list is a list of the same kind.
LEMMA TailShaped ==
    ASSUME NEW s \in Seq(Steps), s # <<>>, Shaped(s)
    PROVE  Shaped(Tail(s)) /\ (SwapAhead(Tail(s)) => SwapAhead(s))
<1> DEFINE t == Tail(s)
<1>1. /\ Len(s) \in Nat /\ t \in Seq(Steps) /\ Len(t) = Len(s) - 1
      /\ \A i \in 1..(Len(s) - 1) : t[i] = s[i + 1]
  BY TailFacts
<1> HIDE DEF t
<1>2. ASSUME NEW i \in 1..Len(t)
      PROVE  /\ i + 1 \in 1..Len(s) /\ t[i] = s[i + 1]
             /\ i + 1 < Len(s) => i < Len(t) /\ t[i + 1] = s[i + 2]
             /\ \A j \in (i + 1)..Len(t) : j + 1 \in (i + 2)..Len(s) /\ t[j] = s[j + 1]
  BY <1>1
<1>3. Shaped(t)
  <2> SUFFICES ASSUME NEW i \in 1..Len(t)
               PROVE  /\ t[i] = "insert" => i < Len(t) /\ t[i + 1] \in {"add", "replace"}
                      /\ t[i] = "remove" => i < Len(t) /\ t[i + 1] = "erase"
                      /\ t[i] = "lookup" => i < Len(t) /\ t[i + 1] = "detach"
                      /\ t[i] = "list" =>
                            \A j \in (i + 1)..Len(t) :
                                t[j] \notin {"insert", "add", "replace", "flag", "set"}
    BY DEF Shaped
  <2>1. (i + 1) + 1 = i + 2 /\ i + 1 \in 1..Len(s) /\ t[i] = s[i + 1]
    BY <1>1, <1>2
  <2>2. /\ s[i + 1] = "insert" => i + 1 < Len(s) /\ s[i + 2] \in {"add", "replace"}
        /\ s[i + 1] = "remove" => i + 1 < Len(s) /\ s[i + 2] = "erase"
        /\ s[i + 1] = "lookup" => i + 1 < Len(s) /\ s[i + 2] = "detach"
    BY <2>1 DEF Shaped
  <2>3. s[i + 1] = "list" =>
           \A j \in (i + 2)..Len(s) : s[j] \notin {"insert", "add", "replace", "flag", "set"}
    BY <2>1 DEF Shaped
  <2> QED
    BY <1>2, <2>1, <2>2, <2>3
<1>4. SwapAhead(t) => SwapAhead(s)
  BY <1>2 DEF SwapAhead
<1> QED
  BY <1>3, <1>4 DEF t

\* The rest of a list has what it writes, if the step taken is not the one that
\* was to provide it, or has just provided it, or nothing is to be written.
LEMMA TailSupplied ==
    ASSUME NEW s \in Seq(Steps), s # <<>>, Shaped(s), NEW b, NEW b2, Supplied(s, b),
           \/ b2 = b /\ Head(s) \notin {"need", "flip"}
           \/ b2 \in Status
           \/ Head(s) = "list"
    PROVE  Supplied(Tail(s), b2)
<1> DEFINE t == Tail(s)
<1>1. /\ Len(s) \in Nat /\ Len(s) >= 1 /\ t \in Seq(Steps) /\ Len(t) = Len(s) - 1
      /\ Head(s) = s[1]
      /\ \A i \in 1..(Len(s) - 1) : t[i] = s[i + 1]
  BY TailFacts
<1> HIDE DEF t
<1>2. CASE b2 = b /\ Head(s) \notin {"need", "flip"}
  <2> SUFFICES ASSUME NEW i \in 1..Len(t)
               PROVE  /\ t[i] \in {"insert", "add", "replace"} =>
                            b \in Body \/ \E j \in 1..(i - 1) : t[j] = "need"
                      /\ t[i] \in {"flag", "set"} =>
                            b \in Status \/ \E j \in 1..(i - 1) : t[j] = "flip"
    BY <1>2 DEF Supplied, t
  <2>1. i + 1 \in 1..Len(s) /\ t[i] = s[i + 1] /\ (i + 1) - 1 = i
    BY <1>1
  <2>2. ASSUME NEW x \in {"need", "flip"}, NEW j \in 1..i, s[j] = x
        PROVE  \E k \in 1..(i - 1) : t[k] = x
    <3>1. j # 1
      BY <1>1, <1>2, <2>2
    <3>2. j - 1 \in 1..(i - 1) /\ j - 1 \in 1..(Len(s) - 1) /\ (j - 1) + 1 = j
      BY <1>1, <3>1
    <3> QED
      BY <1>1, <2>2, <3>2
  <2>3. /\ s[i + 1] \in {"insert", "add", "replace"} =>
              b \in Body \/ \E j \in 1..i : s[j] = "need"
        /\ s[i + 1] \in {"flag", "set"} =>
              b \in Status \/ \E j \in 1..i : s[j] = "flip"
    BY <2>1 DEF Supplied
  <2> QED
    BY <2>1, <2>2, <2>3
<1>3. CASE b2 \in Status
  BY <1>3 DEF Supplied, Body
<1>4. CASE Head(s) = "list"
  <2>1. 1 \in 1..Len(s) /\ s[1] = "list"
    BY <1>1, <1>4
  <2>2. \A j \in (1 + 1)..Len(s) : s[j] \notin {"insert", "add", "replace", "flag", "set"}
    BY <2>1 DEF Shaped
  <2>3. \A i \in 1..Len(t) : i + 1 \in (1 + 1)..Len(s) /\ t[i] = s[i + 1]
    BY <1>1
  <2>4. \A i \in 1..Len(t) : t[i] \notin {"insert", "add", "replace", "flag", "set"}
    BY <2>2, <2>3
  <2> QED
    BY <2>4 DEF Supplied, t
<1> QED
  BY <1>2, <1>3, <1>4 DEF t

\* A list whose attach or detach is exchanged for the second half of it.
LEMMA ThenShaped ==
    ASSUME NEW s \in Seq(Steps), s # <<>>, Shaped(s), NEW b, Supplied(s, b),
           Head(s) \in {"attach", "detach"}, NEW x \in {"record", "unhook"}
    PROVE  LET u == <<x>> \o Tail(s) IN
           /\ u \in Seq(Steps) /\ u # <<>> /\ Head(u) = x
           /\ Shaped(u) /\ Supplied(u, b) /\ (SwapAhead(u) => SwapAhead(s))
<1> DEFINE u == <<x>> \o Tail(s)
<1>1. x \in Steps
  BY DEF Steps
<1>2. /\ u \in Seq(Steps) /\ u # <<>> /\ Head(u) = x
      /\ Len(u) = Len(s) /\ u[1] = x /\ \A i \in 2..Len(s) : u[i] = s[i]
  BY <1>1, ThenFacts
<1>3. Len(s) \in Nat /\ Len(s) >= 1 /\ s[1] \in {"attach", "detach"}
  BY TailFacts
<1> HIDE DEF u
<1>4. Shaped(u)
  <2> SUFFICES ASSUME NEW i \in 1..Len(u)
               PROVE  /\ u[i] = "insert" => i < Len(u) /\ u[i + 1] \in {"add", "replace"}
                      /\ u[i] = "remove" => i < Len(u) /\ u[i + 1] = "erase"
                      /\ u[i] = "lookup" => i < Len(u) /\ u[i + 1] = "detach"
                      /\ u[i] = "list" =>
                            \A j \in (i + 1)..Len(u) :
                                u[j] \notin {"insert", "add", "replace", "flag", "set"}
    BY DEF Shaped
  <2>1. CASE i = 1
    BY <1>2, <2>1
  <2>2. CASE i # 1
    <3>1. i \in 2..Len(s) /\ i \in 1..Len(s) /\ u[i] = s[i]
      BY <1>2, <1>3, <2>2
    <3>2. i < Len(s) => u[i + 1] = s[i + 1]
      BY <1>2, <1>3, <3>1
    <3>3. \A j \in (i + 1)..Len(s) : u[j] = s[j]
      BY <1>2, <1>3, <3>1
    <3>4. /\ s[i] = "insert" => i < Len(s) /\ s[i + 1] \in {"add", "replace"}
          /\ s[i] = "remove" => i < Len(s) /\ s[i + 1] = "erase"
          /\ s[i] = "lookup" => i < Len(s) /\ s[i + 1] = "detach"
          /\ s[i] = "list" =>
                \A j \in (i + 1)..Len(s) :
                    s[j] \notin {"insert", "add", "replace", "flag", "set"}
      BY <3>1 DEF Shaped
    <3> QED
      BY <1>2, <3>1, <3>2, <3>3, <3>4
  <2> QED
    BY <2>1, <2>2
<1>5. Supplied(u, b)
  <2> SUFFICES ASSUME NEW i \in 1..Len(u)
               PROVE  /\ u[i] \in {"insert", "add", "replace"} =>
                            b \in Body \/ \E j \in 1..(i - 1) : u[j] = "need"
                      /\ u[i] \in {"flag", "set"} =>
                            b \in Status \/ \E j \in 1..(i - 1) : u[j] = "flip"
    BY DEF Supplied
  <2>1. CASE i = 1
    BY <1>2, <2>1
  <2>2. CASE i # 1
    <3>1. i \in 1..Len(s) /\ u[i] = s[i]
      BY <1>2, <1>3, <2>2
    <3>2. ASSUME NEW y \in {"need", "flip"}, NEW j \in 1..(i - 1), s[j] = y PROVE u[j] = y
      <4>1. j # 1
        BY <1>3, <3>2
      <4>2. j \in 2..Len(s)
        BY <1>2, <1>3, <4>1
      <4> QED
        BY <1>2, <3>2, <4>2
    <3>3. /\ s[i] \in {"insert", "add", "replace"} =>
                b \in Body \/ \E j \in 1..(i - 1) : s[j] = "need"
          /\ s[i] \in {"flag", "set"} =>
                b \in Status \/ \E j \in 1..(i - 1) : s[j] = "flip"
      BY <3>1 DEF Supplied
    <3> QED
      BY <3>1, <3>2, <3>3
  <2> QED
    BY <2>1, <2>2
<1>6. SwapAhead(u) => SwapAhead(s)
  BY <1>2, <1>3 DEF SwapAhead
<1> QED
  BY <1>2, <1>4, <1>5, <1>6 DEF u

-----------------------------------------------------------------------------
\* A call that has taken a step and goes on with the rest of its list.
LEMMA Onward ==
    ASSUME NEW c, CallOK(c), c.todo # <<>>,
           NEW d \in Call, d.todo = Tail(c.todo), d.rule = c.rule, d.subs = {},
           \/ d.body = c.body /\ Head(c.todo) \notin {"need", "flip"}
           \/ d.body \in Status
           \/ Head(c.todo) = "list"
    PROVE  CallOK(d) /\ (SwapAhead(d.todo) => SwapAhead(c.todo))
<1>1. c.todo \in Seq(Steps) /\ Shaped(c.todo) /\ Supplied(c.todo, c.body) /\ c.rule \in Rules
  BY DEF CallOK, Call
<1>2. Shaped(d.todo) /\ (SwapAhead(d.todo) => SwapAhead(c.todo))
  BY <1>1, TailShaped
<1>3. Supplied(d.todo, d.body)
  BY <1>1, TailSupplied
<1> QED
  BY <1>1, <1>2, <1>3 DEF CallOK

\* No call in progress.
LEMMA IdleOK == CallOK(Idle) /\ Idle.todo = <<>> /\ Idle.subs = {}
<1>1. <<>> \in Seq(Steps) /\ Len(<<>>) = 0
  BY EmptySeq
<1>2. Idle \in Call
  BY <1>1 DEF Idle, NewCall, Call
<1>3. Idle.todo = <<>> /\ Idle.subs = {}
  BY DEF Idle, NewCall
<1>4. Shaped(<<>>) /\ \A b : Supplied(<<>>, b)
  BY <1>1 DEF Shaped, Supplied
<1> QED
  BY <1>2, <1>3, <1>4 DEF CallOK

\* Go and Return change one call, to a sound one.
LEMMA Goes ==
    ASSUME Calls, call \in [Callers -> Call], NEW p \in Callers, NEW e, CallOK(e),
           Go(p, e) \/ (Return(p) /\ e = Idle)
    PROVE  /\ Calls' /\ call' \in [Callers -> Call]
           /\ \A q \in Callers : q # p => call'[q] = call[q]
           /\ call'[p].todo = e.todo /\ call'[p].subs = e.subs
           /\ call'[p] = e \/ (call'[p] = Idle /\ e.todo = <<>>)
<1>1. call' = [call EXCEPT ![p] = IF e.todo = <<>> THEN Idle ELSE e]
  BY IdleOK DEF Go, Return
<1>2. call'[p] = (IF e.todo = <<>> THEN Idle ELSE e) /\ \A q \in Callers : q # p => call'[q] = call[q]
  BY <1>1
<1>3. CallOK(call'[p])
  BY <1>2, IdleOK
<1>4. Calls'
  BY <1>2, <1>3 DEF Calls
<1>5. call' \in [Callers -> Call]
  BY <1>1, <1>3, <1>2 DEF CallOK
<1>6. e.todo = <<>> => e.subs = {}
  BY DEF CallOK
<1> QED
  BY <1>2, <1>4, <1>5, <1>6, IdleOK

\* What the step at the head of a list can count on.
LEMMA HeadFacts ==
    ASSUME NEW s \in Seq(Steps), s # <<>>, Shaped(s), NEW b, Supplied(s, b)
    PROVE  /\ Head(s) = "insert" => Tail(s) # <<>> /\ Head(Tail(s)) \in {"add", "replace"}
           /\ Head(s) = "remove" => Tail(s) # <<>> /\ Head(Tail(s)) = "erase"
           /\ Head(s) = "lookup" => Tail(s) # <<>> /\ Head(Tail(s)) = "detach"
           /\ Head(s) \in {"insert", "add", "replace"} => b \in Body
           /\ Head(s) \in {"flag", "set"} => b \in Status
<1>1. /\ Len(s) \in Nat /\ Len(s) >= 1 /\ Head(s) = s[1]
      /\ Tail(s) \in Seq(Steps) /\ Len(Tail(s)) = Len(s) - 1
      /\ \A i \in 1..(Len(s) - 1) : Tail(s)[i] = s[i + 1]
  BY TailFacts
<1>2. 1 \in 1..Len(s) /\ 1 + 1 = 2 /\ 1..(1 - 1) = {}
  BY <1>1
<1>3. 1 < Len(s) => Tail(s) # <<>> /\ Head(Tail(s)) = s[2]
  <2> SUFFICES ASSUME 1 < Len(s) PROVE Tail(s) # <<>> /\ Head(Tail(s)) = s[2]
    OBVIOUS
  <2>1. Len(Tail(s)) >= 1 /\ 1 \in 1..(Len(s) - 1)
    BY <1>1
  <2>2. Tail(s) # <<>>
    BY <1>1, <2>1, EmptySeq
  <2>3. Head(Tail(s)) = Tail(s)[1]
    BY <1>1, <2>2, TailFacts
  <2> QED
    BY <1>1, <1>2, <2>1, <2>2, <2>3
<1>4. /\ s[1] = "insert" => 1 < Len(s) /\ s[2] \in {"add", "replace"}
      /\ s[1] = "remove" => 1 < Len(s) /\ s[2] = "erase"
      /\ s[1] = "lookup" => 1 < Len(s) /\ s[2] = "detach"
  BY <1>2 DEF Shaped
<1>5. /\ s[1] \in {"insert", "add", "replace"} => b \in Body
      /\ s[1] \in {"flag", "set"} => b \in Status
  BY <1>2 DEF Supplied
<1> QED
  BY <1>1, <1>3, <1>4, <1>5

\* The caller at a step: its call, the rule it is about, its hands empty unless
\* it is attaching or detaching.
LEMMA Here ==
    ASSUME IInv, NEW p \in Callers, call[p].todo # <<>>
    PROVE  /\ call[p] \in Call /\ CallOK(call[p]) /\ call[p].rule \in Rules
           /\ call[p].todo \in Seq(Steps) /\ Shaped(call[p].todo)
           /\ Supplied(call[p].todo, call[p].body)
           /\ Head(call[p].todo) \notin {"record", "unhook"} => call[p].subs = {}
           /\ Calls /\ call \in [Callers -> Call] /\ TypeOK
BY DEF IInv, Calls, CallOK, Call, TypeOK

\* The rest of a call, and what the steps write into it.
LEMMA RestFacts ==
    ASSUME NEW p \in Callers, call[p] \in Call, call[p].todo # <<>>,
           NEW b \in Body \cup {"absent"}, NEW S \in SUBSET Subscription
    PROVE  /\ Rest(p) \in Call /\ Rest(p).todo = Tail(call[p].todo)
           /\ Rest(p).rule = call[p].rule /\ Rest(p).body = call[p].body
           /\ Rest(p).subs = call[p].subs
           /\ LET d == [Rest(p) EXCEPT !.body = b] IN
              /\ d \in Call /\ d.todo = Tail(call[p].todo) /\ d.rule = call[p].rule
              /\ d.body = b /\ d.subs = call[p].subs
           /\ LET d == [Rest(p) EXCEPT !.held = b] IN
              /\ d \in Call /\ d.todo = Tail(call[p].todo) /\ d.rule = call[p].rule
              /\ d.body = call[p].body /\ d.subs = call[p].subs
           /\ LET d == [Rest(p) EXCEPT !.subs = S] IN
              /\ d \in Call /\ d.todo = Tail(call[p].todo) /\ d.rule = call[p].rule
              /\ d.body = call[p].body /\ d.subs = S
<1>1. Tail(call[p].todo) \in Seq(Steps)
  BY TailFacts DEF Call
<1>2. /\ Rest(p) \in Call /\ Rest(p).todo = Tail(call[p].todo)
      /\ Rest(p).rule = call[p].rule /\ Rest(p).body = call[p].body
      /\ Rest(p).subs = call[p].subs
  BY <1>1 DEF Rest, Call
<1> DEFINE r == Rest(p)
<1>3. r \in Call
  BY <1>2
<1> HIDE DEF r
<1>4. /\ [r EXCEPT !.body = b] \in Call /\ [r EXCEPT !.body = b].todo = r.todo
      /\ [r EXCEPT !.body = b].rule = r.rule /\ [r EXCEPT !.body = b].body = b
      /\ [r EXCEPT !.body = b].subs = r.subs
  BY <1>3 DEF Call
<1>5. /\ [r EXCEPT !.held = b] \in Call /\ [r EXCEPT !.held = b].todo = r.todo
      /\ [r EXCEPT !.held = b].rule = r.rule /\ [r EXCEPT !.held = b].body = r.body
      /\ [r EXCEPT !.held = b].subs = r.subs
  BY <1>3 DEF Call
<1>6. /\ [r EXCEPT !.subs = S] \in Call /\ [r EXCEPT !.subs = S].todo = r.todo
      /\ [r EXCEPT !.subs = S].rule = r.rule /\ [r EXCEPT !.subs = S].body = r.body
      /\ [r EXCEPT !.subs = S].subs = S
  BY <1>3 DEF Call
<1> QED
  BY <1>2, <1>4, <1>5, <1>6 DEF r

\* The rest of a call that has put down what it had in hand.
LEMMA HandsEmptied ==
    ASSUME NEW p \in Callers, call[p] \in Call, call[p].todo # <<>>
    PROVE  LET d == [Rest(p) EXCEPT !.subs = {}] IN
           /\ d \in Call /\ d.todo = Tail(call[p].todo) /\ d.rule = call[p].rule
           /\ d.body = call[p].body /\ d.subs = {}
<1> DEFINE r == Rest(p)
<1>1. Tail(call[p].todo) \in Seq(Steps)
  BY TailFacts DEF Call
<1>2. /\ r \in Call /\ r.todo = Tail(call[p].todo)
      /\ r.rule = call[p].rule /\ r.body = call[p].body
  BY <1>1 DEF Rest, Call
<1> HIDE DEF r
<1>3. /\ [r EXCEPT !.subs = {}] \in Call /\ [r EXCEPT !.subs = {}].todo = r.todo
      /\ [r EXCEPT !.subs = {}].rule = r.rule /\ [r EXCEPT !.subs = {}].body = r.body
      /\ [r EXCEPT !.subs = {}].subs = {}
  BY <1>2 DEF Call
<1> QED
  BY <1>2, <1>3 DEF r

-----------------------------------------------------------------------------
\* A caller with empty hands before and after: the subscriptions stay as they
\* are.
LEMMA HandsKept ==
    ASSUME IInv, NEW p \in Callers, \A q \in Callers : q # p => call'[q] = call[q],
           UNCHANGED <<host, active, replaced>>, call[p].subs = {}, call'[p].subs = {}
    PROVE  HandlersAccounted' /\ Issued' /\ RecordedIsHeard'
<1>1. \A q \in Callers : call'[q].subs = call[q].subs
  OBVIOUS
<1>2. \A q \in Callers : call[q].subs # {} => q # p /\ call'[q] = call[q]
  OBVIOUS
<1>3. HandlersAccounted'
  <2> SUFFICES ASSUME NEW c \in Connectors, NEW h \in host[c].handlers
               PROVE  \/ [connector |-> c, id |-> h.id] \in active[h.rule]
                      \/ \E q \in Callers : /\ call'[q].rule = h.rule
                                            /\ [connector |-> c, id |-> h.id] \in call'[q].subs
    BY DEF HandlersAccounted
  <2>1. \/ [connector |-> c, id |-> h.id] \in active[h.rule]
        \/ \E q \in Callers : /\ call[q].rule = h.rule
                              /\ [connector |-> c, id |-> h.id] \in call[q].subs
    BY DEF IInv, HandlersAccounted
  <2> QED
    BY <1>2, <2>1
<1>4. RecordedIsHeard'
  BY DEF IInv, RecordedIsHeard
<1>5. Issued'
  <2> SUFFICES ASSUME NEW c \in Connectors \ replaced, NEW i \in 1..MaxSubs, NEW sub,
                      sub = [connector |-> c, id |-> i]
               PROVE  /\ \A r \in Rules : sub \in active[r] => i < host[c].next
                      /\ \A q \in Callers : sub \in call'[q].subs => i < host[c].next
                      /\ \A r, s \in Rules : sub \in active[r] /\ sub \in active[s] => r = s
                      /\ \A q, o \in Callers : sub \in call'[q].subs /\ sub \in call'[o].subs => q = o
                      /\ \A r \in Rules, q \in Callers : ~ (sub \in active[r] /\ sub \in call'[q].subs)
                      /\ \A q \in Callers : At(q, "record")' /\ sub \in call'[q].subs =>
                            [id |-> i, rule |-> call'[q].rule] \in host[c].handlers
    BY DEF Issued
  <2>1. /\ \A r \in Rules : sub \in active[r] => i < host[c].next
        /\ \A q \in Callers : sub \in call[q].subs => i < host[c].next
        /\ \A r, s \in Rules : sub \in active[r] /\ sub \in active[s] => r = s
        /\ \A q, o \in Callers : sub \in call[q].subs /\ sub \in call[o].subs => q = o
        /\ \A r \in Rules, q \in Callers : ~ (sub \in active[r] /\ sub \in call[q].subs)
        /\ \A q \in Callers : At(q, "record") /\ sub \in call[q].subs =>
              [id |-> i, rule |-> call[q].rule] \in host[c].handlers
    BY DEF IInv, Issued
  <2>2. ASSUME NEW q \in Callers, At(q, "record")', sub \in call'[q].subs
        PROVE  [id |-> i, rule |-> call'[q].rule] \in host[c].handlers
    <3>1. call'[q] = call[q] /\ At(q, "record")
      BY <1>1, <1>2, <2>2 DEF At, Current
    <3> QED
      BY <2>1, <2>2, <3>1
  <2> QED
    BY <1>1, <2>1, <2>2
<1> QED
  BY <1>3, <1>4, <1>5

\* Every step at which the rules stay as they are keeps what is said of them,
\* if the caller is not one of those that make up for a difference.
LEMMA RowsKept ==
    ASSUME IInv, NEW p \in Callers, \A q \in Callers : q # p => call'[q] = call[q],
           UNCHANGED <<row, engine, refused>>,
           ~ At(p, "add"), ~ At(p, "replace"), ~ At(p, "erase"),
           call'[p].body = "invalid" /\ SwapAhead(call'[p].todo) =>
               \/ /\ call'[p].rule = call[p].rule /\ call[p].body = "invalid"
                  /\ SwapAhead(call[p].todo)
               \/ row[call'[p].rule].toml = "invalid"
    PROVE  InvalidKnown' /\ RowsAreLoaded'
<1>1. \A q \in Callers, r \in Rules : (Offering(q, r) => Offering(q, r)')
                                      /\ (Settling(q, r) => Settling(q, r)')
  BY DEF Offering, Settling, Offers, Settles, At, Current
<1>2. InvalidKnown'
  <2> SUFFICES ASSUME NEW r \in Rules \ refused,
                      \/ row[r].toml = "invalid"
                      \/ \E q \in Callers : /\ call'[q].rule = r /\ call'[q].body = "invalid"
                                            /\ SwapAhead(call'[q].todo)
               PROVE  \E q \in Callers : Offering(q, r)'
    BY DEF InvalidKnown
  <2>1. \/ row[r].toml = "invalid"
        \/ \E q \in Callers : /\ call[q].rule = r /\ call[q].body = "invalid"
                              /\ SwapAhead(call[q].todo)
    OBVIOUS
  <2>2. PICK q \in Callers : Offering(q, r)
    BY <2>1 DEF IInv, InvalidKnown
  <2> QED
    BY <1>1, <2>2
<1>3. RowsAreLoaded'
  <2> SUFFICES ASSUME NEW r \in Rules \ refused,
                      row[r] # NoRow, row[r].toml # "invalid", engine[r] = "absent"
               PROVE  \E q \in Callers : Settling(q, r)'
    BY DEF RowsAreLoaded, Settling, Settles, At, Current
  <2>1. PICK q \in Callers : Settling(q, r)
    BY DEF IInv, RowsAreLoaded, Settling, Settles, At, Current
  <2> QED
    BY <1>1, <2>1
<1> QED
  BY <1>2, <1>3

\* The call goes on as e, or is over.
Moves(p, e) == Go(p, e) \/ (Return(p) /\ e = Idle)

\* A call whose hands are empty and that does not make up for a difference
\* between the engine and the rows.
Passive(p) ==
    /\ call[p].todo # <<>>
    /\ Head(call[p].todo) \notin {"record", "unhook", "add", "replace", "erase"}

\* To go on as e brings no new text that does not compile, but from the rows.
Harmless(p, e) ==
    e.body = "invalid" /\ SwapAhead(e.todo) =>
        \/ e.rule = call[p].rule /\ call[p].body = "invalid" /\ SwapAhead(call[p].todo)
        \/ row[e.rule].toml = "invalid"

\* A step that only changes the call that takes it.
LEMMA OwnStep ==
    ASSUME IInv, NEW p \in Callers, Passive(p),
           UNCHANGED <<row, engine, active, host, refused, replaced, ops>>,
           NEW e, CallOK(e), e.subs = {}, Moves(p, e), Harmless(p, e)
    PROVE  IInv'
<1> USE DEF Passive, Moves, Harmless
<1>1. call[p].subs = {} /\ Calls /\ call \in [Callers -> Call] /\ TypeOK
  BY Here
<1>2. /\ Calls' /\ call' \in [Callers -> Call]
      /\ \A q \in Callers : q # p => call'[q] = call[q]
      /\ call'[p].subs = {}
      /\ call'[p] = e \/ call'[p] = Idle
  BY <1>1, Goes
<1>3. TypeOK'
  BY <1>1, <1>2 DEF TypeOK
<1>4. HandlersAccounted' /\ Issued' /\ RecordedIsHeard'
  BY <1>1, <1>2, HandsKept
<1>5. ~ At(p, "add") /\ ~ At(p, "replace") /\ ~ At(p, "erase")
  BY DEF At, Current
<1>6. Idle.body # "invalid"
  BY DEF Idle, NewCall
<1>7. InvalidKnown' /\ RowsAreLoaded'
  BY <1>2, <1>5, <1>6, RowsKept
<1> QED
  BY <1>2, <1>3, <1>4, <1>7 DEF IInv

\* The reading steps, and the choice of the next rule of a cascade.
LEMMA ReadingKeeps ==
    ASSUME IInv, NEW p \in Callers,
           Lookup(p) \/ Read(p) \/ Need(p) \/ Flip(p) \/ List(p) \/ Purge(p)
    PROVE  IInv'
<1>1. call[p].todo # <<>>
  BY DEF Lookup, Read, Need, Flip, List, Purge, At
<1> DEFINE s == call[p].todo
           r == call[p].rule
<1>2. /\ call[p] \in Call /\ CallOK(call[p]) /\ r \in Rules
      /\ s \in Seq(Steps) /\ Shaped(s) /\ Supplied(s, call[p].body)
      /\ TypeOK
  BY <1>1, Here
<1>3. engine[r] \in Status \cup {"absent"} /\ row[r] \in Row \cup {NoRow}
  BY <1>2 DEF TypeOK
<1>a. engine[r] \in Body \cup {"absent"}
  BY <1>3 DEF Body
<1>4. UNCHANGED <<row, engine, active, host, refused, replaced, ops>>
  BY DEF Lookup, Read, Need, Flip, List, Purge
<1>5. CASE Read(p)
  <2> DEFINE b == engine[r]
             e == [Rest(p) EXCEPT !.held = b]
  <2>1. Head(s) = "read" /\ Go(p, e)
    BY <1>5 DEF Read, At, Current
  <2>2. call[p].subs = {}
    BY <1>1, <2>1, Here
  <2>b. b \in Body \cup {"absent"}
    BY <1>a
  <2> HIDE DEF b
  <2>3. /\ e \in Call /\ e.todo = Tail(s) /\ e.rule = r /\ e.body = call[p].body /\ e.subs = {}
    BY <1>1, <1>2, <2>2, <2>b, RestFacts
  <2> HIDE DEF e
  <2>4. CallOK(e) /\ (SwapAhead(e.todo) => SwapAhead(s))
    BY <1>1, <1>2, <2>1, <2>3, Onward
  <2>5. Passive(p) /\ Moves(p, e) /\ Harmless(p, e)
    BY <1>1, <2>1, <2>3, <2>4 DEF Passive, Moves, Harmless
  <2> QED
    BY <1>4, <2>3, <2>4, <2>5, OwnStep
<1>6. CASE Lookup(p)
  <2>1. Head(s) = "lookup"
    BY <1>6 DEF Lookup, At, Current
  <2>2. call[p].subs = {}
    BY <1>1, <2>1, Here
  <2>3. CASE engine[r] = "absent"
    <3> DEFINE d == Rest(p)
               e == [d EXCEPT !.todo = Tail(@)]
    <3>1. Go(p, e)
      BY <1>6, <2>3 DEF Lookup
    <3>2. d \in Call /\ d.todo = Tail(s) /\ d.rule = r /\ d.body = call[p].body /\ d.subs = {}
      BY <1>1, <1>2, <1>3, <2>2, RestFacts DEF Body
    <3>3. Tail(s) # <<>> /\ Head(Tail(s)) = "detach"
      BY <1>1, <1>2, <2>1, HeadFacts
    <3> HIDE DEF d
    <3>4. CallOK(d) /\ (SwapAhead(d.todo) => SwapAhead(s))
      BY <1>1, <1>2, <2>1, <3>2, Onward
    <3>5. /\ e \in Call /\ e.todo = Tail(d.todo) /\ e.rule = r /\ e.body = call[p].body
          /\ e.subs = {}
      <4>1. Tail(d.todo) \in Seq(Steps)
        BY <3>2, <3>3, TailFacts DEF Call
      <4> QED
        BY <3>2, <4>1 DEF Call
    <3> HIDE DEF e
    <3>6. CallOK(e) /\ (SwapAhead(e.todo) => SwapAhead(d.todo))
      BY <3>2, <3>3, <3>4, <3>5, Onward
    <3>7. Passive(p) /\ Moves(p, e) /\ Harmless(p, e)
      BY <1>1, <2>1, <3>1, <3>4, <3>5, <3>6 DEF Passive, Moves, Harmless
    <3> QED
      BY <1>4, <3>5, <3>6, <3>7, OwnStep
  <2>4. CASE engine[r] # "absent"
    <3> DEFINE b == engine[r]
               e == [Rest(p) EXCEPT !.held = b]
    <3>1. Go(p, e)
      BY <1>6, <2>4 DEF Lookup
    <3>b. b \in Body \cup {"absent"}
      BY <1>a
    <3> HIDE DEF b
    <3>2. /\ e \in Call /\ e.todo = Tail(s) /\ e.rule = r /\ e.body = call[p].body /\ e.subs = {}
      BY <1>1, <1>2, <2>2, <3>b, RestFacts
    <3> HIDE DEF e
    <3>3. CallOK(e) /\ (SwapAhead(e.todo) => SwapAhead(s))
      BY <1>1, <1>2, <2>1, <3>2, Onward
    <3>4. Passive(p) /\ Moves(p, e) /\ Harmless(p, e)
      BY <1>1, <2>1, <3>1, <3>2, <3>3 DEF Passive, Moves, Harmless
    <3> QED
      BY <1>4, <3>2, <3>3, <3>4, OwnStep
  <2> QED
    BY <2>3, <2>4
<1>7. CASE Need(p) \/ Flip(p)
  <2>1. Head(s) \in {"need", "flip"}
    BY <1>7 DEF Need, Flip, At, Current
  <2>2. call[p].subs = {}
    BY <1>1, <2>1, Here
  <2>3. CASE Return(p)
    <3>1. Idle.body # "invalid"
      BY DEF Idle, NewCall
    <3>2. Passive(p) /\ Moves(p, Idle) /\ Harmless(p, Idle)
      BY <1>1, <2>1, <2>3, <3>1 DEF Passive, Moves, Harmless
    <3> QED
      BY <1>4, <3>2, IdleOK, OwnStep
  <2>4. ASSUME NEW b \in Status, Go(p, [Rest(p) EXCEPT !.body = b]) PROVE IInv'
    <3> DEFINE e == [Rest(p) EXCEPT !.body = b]
    <3>1. /\ e \in Call /\ e.todo = Tail(s) /\ e.rule = r /\ e.body = b /\ e.subs = {}
      BY <1>1, <1>2, <2>2, RestFacts DEF Body
    <3>2. Go(p, e)
      BY <2>4
    <3> HIDE DEF e
    <3>3. CallOK(e) /\ e.body # "invalid"
      BY <1>1, <1>2, <3>1, Onward DEF Status
    <3>4. Passive(p) /\ Moves(p, e) /\ Harmless(p, e)
      BY <1>1, <2>1, <3>2, <3>3 DEF Passive, Moves, Harmless
    <3> QED
      BY <1>4, <3>1, <3>3, <3>4, OwnStep
  <2>5. \/ Return(p)
        \/ \E b \in Status : Go(p, [Rest(p) EXCEPT !.body = b])
    <3>1. CASE Need(p)
      BY <1>3, <3>1 DEF Need
    <3>2. CASE Flip(p)
      BY <3>2 DEF Flip, Status
    <3> QED
      BY <1>7, <3>1, <3>2
  <2> QED
    BY <2>3, <2>4, <2>5
<1>8. CASE List(p)
  <2> DEFINE b == IF row[r] = NoRow THEN "absent" ELSE row[r].toml
             e == [Rest(p) EXCEPT !.body = b]
  <2>1. Head(s) = "list" /\ Go(p, e)
    BY <1>8 DEF List, At, Current
  <2>2. call[p].subs = {}
    BY <1>1, <2>1, Here
  <2>3. b \in Body \cup {"absent"} /\ (b = "invalid" => row[r].toml = "invalid")
    BY <1>3 DEF Row
  <2> HIDE DEF b
  <2>4. /\ e \in Call /\ e.todo = Tail(s) /\ e.rule = r /\ e.body = b /\ e.subs = {}
    BY <1>1, <1>2, <2>2, <2>3, RestFacts
  <2> HIDE DEF e
  <2>5. CallOK(e)
    BY <1>1, <1>2, <2>1, <2>4, Onward
  <2>6. Passive(p) /\ Moves(p, e) /\ Harmless(p, e)
    BY <1>1, <2>1, <2>3, <2>4 DEF Passive, Moves, Harmless
  <2> QED
    BY <1>4, <2>4, <2>5, <2>6, OwnStep
<1>9. CASE Purge(p)
  <2>1. Head(s) = "purge"
    BY <1>9 DEF Purge, At, Current
  <2>2. call[p].subs = {}
    BY <1>1, <2>1, Here
  <2>3. ASSUME NEW v \in call[p].work,
               Go(p, NewCall(<<"remove", "erase", "purge">>, v, "absent", "absent",
                             call[p].work \ {v}))
        PROVE  IInv'
    <3> DEFINE t == <<"remove", "erase", "purge">>
               e == NewCall(t, v, "absent", "absent", call[p].work \ {v})
    <3>1. v \in Rules /\ call[p].work \ {v} \in SUBSET Rules
      BY <1>2 DEF Call
    <3>2. /\ t \in Seq(Steps) /\ Len(t) = 3
          /\ t[1] = "remove" /\ t[2] = "erase" /\ t[3] = "purge"
      BY DEF Steps
    <3>3. \A i \in 1..3 : i = 1 \/ i = 2 \/ i = 3
      OBVIOUS
    <3> HIDE DEF t
    <3>4. Shaped(t) /\ Supplied(t, "absent")
      BY <3>2, <3>3 DEF Shaped, Supplied
    <3>5. /\ e \in Call /\ e.todo = t /\ e.rule = v /\ e.body = "absent" /\ e.subs = {}
      BY <3>1, <3>2 DEF NewCall, Call
    <3>6. Go(p, e)
      BY <2>3 DEF t
    <3> HIDE DEF e
    <3>7. CallOK(e)
      BY <3>1, <3>4, <3>5 DEF CallOK
    <3>8. Passive(p) /\ Moves(p, e) /\ Harmless(p, e)
      BY <1>1, <2>1, <3>5, <3>6 DEF Passive, Moves, Harmless
    <3> QED
      BY <1>4, <3>5, <3>7, <3>8, OwnStep
  <2>4. CASE Go(p, [call[p] EXCEPT !.todo = <<"uninstall">>])
    <3> DEFINE t == <<"uninstall">>
               e == [call[p] EXCEPT !.todo = t]
    <3>1. t \in Seq(Steps) /\ Len(t) = 1 /\ t[1] = "uninstall"
      BY DEF Steps
    <3> HIDE DEF t
    <3>2. Shaped(t) /\ Supplied(t, call[p].body) /\ ~ SwapAhead(t)
      BY <3>1 DEF Shaped, Supplied, SwapAhead
    <3>3. e \in Call /\ e.todo = t /\ e.rule = r /\ e.body = call[p].body /\ e.subs = {}
      BY <1>2, <2>2, <3>1 DEF Call
    <3>4. Go(p, e)
      BY <2>4 DEF t
    <3> HIDE DEF e
    <3>5. CallOK(e)
      BY <1>2, <3>2, <3>3 DEF CallOK
    <3>6. Passive(p) /\ Moves(p, e) /\ Harmless(p, e)
      BY <1>1, <2>1, <3>2, <3>3, <3>4 DEF Passive, Moves, Harmless
    <3> QED
      BY <1>4, <3>3, <3>5, <3>6, OwnStep
  <2> QED
    BY <1>9, <2>3, <2>4 DEF Purge
<1> QED
  BY <1>5, <1>6, <1>7, <1>8, <1>9

-----------------------------------------------------------------------------
\* A call begins with nothing in hand.
LEMMA NewCallKeeps ==
    ASSUME IInv, NEW p \in Callers, NEW r \in Rules, NEW t \in Seq(Steps),
           NEW b \in Body \cup {"absent"}, NEW h \in Body \cup {"absent"},
           NEW W \in SUBSET Rules,
           Shaped(t), Supplied(t, b), b # "invalid" \/ ~ SwapAhead(t),
           call[p].todo = <<>>, ops < MaxOps, ops' = ops + 1,
           call' = [call EXCEPT ![p] = NewCall(t, r, b, h, W)],
           UNCHANGED <<row, engine, active, host, refused, replaced>>
    PROVE  IInv'
<1> DEFINE e == NewCall(t, r, b, h, W)
<1>1. /\ e \in Call /\ e.todo = t /\ e.rule = r /\ e.body = b /\ e.subs = {}
  BY DEF NewCall, Call
<1> HIDE DEF e
<1>2. CallOK(e)
  BY <1>1 DEF CallOK
<1>3. TypeOK /\ call \in [Callers -> Call] /\ CallOK(call[p]) /\ Calls
  BY DEF IInv, TypeOK, Calls
<1>4. call[p].subs = {}
  BY <1>3 DEF CallOK
<1>5. call'[p] = e /\ \A q \in Callers : q # p => call'[q] = call[q]
  BY <1>3 DEF e
<1>6. Calls'
  BY <1>2, <1>3, <1>5 DEF Calls
<1>7. TypeOK'
  <2>1. ops' \in 0..MaxOps
    BY <1>3, RulesAssumption DEF TypeOK
  <2>2. call' \in [Callers -> Call]
    BY <1>1, <1>3 DEF e
  <2> QED
    BY <1>3, <2>1, <2>2 DEF TypeOK
<1>8. HandlersAccounted' /\ Issued' /\ RecordedIsHeard'
  BY <1>1, <1>4, <1>5, HandsKept
<1>9. ~ At(p, "add") /\ ~ At(p, "replace") /\ ~ At(p, "erase")
  BY DEF At
<1>10. InvalidKnown' /\ RowsAreLoaded'
  BY <1>1, <1>5, <1>9, RowsKept
<1> QED
  BY <1>6, <1>7, <1>8, <1>10 DEF IInv

\* The calls of the management API, the chat commands and the cascade.
LEMMA BeginKeeps ==
    ASSUME IInv, NEW p \in Callers,
           \/ \E r \in Rules : ApiCall(p, r) \/ ChatCommand(p, r)
           \/ \E c \in Connectors : RemoveConnectorCascade(p, c)
    PROVE  IInv'
<1>1. ASSUME NEW r \in Rules, NEW t \in Seq(Steps),
             NEW b \in Body \cup {"absent"}, NEW h \in Body \cup {"absent"},
             Shaped(t), Supplied(t, b), b # "invalid" \/ ~ SwapAhead(t), Begin(p, r, t, b, h)
      PROVE  IInv'
  <2>1. {} \in SUBSET Rules
    OBVIOUS
  <2>2. /\ call[p].todo = <<>> /\ ops < MaxOps /\ ops' = ops + 1
        /\ call' = [call EXCEPT ![p] = NewCall(t, r, b, h, {})]
        /\ UNCHANGED <<row, engine, active, host, refused, replaced>>
    BY <1>1 DEF Begin
  <2> QED
    BY <1>1, <2>1, <2>2, NewCallKeeps
<1>2. "absent" \in Body \cup {"absent"} /\ {"enabled", "disabled"} \subseteq Body
      /\ \A b \in Status : b # "invalid"
  BY DEF Body, Status
<1>3. ASSUME NEW r \in Rules, NEW b \in Body, CreateRule(p, r, b) \/ NewRuleCommand(p, r, b)
      PROVE  IInv'
  <2> DEFINE t == <<"insert", "add", "attach">>
             u == <<"insert", "add">>
  <2>1. t \in Seq(Steps) /\ u \in Seq(Steps)
    BY DEF Steps
  <2>2. Shaped(t) /\ Shaped(u)
    BY DEF Shaped
  <2>3. Supplied(t, b) /\ Supplied(u, b)
    BY DEF Supplied
  <2>4. ~ SwapAhead(t) /\ ~ SwapAhead(u)
    BY DEF SwapAhead
  <2>5. Begin(p, r, t, b, b) \/ Begin(p, r, u, b, b)
    BY <1>3 DEF CreateRule, NewRuleCommand
  <2> HIDE DEF t, u
  <2> QED
    BY <1>1, <2>1, <2>2, <2>3, <2>4, <2>5
<1>4. ASSUME NEW r \in Rules, CreateConnectorRule(p, r) PROVE IInv'
  <2> DEFINE t == <<"insert", "add", "read", "attach">>
  <2>1. t \in Seq(Steps)
    BY DEF Steps
  <2>2. Shaped(t)
    BY DEF Shaped
  <2>3. Supplied(t, "disabled")
    BY <1>2 DEF Supplied
  <2>4. Begin(p, r, t, "disabled", "absent")
    BY <1>4 DEF CreateConnectorRule
  <2> HIDE DEF t
  <2> QED
    BY <1>1, <1>2, <2>1, <2>2, <2>3, <2>4
<1>5. ASSUME NEW r \in Rules, NEW b \in Body, UpdateRule(p, r, b) PROVE IInv'
  <2> DEFINE t == <<"lookup", "detach", "insert", "replace", "attach">>
  <2>1. t \in Seq(Steps)
    BY DEF Steps
  <2>2. Shaped(t)
    BY DEF Shaped
  <2>3. Supplied(t, b)
    BY DEF Supplied
  <2>4. ~ SwapAhead(t)
    BY DEF SwapAhead
  <2>5. Begin(p, r, t, b, "absent")
    BY <1>5 DEF UpdateRule
  <2> HIDE DEF t
  <2> QED
    BY <1>1, <1>2, <2>1, <2>2, <2>3, <2>4, <2>5
<1>6. ASSUME NEW r \in Rules, DeleteRule(p, r) \/ DelRuleCommand(p, r) PROVE IInv'
  <2> DEFINE t == <<"lookup", "detach", "remove", "erase">>
             u == <<"need", "remove", "erase">>
  <2>1. t \in Seq(Steps) /\ u \in Seq(Steps)
    BY DEF Steps
  <2>2. Shaped(t) /\ Shaped(u)
    BY DEF Shaped
  <2>3. Supplied(t, "absent") /\ Supplied(u, "absent")
    BY DEF Supplied
  <2>4. Begin(p, r, t, "absent", "absent") \/ Begin(p, r, u, "absent", "absent")
    BY <1>6 DEF DeleteRule, DelRuleCommand
  <2> HIDE DEF t, u
  <2> QED
    BY <1>1, <1>2, <2>1, <2>2, <2>3, <2>4
<1>7. ASSUME NEW r \in Rules, EnableRule(p, r) \/ DisableRule(p, r) PROVE IInv'
  <2> DEFINE t == <<"read", "flag", "list", "swap", "attach">>
             u == <<"read", "flag", "list", "swap", "detach">>
  <2>1. t \in Seq(Steps) /\ u \in Seq(Steps)
    BY DEF Steps
  <2>2. Shaped(t) /\ Shaped(u)
    BY DEF Shaped
  <2>3. Supplied(t, "enabled") /\ Supplied(u, "disabled")
    BY DEF Supplied, Status
  <2>4. Begin(p, r, t, "enabled", "absent") \/ Begin(p, r, u, "disabled", "absent")
    BY <1>7 DEF EnableRule, DisableRule
  <2> HIDE DEF t, u
  <2> QED
    BY <1>1, <1>2, <2>1, <2>2, <2>3, <2>4
<1>8. ASSUME NEW r \in Rules, ReassignRule(p, r) PROVE IInv'
  <2> DEFINE t == <<"detach", "need", "insert", "replace", "read", "attach">>
  <2>1. t \in Seq(Steps)
    BY DEF Steps
  <2>2. Shaped(t)
    BY DEF Shaped
  <2>3. Supplied(t, "absent")
    BY DEF Supplied
  <2>4. Begin(p, r, t, "absent", "absent")
    BY <1>8 DEF ReassignRule
  <2> HIDE DEF t
  <2> QED
    BY <1>1, <1>2, <2>1, <2>2, <2>3, <2>4
<1>9. ASSUME NEW r \in Rules, ToggleCommand(p, r) PROVE IInv'
  <2> DEFINE t == <<"flip", "set", "flag">>
  <2>1. t \in Seq(Steps)
    BY DEF Steps
  <2>2. Shaped(t)
    BY DEF Shaped
  <2>3. Supplied(t, "absent")
    BY DEF Supplied
  <2>4. Begin(p, r, t, "absent", "absent")
    BY <1>9 DEF ToggleCommand
  <2> HIDE DEF t
  <2> QED
    BY <1>1, <1>2, <2>1, <2>2, <2>3, <2>4
<1>10. ASSUME NEW c \in Connectors, RemoveConnectorCascade(p, c) PROVE IInv'
  <2> DEFINE t == <<"purge">>
             W == {r \in Rules : row[r] # NoRow /\ ConnectorOf(r) = c}
  <2>1. t \in Seq(Steps) /\ W \in SUBSET Rules
    BY DEF Steps
  <2>2. Shaped(t)
    BY DEF Shaped
  <2>3. Supplied(t, "absent")
    BY DEF Supplied
  <2>4. PICK r \in Rules : call' = [call EXCEPT ![p] = NewCall(t, r, "absent", "absent", W)]
    BY <1>10 DEF RemoveConnectorCascade
  <2>5. /\ call[p].todo = <<>> /\ ops < MaxOps /\ ops' = ops + 1
        /\ UNCHANGED <<row, engine, active, host, refused, replaced>>
    BY <1>10 DEF RemoveConnectorCascade
  <2> HIDE DEF t, W
  <2> QED
    BY <1>2, <2>1, <2>2, <2>3, <2>4, <2>5, NewCallKeeps
<1> QED
  BY <1>3, <1>4, <1>5, <1>6, <1>7, <1>8, <1>9, <1>10 DEF ApiCall, ChatCommand

-----------------------------------------------------------------------------
\* The caller's step on its rule, after which it goes on as e, leaves a text that
\* does not compile known ...
KeepsKnown(p, e) ==
    LET r == call[p].rule IN
    \/ r \in refused'
    \/ e.rule = r /\ Offers(e)
    \/ /\ ~ Offers(call[p])
       /\ row'[r].toml = "invalid" => row[r].toml = "invalid"
       /\ e.body = "invalid" /\ SwapAhead(e.todo) =>
             call[p].body = "invalid" /\ SwapAhead(call[p].todo)

\* ... and the row, if it has one, loaded or on its way.
KeepsLoaded(p, e) ==
    LET r == call[p].rule IN
    \/ r \in refused' \/ row'[r] = NoRow \/ engine'[r] # "absent"
    \/ e.rule = r /\ Settles(e)
    \/ \E q \in Callers : q # p /\ Settling(q, r)
    \/ /\ ~ Settles(call[p]) /\ row[r] # NoRow
       /\ row'[r].toml = row[r].toml /\ engine'[r] = engine[r]

\* A step that writes the row or the engine's copy of its rule.
LEMMA WritingStep ==
    ASSUME IInv, NEW p \in Callers, call[p].todo # <<>>, call[p].subs = {},
           UNCHANGED <<active, host, replaced, ops>>,
           row' \in [Rules -> Row \cup {NoRow}], engine' \in [Rules -> Status \cup {"absent"}],
           refused' \in SUBSET Rules, refused \subseteq refused',
           \A x \in Rules : x # call[p].rule => row'[x] = row[x] /\ engine'[x] = engine[x],
           NEW e, CallOK(e), e.subs = {}, Moves(p, e), e.rule = call[p].rule \/ e = Idle,
           KeepsKnown(p, e), KeepsLoaded(p, e)
    PROVE  IInv'
<1> DEFINE r == call[p].rule
<1>1. /\ Calls /\ call \in [Callers -> Call] /\ TypeOK /\ r \in Rules
  BY Here
<1>2. /\ Calls' /\ call' \in [Callers -> Call]
      /\ \A q \in Callers : q # p => call'[q] = call[q]
      /\ call'[p].subs = {} /\ call'[p].todo = e.todo
      /\ call'[p] = e \/ (call'[p] = Idle /\ e.todo = <<>>)
  BY <1>1, Goes DEF Moves
<1>3. TypeOK'
  BY <1>1, <1>2 DEF TypeOK
<1>4. HandlersAccounted' /\ Issued' /\ RecordedIsHeard'
  BY <1>2, HandsKept
<1>5. Idle.body # "invalid" /\ Idle.todo = <<>>
  BY DEF Idle, NewCall
<1>6. ASSUME NEW q \in Callers, q # p, NEW x \in Rules
      PROVE  (Offering(q, x) => Offering(q, x)') /\ (Settling(q, x) => Settling(q, x)')
  BY <1>2, <1>6 DEF Offering, Settling, Offers, Settles
<1>7. ASSUME NEW x \in Rules, e.rule = x, Offers(e) PROVE Offering(p, x)'
  BY <1>2, <1>7 DEF Offering, Offers
<1>8. ASSUME NEW x \in Rules, e.rule = x, Settles(e) PROVE Settling(p, x)'
  BY <1>2, <1>8 DEF Settling, Settles
<1>9. call'[p].body = "invalid" => call'[p] = e /\ e.rule = r
  BY <1>2, <1>5
<1>10. ASSUME NEW x \in Rules PROVE (Offering(p, x) \/ Settling(p, x)) => x = r
  BY DEF Offering, Settling
<1> HIDE DEF r
<1>11. InvalidKnown'
  <2> SUFFICES ASSUME NEW x \in Rules, x \notin refused',
                      \/ row'[x].toml = "invalid"
                      \/ \E q \in Callers : /\ call'[q].rule = x /\ call'[q].body = "invalid"
                                            /\ SwapAhead(call'[q].todo)
               PROVE  \E q \in Callers : Offering(q, x)'
    BY DEF InvalidKnown
  <2>1. x \notin refused
    OBVIOUS
  <2>2. ASSUME \/ row[x].toml = "invalid"
               \/ \E q \in Callers : /\ call[q].rule = x /\ call[q].body = "invalid"
                                     /\ SwapAhead(call[q].todo),
               ~ Offering(p, x)
        PROVE  \E q \in Callers : Offering(q, x)'
    <3>1. PICK q \in Callers : Offering(q, x)
      BY <2>1, <2>2 DEF IInv, InvalidKnown
    <3> QED
      BY <1>6, <2>2, <3>1
  <2>3. CASE x # r
    <3>1. ~ Offering(p, x)
      BY <1>10, <2>3
    <3>2. \/ row[x].toml = "invalid"
          \/ \E q \in Callers : /\ call[q].rule = x /\ call[q].body = "invalid"
                                /\ SwapAhead(call[q].todo)
      BY <1>2, <1>9, <2>3 DEF r
    <3> QED
      BY <2>2, <3>1, <3>2
  <2>4. CASE x = r
    <3>1. CASE e.rule = r /\ Offers(e)
      BY <1>7, <2>4, <3>1
    <3>2. CASE ~ (e.rule = r /\ Offers(e))
      <4>1. /\ ~ Offers(call[p])
            /\ row'[r].toml = "invalid" => row[r].toml = "invalid"
            /\ e.body = "invalid" /\ SwapAhead(e.todo) =>
                  call[p].body = "invalid" /\ SwapAhead(call[p].todo)
        BY <2>4, <3>2 DEF KeepsKnown, r
      <4>2. \/ row[x].toml = "invalid"
            \/ \E q \in Callers : /\ call[q].rule = x /\ call[q].body = "invalid"
                                  /\ SwapAhead(call[q].todo)
        BY <1>2, <1>9, <2>4, <4>1 DEF r
      <4>3. ~ Offering(p, x)
        BY <4>1 DEF Offering
      <4> QED
        BY <2>2, <4>2, <4>3
    <3> QED
      BY <3>1, <3>2
  <2> QED
    BY <2>3, <2>4
<1>12. RowsAreLoaded'
  <2> SUFFICES ASSUME NEW x \in Rules, x \notin refused',
                      row'[x] # NoRow, row'[x].toml # "invalid", engine'[x] = "absent"
               PROVE  \E q \in Callers : Settling(q, x)'
    BY DEF RowsAreLoaded, Settling, Settles, At, Current
  <2>1. ASSUME row[x] # NoRow, row[x].toml # "invalid", engine[x] = "absent", ~ Settling(p, x)
        PROVE  \E q \in Callers : Settling(q, x)'
    <3>1. PICK q \in Callers : Settling(q, x)
      BY <2>1 DEF IInv, RowsAreLoaded, Settling, Settles, At, Current
    <3> QED
      BY <1>6, <2>1, <3>1
  <2>2. CASE x # r
    <3>1. ~ Settling(p, x)
      BY <1>10, <2>2
    <3> QED
      BY <2>1, <2>2, <3>1 DEF r
  <2>3. CASE x = r
    <3>1. \/ e.rule = r /\ Settles(e)
          \/ \E q \in Callers : q # p /\ Settling(q, r)
          \/ /\ ~ Settles(call[p]) /\ row[r] # NoRow
             /\ row'[r].toml = row[r].toml /\ engine'[r] = engine[r]
      BY <2>3 DEF KeepsLoaded, r
    <3>2. CASE e.rule = r /\ Settles(e)
      BY <1>8, <2>3, <3>2
    <3>3. CASE \E q \in Callers : q # p /\ Settling(q, r)
      BY <1>6, <2>3, <3>3
    <3>4. CASE /\ ~ Settles(call[p]) /\ row[r] # NoRow
               /\ row'[r].toml = row[r].toml /\ engine'[r] = engine[r]
      <4>1. ~ Settling(p, x)
        BY <3>4 DEF Settling
      <4> QED
        BY <2>1, <2>3, <3>4, <4>1
    <3> QED
      BY <3>1, <3>2, <3>3, <3>4
  <2> QED
    BY <2>2, <2>3
<1> QED
  BY <1>2, <1>3, <1>4, <1>11, <1>12 DEF IInv

\* The steps in the store.
LEMMA StoreKeeps ==
    ASSUME IInv, NEW p \in Callers, Insert(p) \/ Flag(p) \/ Erase(p)
    PROVE  IInv'
<1> DEFINE s == call[p].todo
           r == call[p].rule
           b == call[p].body
<1>1. s # <<>> /\ Head(s) \in {"insert", "flag", "erase"}
  BY DEF Insert, Flag, Erase, At, Current
<1>2. /\ call[p] \in Call /\ CallOK(call[p]) /\ r \in Rules
      /\ s \in Seq(Steps) /\ Shaped(s) /\ Supplied(s, b) /\ call[p].subs = {}
      /\ TypeOK
  BY <1>1, Here
<1>3. row \in [Rules -> Row \cup {NoRow}] /\ engine \in [Rules -> Status \cup {"absent"}]
      /\ refused \in SUBSET Rules
  BY <1>2 DEF TypeOK
<1>4. UNCHANGED <<engine, active, host, refused, replaced, ops>>
  BY DEF Insert, Flag, Erase
<1>5. NoRow.toml # "invalid" /\ NoRow \notin Row
  BY DEF NoRow, Row, Status
<1>6. /\ Rest(p) \in Call /\ Rest(p).todo = Tail(s) /\ Rest(p).rule = r
      /\ Rest(p).body = b /\ Rest(p).subs = {}
  <2>1. {} \in SUBSET Subscription /\ "absent" \in Body \cup {"absent"}
    OBVIOUS
  <2> QED
    BY <1>1, <1>2, <2>1, RestFacts
<1>7. CallOK(Rest(p)) /\ (SwapAhead(Rest(p).todo) => SwapAhead(s))
  BY <1>1, <1>2, <1>6, Onward
<1>8. Idle.body # "invalid" /\ CallOK(Idle) /\ Idle.subs = {}
  BY IdleOK DEF Idle, NewCall
<1> HIDE DEF s, r, b
<1>9. CASE Insert(p) /\ row[r] = NoRow
  <2>1. row' = [row EXCEPT ![r] = [column |-> StatusOf(b), toml |-> b]] /\ Go(p, Rest(p))
    BY <1>9 DEF Insert, r, b
  <2>2. Head(s) = "insert"
    BY <1>9 DEF Insert, At, Current, s
  <2>3. b \in Body /\ Tail(s) # <<>> /\ Head(Tail(s)) \in {"add", "replace"}
    BY <1>1, <1>2, <2>2, HeadFacts
  <2>4. [column |-> StatusOf(b), toml |-> b] \in Row
    BY <2>3 DEF Row, StatusOf, Body, Status
  <2>5. row' \in [Rules -> Row \cup {NoRow}]
    BY <1>3, <2>1, <2>4
  <2>6. row'[r].toml = b /\ \A x \in Rules : x # r => row'[x] = row[x]
    BY <1>2, <1>3, <2>1
  <2>7. Settles(Rest(p)) /\ (b = "invalid" => Offers(Rest(p)))
    BY <1>6, <2>3 DEF Settles, Offers
  <2>8. ~ Offers(call[p])
    BY <2>2 DEF Offers, s
  <2>9. KeepsKnown(p, Rest(p))
    BY <1>6, <2>6, <2>7, <2>8 DEF KeepsKnown, r
  <2>10. KeepsLoaded(p, Rest(p))
    BY <1>6, <2>7 DEF KeepsLoaded, r
  <2>11. Moves(p, Rest(p))
    BY <2>1 DEF Moves
  <2>12. \A x \in Rules : x # call[p].rule => row'[x] = row[x] /\ engine'[x] = engine[x]
    BY <1>4, <2>6 DEF r
  <2> QED
    BY <1>1, <1>2, <1>3, <1>4, <1>6, <1>7, <2>5, <2>9, <2>10, <2>11, <2>12, WritingStep DEF s, r
<1>10. CASE Return(p) /\ row' = row
  <2>1. Moves(p, Idle)
    BY <1>10 DEF Moves
  <2>2. CASE Head(s) # "erase"
    <3>1. Passive(p) /\ Harmless(p, Idle)
      BY <1>1, <1>8, <2>2 DEF Passive, Harmless, s
    <3> QED
      BY <1>4, <1>8, <1>10, <2>1, <3>1, OwnStep
  <2>3. CASE Head(s) = "erase"
    <3>1. row[r] = NoRow
      <4>1. Erase(p)
        BY <2>3 DEF Insert, Flag, At, Current, s
      <4>2. CASE row[r] # NoRow
        BY <1>3, <1>5, <1>2, <1>10, <4>1, <4>2 DEF Erase, r
      <4> QED
        BY <4>2
    <3>2. ~ Offers(call[p])
      BY <2>3 DEF Offers, s
    <3>3. KeepsKnown(p, Idle)
      BY <1>8, <1>10, <3>2 DEF KeepsKnown
    <3>4. KeepsLoaded(p, Idle)
      BY <1>10, <3>1 DEF KeepsLoaded, r
    <3> QED
      BY <1>1, <1>2, <1>3, <1>4, <1>8, <1>10, <2>1, <3>3, <3>4, WritingStep DEF s
  <2> QED
    BY <2>2, <2>3
<1>11. CASE Flag(p) /\ row[r] # NoRow /\ Go(p, Rest(p)) /\ row' = [row EXCEPT ![r].column = b]
  <2>1. Head(s) = "flag"
    BY <1>11 DEF Flag, At, Current, s
  <2>2. b \in Status
    BY <1>1, <1>2, <2>1, HeadFacts
  <2>3. row[r] \in Row
    BY <1>2, <1>3, <1>11
  <2>4. /\ [row[r] EXCEPT !.column = b] \in Row
        /\ [row[r] EXCEPT !.column = b].toml = row[r].toml
    BY <2>2, <2>3 DEF Row
  <2>5. row' = [row EXCEPT ![r] = [row[r] EXCEPT !.column = b]]
    BY <1>11
  <2>6. row' \in [Rules -> Row \cup {NoRow}]
    BY <1>3, <2>4, <2>5
  <2>7. row'[r].toml = row[r].toml /\ \A x \in Rules : x # r => row'[x] = row[x]
    BY <1>2, <1>3, <2>4, <2>5
  <2>8. ~ Offers(call[p]) /\ ~ Settles(call[p])
    BY <2>1 DEF Offers, Settles, s
  <2>9. KeepsKnown(p, Rest(p))
    BY <1>6, <1>7, <2>7, <2>8 DEF KeepsKnown, r, s, b
  <2>10. KeepsLoaded(p, Rest(p))
    BY <1>4, <1>11, <2>7, <2>8 DEF KeepsLoaded, r
  <2>11. Moves(p, Rest(p))
    BY <1>11 DEF Moves
  <2>12. \A x \in Rules : x # call[p].rule => row'[x] = row[x] /\ engine'[x] = engine[x]
    BY <1>4, <2>7 DEF r
  <2> QED
    BY <1>1, <1>2, <1>3, <1>4, <1>6, <1>7, <2>6, <2>9, <2>10, <2>11, <2>12, WritingStep DEF s, r
<1>12. CASE Erase(p) /\ Go(p, Rest(p)) /\ row' = [row EXCEPT ![r] = NoRow]
  <2>1. Head(s) = "erase"
    BY <1>12 DEF Erase, At, Current, s
  <2>2. row' \in [Rules -> Row \cup {NoRow}]
    BY <1>3, <1>12
  <2>3. row'[r] = NoRow /\ \A x \in Rules : x # r => row'[x] = row[x]
    BY <1>2, <1>3, <1>12
  <2>4. ~ Offers(call[p])
    BY <2>1 DEF Offers, s
  <2>5. KeepsKnown(p, Rest(p))
    BY <1>5, <1>6, <1>7, <2>3, <2>4 DEF KeepsKnown, r, s, b
  <2>6. KeepsLoaded(p, Rest(p))
    BY <2>3 DEF KeepsLoaded, r
  <2>7. Moves(p, Rest(p))
    BY <1>12 DEF Moves
  <2>8. \A x \in Rules : x # call[p].rule => row'[x] = row[x] /\ engine'[x] = engine[x]
    BY <1>4, <2>3 DEF r
  <2> QED
    BY <1>1, <1>2, <1>3, <1>4, <1>6, <1>7, <2>2, <2>5, <2>6, <2>7, <2>8, WritingStep DEF s, r
<1> QED
  BY <1>9, <1>10, <1>11, <1>12 DEF Insert, Flag, Erase, r, b

\* The steps in the engine.
LEMMA EngineKeeps ==
    ASSUME IInv, NEW p \in Callers,
           Add(p) \/ Replace(p) \/ Swap(p) \/ SetStatus(p) \/ Remove(p)
    PROVE  IInv'
<1> DEFINE s == call[p].todo
           r == call[p].rule
           b == call[p].body
<1>1. s # <<>> /\ Head(s) \in {"add", "replace", "swap", "set", "remove"}
  BY DEF Add, Replace, Swap, SetStatus, Remove, At, Current
<1>2. /\ call[p] \in Call /\ CallOK(call[p]) /\ r \in Rules
      /\ s \in Seq(Steps) /\ Shaped(s) /\ Supplied(s, b) /\ call[p].subs = {}
      /\ TypeOK /\ b \in Body \cup {"absent"}
  BY <1>1, Here DEF Call
<1>3. row \in [Rules -> Row \cup {NoRow}] /\ engine \in [Rules -> Status \cup {"absent"}]
      /\ refused \in SUBSET Rules
  BY <1>2 DEF TypeOK
<1>4. UNCHANGED <<row, active, host, replaced, ops>>
  BY DEF Add, Replace, Swap, SetStatus, Remove
<1>5. /\ Rest(p) \in Call /\ Rest(p).todo = Tail(s) /\ Rest(p).rule = r
      /\ Rest(p).body = b /\ Rest(p).subs = {}
  <2>1. {} \in SUBSET Subscription /\ "absent" \in Body \cup {"absent"}
    OBVIOUS
  <2> QED
    BY <1>1, <1>2, <2>1, RestFacts
<1>6. CallOK(Rest(p)) /\ (SwapAhead(Rest(p).todo) => SwapAhead(s))
  BY <1>1, <1>2, <1>5, Onward
<1>7. Idle.body # "invalid" /\ CallOK(Idle) /\ Idle.subs = {}
  BY IdleOK DEF Idle, NewCall
<1> HIDE DEF s, r, b
\* The engine's copy of the rule becomes v and the call goes on as e.
<1>8. ASSUME NEW v \in Status \cup {"absent"}, engine' = [engine EXCEPT ![r] = v],
             refused' \in SUBSET Rules, refused \subseteq refused',
             NEW e, CallOK(e), e.subs = {}, Moves(p, e), e.rule = r \/ e = Idle,
             KeepsKnown(p, e), KeepsLoaded(p, e)
      PROVE  IInv'
  <2>1. engine' \in [Rules -> Status \cup {"absent"}]
    BY <1>3, <1>8
  <2>2. \A x \in Rules : x # call[p].rule => row'[x] = row[x] /\ engine'[x] = engine[x]
    BY <1>3, <1>4, <1>8 DEF r
  <2>3. row' \in [Rules -> Row \cup {NoRow}]
    BY <1>3, <1>4
  <2>4. UNCHANGED <<active, host, replaced, ops>>
    BY <1>4
  <2> QED
    BY <1>1, <1>2, <1>8, <2>1, <2>2, <2>3, <2>4, WritingStep DEF s, r
<1>9. CASE (Add(p) \/ Replace(p)) /\ b # "invalid"
  <2>1. Head(s) \in {"add", "replace"}
    BY <1>9 DEF Add, Replace, At, Current, s
  <2>2. b \in Status
    <3>1. b \in Body
      BY <1>1, <1>2, <2>1, HeadFacts
    <3> QED
      BY <1>9, <3>1 DEF Body
  <2>3. engine' = [engine EXCEPT ![r] = b] /\ refused' = refused
    BY <1>9 DEF Add, Replace, r, b
  <2>4. b # "absent" /\ ~ Offers(call[p]) /\ engine'[r] = b
    BY <1>2, <1>3, <1>9, <2>2, <2>3 DEF Status, Offers, b
  <2> DEFINE f == [Rest(p) EXCEPT !.held = b]
  <2>5. Go(p, Rest(p)) \/ Go(p, f)
    BY <1>9 DEF Add, Replace, b
  <2>6. /\ f \in Call /\ f.todo = Tail(s) /\ f.rule = r /\ f.body = b /\ f.subs = {}
    <3>1. {} \in SUBSET Subscription
      OBVIOUS
    <3> QED
      BY <1>1, <1>2, <3>1, RestFacts DEF s, r, b
  <2> HIDE DEF f
  <2>7. CallOK(f)
    BY <1>1, <1>2, <2>1, <2>6, Onward DEF s, r, b
  <2>8. PICK e : e \in {Rest(p), f} /\ Go(p, e)
    BY <2>5
  <2>9. CallOK(e) /\ e.subs = {} /\ e.rule = r /\ e.body = b /\ Moves(p, e)
    BY <1>5, <1>6, <2>6, <2>7, <2>8 DEF Moves
  <2>10. KeepsKnown(p, e)
    BY <1>4, <1>9, <2>4, <2>9 DEF KeepsKnown
  <2>11. KeepsLoaded(p, e)
    BY <2>4 DEF KeepsLoaded, r
  <2> QED
    BY <1>3, <1>8, <2>2, <2>3, <2>9, <2>10, <2>11
<1>10. CASE Add(p) /\ b = "invalid"
  <2> DEFINE t == <<"erase">>
             e == [call[p] EXCEPT !.todo = t]
  <2>1. refused' = refused \cup {r} /\ engine' = engine /\ Go(p, e)
    BY <1>10 DEF Add, r, b
  <2>2. t \in Seq(Steps) /\ t # <<>>
    BY DEF Steps
  <2>3. Shaped(t) /\ Supplied(t, b)
    BY DEF Shaped, Supplied
  <2> HIDE DEF t
  <2>4. e \in Call /\ e.todo = t /\ e.rule = r /\ e.body = b /\ e.subs = {}
    BY <1>2, <2>2 DEF Call, r, b
  <2> HIDE DEF e
  <2>5. CallOK(e)
    BY <1>2, <2>3, <2>4 DEF CallOK
  <2>6. engine' = [engine EXCEPT ![r] = engine[r]] /\ engine[r] \in Status \cup {"absent"}
    BY <1>2, <1>3, <2>1
  <2>7. r \in refused' /\ refused \subseteq refused' /\ refused' \in SUBSET Rules
    BY <1>2, <1>3, <2>1
  <2>8. KeepsKnown(p, e) /\ KeepsLoaded(p, e) /\ Moves(p, e)
    BY <2>1, <2>7 DEF KeepsKnown, KeepsLoaded, Moves, r
  <2> QED
    BY <1>8, <2>4, <2>5, <2>6, <2>7, <2>8
<1>11. CASE Replace(p) /\ b = "invalid"
  <2>1. refused' = refused \cup {r} /\ engine' = [engine EXCEPT ![r] = "absent"] /\ Return(p)
    BY <1>11 DEF Replace, r, b
  <2>2. r \in refused' /\ refused \subseteq refused' /\ refused' \in SUBSET Rules
    BY <1>2, <1>3, <2>1
  <2>3. KeepsKnown(p, Idle) /\ KeepsLoaded(p, Idle) /\ Moves(p, Idle)
    BY <2>1, <2>2 DEF KeepsKnown, KeepsLoaded, Moves, r
  <2> QED
    BY <1>7, <1>8, <2>1, <2>2, <2>3
<1>12. CASE Swap(p) \/ SetStatus(p) \/ Remove(p)
  <2>1. Go(p, Rest(p)) /\ refused' = refused /\ Head(s) \in {"swap", "set", "remove"}
    BY <1>12 DEF Swap, SetStatus, Remove, At, Current, s
  <2>2. ~ Offers(call[p]) /\ ~ Settles(call[p])
    BY <2>1 DEF Offers, Settles, s
  <2>3. KeepsKnown(p, Rest(p)) /\ Moves(p, Rest(p))
    BY <1>4, <1>5, <1>6, <2>1, <2>2 DEF KeepsKnown, Moves, s, b
  <2>4. ASSUME NEW v \in Status \cup {"absent"}, engine' = [engine EXCEPT ![r] = v],
               \/ v # "absent" \/ v = engine[r]
               \/ Settles(Rest(p))
               \/ r \in refused
               \/ \E q \in Callers : q # p /\ Settling(q, r)
        PROVE  IInv'
    <3>1. engine'[r] = v
      BY <1>2, <1>3, <2>4
    <3>2. KeepsLoaded(p, Rest(p))
      <4>1. row' = row
        BY <1>4
      <4> QED
        BY <1>5, <2>1, <2>2, <2>4, <3>1, <4>1 DEF KeepsLoaded, r
    <3> QED
      BY <1>3, <1>5, <1>6, <1>8, <2>1, <2>3, <2>4, <3>2
  <2>5. engine[r] \in Status \cup {"absent"} /\ engine = [engine EXCEPT ![r] = engine[r]]
    BY <1>2, <1>3
  <2>6. CASE Swap(p)
    <3>1. Head(s) = "swap"
      BY <2>6 DEF Swap, At, Current, s
    <3>2. CASE b = "absent"
      <4>1. engine' = engine
        BY <2>6, <3>2 DEF Swap, b
      <4> QED
        BY <2>4, <2>5, <4>1
    <3>3. CASE b = "invalid"
      <4>1. engine' = [engine EXCEPT ![r] = "absent"]
        BY <2>6, <3>3 DEF Swap, b, r
      <4>2. SwapAhead(s)
        <5>1. Len(s) \in Nat /\ Len(s) >= 1 /\ s[1] = "swap"
          BY <1>1, <1>2, <3>1, TailFacts
        <5> QED
          BY <5>1 DEF SwapAhead
      <4>3. r \in refused \/ \E q \in Callers : Offering(q, r)
        BY <1>2, <3>3, <4>2 DEF IInv, InvalidKnown, r, b, s
      <4>4. \A q \in Callers : Offering(q, r) => q # p /\ Settling(q, r)
        BY <2>2 DEF Offering, Settling, Offers, Settles
      <4> QED
        BY <2>4, <4>1, <4>3, <4>4
    <3>4. CASE b \in Status
      <4>1. engine' = [engine EXCEPT ![r] = b] /\ b # "absent"
        BY <2>6, <3>4 DEF Swap, b, r, Status
      <4> QED
        BY <2>4, <3>4, <4>1
    <3> QED
      BY <1>2, <3>2, <3>3, <3>4 DEF Body
  <2>7. CASE SetStatus(p)
    <3>1. CASE engine[r] = "absent"
      <4>1. engine' = engine
        BY <2>7, <3>1 DEF SetStatus, r
      <4> QED
        BY <2>4, <2>5, <4>1
    <3>2. CASE engine[r] # "absent"
      <4>1. engine' = [engine EXCEPT ![r] = b]
        BY <2>7, <3>2 DEF SetStatus, b, r
      <4>2. Head(s) = "set"
        BY <2>7 DEF SetStatus, At, Current, s
      <4>3. b \in Status
        BY <1>1, <1>2, <4>2, HeadFacts
      <4>4. b # "absent"
        BY <4>3 DEF Status
      <4> QED
        BY <2>4, <4>1, <4>3, <4>4
    <3> QED
      BY <3>1, <3>2
  <2>8. CASE Remove(p)
    <3>1. Head(s) = "remove" /\ engine' = [engine EXCEPT ![r] = "absent"]
      BY <2>8 DEF Remove, At, Current, s, r
    <3>2. Tail(s) # <<>> /\ Head(Tail(s)) = "erase"
      BY <1>1, <1>2, <3>1, HeadFacts
    <3>3. Settles(Rest(p))
      BY <1>5, <3>2 DEF Settles
    <3> QED
      BY <2>4, <3>1, <3>3
  <2> QED
    BY <1>12, <2>6, <2>7, <2>8
<1> QED
  BY <1>9, <1>10, <1>11, <1>12

-----------------------------------------------------------------------------
\* A step in the trigger registry leaves the rules alone: what is left to show
\* is said of subscriptions and handlers.
LEMMA TriggerStep ==
    ASSUME IInv, NEW p \in Callers, call[p].todo # <<>>,
           Head(call[p].todo) \in {"attach", "record", "detach", "unhook", "uninstall"},
           UNCHANGED <<row, engine, refused, ops>>,
           active' \in [Rules -> SUBSET Subscription], host' \in [Connectors -> Host],
           replaced' \in SUBSET Connectors,
           NEW e, CallOK(e), e.rule = call[p].rule, e.body = call[p].body,
           SwapAhead(e.todo) => SwapAhead(call[p].todo), Go(p, e)
    PROVE  /\ TypeOK' /\ Calls' /\ InvalidKnown' /\ RowsAreLoaded'
           /\ \A q \in Callers : q # p => call'[q] = call[q]
           /\ call'[p].subs = e.subs
           /\ e.subs # {} => call'[p] = e
<1>1. Calls /\ call \in [Callers -> Call] /\ TypeOK
  BY Here
<1>2. /\ Calls' /\ call' \in [Callers -> Call]
      /\ \A q \in Callers : q # p => call'[q] = call[q]
      /\ call'[p].subs = e.subs
      /\ call'[p] = e \/ (call'[p] = Idle /\ e.todo = <<>>)
  BY <1>1, Goes
<1>3. TypeOK'
  BY <1>1, <1>2 DEF TypeOK
<1>4. ~ At(p, "add") /\ ~ At(p, "replace") /\ ~ At(p, "erase")
  BY DEF At, Current
<1>5. Idle.body # "invalid"
  BY DEF Idle, NewCall
<1>6. InvalidKnown' /\ RowsAreLoaded'
  BY <1>2, <1>4, <1>5, RowsKept
<1>7. e.subs # {} => call'[p] = e
  BY <1>2 DEF CallOK
<1> QED
  BY <1>2, <1>3, <1>6, <1>7

\* What Issued says of one subscription.
LEMMA IssuedOne ==
    ASSUME Issued, NEW c \in Connectors \ replaced, NEW i \in 1..MaxSubs,
           NEW sub, sub = [connector |-> c, id |-> i]
    PROVE  /\ \A r \in Rules : sub \in active[r] => i < host[c].next
           /\ \A p \in Callers : sub \in call[p].subs => i < host[c].next
           /\ \A r, s \in Rules : sub \in active[r] /\ sub \in active[s] => r = s
           /\ \A p, q \in Callers : sub \in call[p].subs /\ sub \in call[q].subs => p = q
           /\ \A r \in Rules, p \in Callers : ~ (sub \in active[r] /\ sub \in call[p].subs)
           /\ \A p \in Callers : At(p, "record") /\ sub \in call[p].subs =>
                 [id |-> i, rule |-> call[p].rule] \in host[c].handlers
BY DEF Issued

\* attach_rule: the id the host gives out is one that nobody has.
LEMMA AttachKeeps ==
    ASSUME IInv, NEW p \in Callers, Attach(p)
    PROVE  IInv'
<1> DEFINE s == call[p].todo
           r == call[p].rule
           c == ConnectorOf(r)
<1>1. s # <<>> /\ Head(s) = "attach"
  BY DEF Attach, At, Current
<1>2. /\ call[p] \in Call /\ CallOK(call[p]) /\ r \in Rules
      /\ s \in Seq(Steps) /\ Shaped(s) /\ Supplied(s, call[p].body) /\ call[p].subs = {}
      /\ TypeOK
  BY <1>1, Here
<1>3. c \in Connectors
  BY <1>2, RulesAssumption DEF ConnectorOf
<1>4. UNCHANGED <<row, engine, active, refused, replaced, ops>>
  BY DEF Attach
<1>5. /\ active \in [Rules -> SUBSET Subscription] /\ host \in [Connectors -> Host]
      /\ replaced \in SUBSET Connectors
  BY <1>2 DEF TypeOK
<1>6. CASE Go(p, Rest(p)) /\ host' = host
  <2>1. {} \in SUBSET Subscription /\ "absent" \in Body \cup {"absent"}
    OBVIOUS
  <2>2. /\ Rest(p) \in Call /\ Rest(p).todo = Tail(s) /\ Rest(p).rule = r
        /\ Rest(p).body = call[p].body /\ Rest(p).subs = {}
    BY <1>1, <1>2, <2>1, RestFacts
  <2>3. CallOK(Rest(p)) /\ (SwapAhead(Rest(p).todo) => SwapAhead(s))
    BY <1>1, <1>2, <2>2, Onward
  <2>4. Passive(p) /\ Moves(p, Rest(p)) /\ Harmless(p, Rest(p))
    BY <1>1, <1>6, <2>2, <2>3 DEF Passive, Moves, Harmless
  <2> QED
    BY <1>4, <1>6, <2>2, <2>3, <2>4, OwnStep
<1>7. CASE ~ (Go(p, Rest(p)) /\ host' = host)
  <2> DEFINE n == host[c].next
             new == [connector |-> c, id |-> n]
             t == <<"record">> \o Tail(s)
             e == [Then(p, "record") EXCEPT !.subs = {new}]
             hd == [id |-> n, rule |-> r]
  <2>1. n <= MaxSubs /\ host' = [host EXCEPT ![c] = on_event(host[c], r)] /\ Go(p, e)
    BY <1>7 DEF Attach
  <2>2. host[c] \in Host /\ n \in 1..(MaxSubs + 1)
    BY <1>3, <1>5 DEF Host
  <2>3. n \in 1..MaxSubs /\ n + 1 \in 1..(MaxSubs + 1)
    BY <2>1, <2>2, RulesAssumption
  <2>4. new \in Subscription /\ hd \in Handler
    BY <1>2, <1>3, <2>3 DEF Subscription, Handler
  <2>5. /\ t \in Seq(Steps) /\ t # <<>> /\ Head(t) = "record"
        /\ Shaped(t) /\ Supplied(t, call[p].body) /\ (SwapAhead(t) => SwapAhead(s))
    BY <1>1, <1>2, ThenShaped
  <2>6. /\ e \in Call /\ e.todo = t /\ e.rule = r /\ e.body = call[p].body
        /\ e.subs = {new}
    <3>1. Then(p, "record") = [call[p] EXCEPT !.todo = t]
      BY DEF Then
    <3>2. {new} \in SUBSET Subscription
      BY <2>4
    <3> HIDE DEF t, new
    <3>3. /\ Then(p, "record") \in Call /\ Then(p, "record").todo = t
          /\ Then(p, "record").rule = r /\ Then(p, "record").body = call[p].body
      BY <1>2, <2>5, <3>1 DEF Call
    <3> QED
      BY <3>2, <3>3 DEF Call
  <2>7. /\ on_event(host[c], r) \in Host
        /\ on_event(host[c], r).next = n + 1
        /\ on_event(host[c], r).handlers = host[c].handlers \cup {hd}
    BY <2>2, <2>3, <2>4 DEF on_event, Host
  <2>8. /\ host' \in [Connectors -> Host]
        /\ host'[c].next = n + 1 /\ host'[c].handlers = host[c].handlers \cup {hd}
        /\ \A d \in Connectors : d # c => host'[d] = host[d]
    BY <1>3, <1>5, <2>1, <2>7
  <2> HIDE DEF t, e
  <2>9. CallOK(e)
    BY <1>2, <2>5, <2>6 DEF CallOK
  <2>10. /\ active' \in [Rules -> SUBSET Subscription] /\ replaced' \in SUBSET Connectors
    BY <1>4, <1>5
  <2>11. UNCHANGED <<row, engine, refused, ops>>
    BY <1>4
  <2>12. /\ TypeOK' /\ Calls' /\ InvalidKnown' /\ RowsAreLoaded'
         /\ \A q \in Callers : q # p => call'[q] = call[q]
         /\ call'[p] = e
    BY <1>1, <2>1, <2>5, <2>6, <2>8, <2>9, <2>10, <2>11, TriggerStep DEF t
  <2>13. \A q \in Callers : call[q].subs # {} => q # p
    BY <1>2
  <2> HIDE DEF n, new, hd, s, r, c
  <2>14. HandlersAccounted'
    <3> SUFFICES ASSUME NEW d \in Connectors, NEW h \in host'[d].handlers
                 PROVE  \/ [connector |-> d, id |-> h.id] \in active[h.rule]
                        \/ \E q \in Callers : /\ call'[q].rule = h.rule
                                              /\ [connector |-> d, id |-> h.id] \in call'[q].subs
      BY <1>4 DEF HandlersAccounted
    <3>1. CASE h \in host[d].handlers
      <4>1. \/ [connector |-> d, id |-> h.id] \in active[h.rule]
            \/ \E q \in Callers : /\ call[q].rule = h.rule
                                  /\ [connector |-> d, id |-> h.id] \in call[q].subs
        BY <3>1 DEF IInv, HandlersAccounted
      <4> QED
        BY <2>12, <2>13, <4>1
    <3>2. CASE h \notin host[d].handlers
      <4>1. d = c /\ h = hd
        BY <2>8, <3>2
      <4>2. h.id = n /\ h.rule = r
        BY <4>1 DEF hd
      <4>3. call'[p].rule = h.rule /\ [connector |-> d, id |-> h.id] \in call'[p].subs
        BY <2>6, <2>12, <4>1, <4>2 DEF new
      <4> QED
        BY <4>3
    <3> QED
      BY <3>1, <3>2
  <2>15. RecordedIsHeard'
    <3> SUFFICES ASSUME NEW x \in Rules, NEW sub \in active[x], sub.connector \notin replaced
                 PROVE  [id |-> sub.id, rule |-> x] \in host'[sub.connector].handlers
      BY <1>4 DEF RecordedIsHeard
    <3>1. [id |-> sub.id, rule |-> x] \in host[sub.connector].handlers
      BY DEF IInv, RecordedIsHeard
    <3>2. sub.connector \in Connectors
      BY <1>5 DEF Subscription
    <3> QED
      BY <2>8, <3>1, <3>2
  <2>16. Issued'
    <3> SUFFICES ASSUME NEW d \in Connectors \ replaced, NEW i \in 1..MaxSubs, NEW sub,
                        sub = [connector |-> d, id |-> i]
                 PROVE  /\ \A x \in Rules : sub \in active[x] => i < host'[d].next
                        /\ \A q \in Callers : sub \in call'[q].subs => i < host'[d].next
                        /\ \A x, y \in Rules : sub \in active[x] /\ sub \in active[y] => x = y
                        /\ \A q, o \in Callers :
                              sub \in call'[q].subs /\ sub \in call'[o].subs => q = o
                        /\ \A x \in Rules, q \in Callers :
                              ~ (sub \in active[x] /\ sub \in call'[q].subs)
                        /\ \A q \in Callers : At(q, "record")' /\ sub \in call'[q].subs =>
                              [id |-> i, rule |-> call'[q].rule] \in host'[d].handlers
      BY <1>4 DEF Issued
    <3>1. /\ \A x \in Rules : sub \in active[x] => i < host[d].next
          /\ \A q \in Callers : sub \in call[q].subs => i < host[d].next
          /\ \A x, y \in Rules : sub \in active[x] /\ sub \in active[y] => x = y
          /\ \A q, o \in Callers : sub \in call[q].subs /\ sub \in call[o].subs => q = o
          /\ \A x \in Rules, q \in Callers : ~ (sub \in active[x] /\ sub \in call[q].subs)
          /\ \A q \in Callers : At(q, "record") /\ sub \in call[q].subs =>
                [id |-> i, rule |-> call[q].rule] \in host[d].handlers
      BY IssuedOne DEF IInv
    <3>2. ASSUME NEW q \in Callers, q # p, At(q, "record")' PROVE At(q, "record")
      BY <2>12, <3>2 DEF At, Current
    <3>3. /\ host[d].next \in Nat /\ host'[d].next \in Nat
          /\ host'[d].next >= host[d].next
          /\ host[d].handlers \subseteq host'[d].handlers
      <4>1. host[d].next \in 1..(MaxSubs + 1) /\ host'[d].next \in 1..(MaxSubs + 1)
        BY <1>5, <2>8 DEF Host
      <4> QED
        BY <2>2, <2>8, <4>1, RulesAssumption DEF n
    <3>4. CASE sub = new
      <4>1. d = c /\ i = n
        BY <3>4 DEF new
      <4>2. \A q \in Callers : sub \notin call[q].subs
        BY <3>1, <4>1 DEF n
      <4>3. \A x \in Rules : sub \notin active[x]
        BY <3>1, <4>1 DEF n
      <4>4. \A q \in Callers : sub \in call'[q].subs => q = p
        BY <2>12, <4>2
      <4>5. i < host'[d].next /\ [id |-> i, rule |-> call'[p].rule] \in host'[d].handlers
        BY <2>3, <2>6, <2>8, <2>12, <4>1 DEF hd
      <4> QED
        BY <4>3, <4>4, <4>5
    <3>5. CASE sub # new
      <4>1. \A q \in Callers : sub \in call'[q].subs =>
               q # p /\ call'[q] = call[q] /\ sub \in call[q].subs
        BY <2>6, <2>12, <3>5
      <4>2. i < host[d].next => i < host'[d].next
        BY <3>3, RulesAssumption
      <4>3. ASSUME NEW q \in Callers, At(q, "record")', sub \in call'[q].subs
            PROVE  [id |-> i, rule |-> call'[q].rule] \in host'[d].handlers
        BY <3>1, <3>2, <3>3, <4>1, <4>3
      <4> QED
        BY <3>1, <4>1, <4>2, <4>3
    <3> QED
      BY <3>4, <3>5
  <2> QED
    BY <2>12, <2>14, <2>15, <2>16 DEF IInv
<1> QED
  BY <1>6, <1>7

\* The entries of a rule are recorded: from one call's hand into the map.
LEMMA RecordKeeps ==
    ASSUME IInv, NEW p \in Callers, Record(p)
    PROVE  IInv'
<1> DEFINE s == call[p].todo
           r == call[p].rule
           S == call[p].subs
           e == [Rest(p) EXCEPT !.subs = {}]
<1>1. s # <<>> /\ Head(s) = "record" /\ At(p, "record")
  BY DEF Record, At, Current
<1>2. /\ call[p] \in Call /\ CallOK(call[p]) /\ r \in Rules
      /\ s \in Seq(Steps) /\ Shaped(s) /\ Supplied(s, call[p].body)
      /\ TypeOK
  BY <1>1, Here
<1>3. /\ active' = [active EXCEPT ![r] = active[r] \cup S] /\ Go(p, e)
      /\ UNCHANGED <<row, engine, host, refused, replaced, ops>>
  BY DEF Record
<1>4. /\ active \in [Rules -> SUBSET Subscription] /\ host \in [Connectors -> Host]
      /\ replaced \in SUBSET Connectors /\ S \in SUBSET Subscription
  BY <1>2 DEF TypeOK, Call
<1>5. /\ e \in Call /\ e.todo = Tail(s) /\ e.rule = r /\ e.body = call[p].body /\ e.subs = {}
  BY <1>1, <1>2, HandsEmptied
<1> HIDE DEF e
<1>6. CallOK(e) /\ (SwapAhead(e.todo) => SwapAhead(s))
  BY <1>1, <1>2, <1>5, Onward
<1>7. /\ active'[r] = active[r] \cup S /\ \A x \in Rules : x # r => active'[x] = active[x]
      /\ active' \in [Rules -> SUBSET Subscription]
  BY <1>2, <1>3, <1>4
<1>8. host' \in [Connectors -> Host] /\ replaced' \in SUBSET Connectors
      /\ UNCHANGED <<row, engine, refused, ops>>
  BY <1>3, <1>4
<1>9. /\ TypeOK' /\ Calls' /\ InvalidKnown' /\ RowsAreLoaded'
      /\ \A q \in Callers : q # p => call'[q] = call[q]
      /\ call'[p].subs = {}
  BY <1>1, <1>3, <1>5, <1>6, <1>7, <1>8, TriggerStep
<1> HIDE DEF s, r, S
<1>10. HandlersAccounted'
  <2> SUFFICES ASSUME NEW d \in Connectors, NEW h \in host[d].handlers
               PROVE  \/ [connector |-> d, id |-> h.id] \in active'[h.rule]
                      \/ \E q \in Callers : /\ call'[q].rule = h.rule
                                            /\ [connector |-> d, id |-> h.id] \in call'[q].subs
    BY <1>3 DEF HandlersAccounted
  <2>1. \/ [connector |-> d, id |-> h.id] \in active[h.rule]
        \/ \E q \in Callers : /\ call[q].rule = h.rule
                              /\ [connector |-> d, id |-> h.id] \in call[q].subs
    BY DEF IInv, HandlersAccounted
  <2>2. h.rule \in Rules
    BY <1>4 DEF Host, Handler
  <2> QED
    BY <1>7, <1>9, <2>1, <2>2 DEF r, S
<1>11. RecordedIsHeard'
  <2> SUFFICES ASSUME NEW x \in Rules, NEW sub \in active'[x], sub.connector \notin replaced
               PROVE  [id |-> sub.id, rule |-> x] \in host[sub.connector].handlers
    BY <1>3 DEF RecordedIsHeard
  <2>1. CASE sub \in active[x]
    BY <2>1 DEF IInv, RecordedIsHeard
  <2>2. CASE sub \notin active[x]
    <3>1. x = r /\ sub \in S
      BY <1>7, <2>2
    <3>2. /\ sub.connector \in Connectors \ replaced /\ sub.id \in 1..MaxSubs
          /\ sub = [connector |-> sub.connector, id |-> sub.id]
      BY <1>4, <3>1 DEF Subscription
    <3>3. sub \in call[p].subs
      BY <3>1 DEF S
    <3>4. [id |-> sub.id, rule |-> call[p].rule] \in host[sub.connector].handlers
      BY <1>1, <3>2, <3>3, IssuedOne DEF IInv
    <3> QED
      BY <3>1, <3>4 DEF r
  <2> QED
    BY <2>1, <2>2
<1>12. Issued'
  <2> SUFFICES ASSUME NEW d \in Connectors \ replaced, NEW i \in 1..MaxSubs, NEW sub,
                      sub = [connector |-> d, id |-> i]
               PROVE  /\ \A x \in Rules : sub \in active'[x] => i < host[d].next
                      /\ \A q \in Callers : sub \in call'[q].subs => i < host[d].next
                      /\ \A x, y \in Rules : sub \in active'[x] /\ sub \in active'[y] => x = y
                      /\ \A q, o \in Callers : sub \in call'[q].subs /\ sub \in call'[o].subs => q = o
                      /\ \A x \in Rules, q \in Callers : ~ (sub \in active'[x] /\ sub \in call'[q].subs)
                      /\ \A q \in Callers : At(q, "record")' /\ sub \in call'[q].subs =>
                            [id |-> i, rule |-> call'[q].rule] \in host[d].handlers
    BY <1>3 DEF Issued
  <2>1. /\ \A x \in Rules : sub \in active[x] => i < host[d].next
        /\ \A q \in Callers : sub \in call[q].subs => i < host[d].next
        /\ \A x, y \in Rules : sub \in active[x] /\ sub \in active[y] => x = y
        /\ \A q, o \in Callers : sub \in call[q].subs /\ sub \in call[o].subs => q = o
        /\ \A x \in Rules, q \in Callers : ~ (sub \in active[x] /\ sub \in call[q].subs)
        /\ \A q \in Callers : At(q, "record") /\ sub \in call[q].subs =>
              [id |-> i, rule |-> call[q].rule] \in host[d].handlers
    BY IssuedOne DEF IInv
  <2>2. \A q \in Callers : sub \in call'[q].subs => q # p /\ call'[q] = call[q]
    BY <1>9
  <2>3. \A x \in Rules : sub \in active'[x] => sub \in active[x] \/ (x = r /\ sub \in call[p].subs)
    BY <1>7 DEF S
  <2>4. ASSUME NEW q \in Callers, At(q, "record")', sub \in call'[q].subs
        PROVE  [id |-> i, rule |-> call'[q].rule] \in host[d].handlers
    <3>1. At(q, "record") /\ call'[q] = call[q]
      BY <2>2, <2>4 DEF At, Current
    <3> QED
      BY <2>1, <2>4, <3>1
  <2> QED
    BY <2>1, <2>2, <2>3, <2>4
<1> QED
  BY <1>9, <1>10, <1>11, <1>12 DEF IInv

\* detach_rule: from the map into one call's hand.
LEMMA DetachKeeps ==
    ASSUME IInv, NEW p \in Callers, Detach(p)
    PROVE  IInv'
<1> DEFINE s == call[p].todo
           r == call[p].rule
           S == active[r]
           t == <<"unhook">> \o Tail(s)
           f == [Then(p, "unhook") EXCEPT !.subs = S]
<1>1. s # <<>> /\ Head(s) = "detach"
  BY DEF Detach, At, Current
<1>2. /\ call[p] \in Call /\ CallOK(call[p]) /\ r \in Rules
      /\ s \in Seq(Steps) /\ Shaped(s) /\ Supplied(s, call[p].body) /\ call[p].subs = {}
      /\ TypeOK
  BY <1>1, Here
<1>3. /\ active' = [active EXCEPT ![r] = {}]
      /\ Go(p, IF S = {} THEN Rest(p) ELSE f)
      /\ UNCHANGED <<row, engine, host, refused, replaced, ops>>
  BY DEF Detach
<1>4. /\ active \in [Rules -> SUBSET Subscription] /\ host \in [Connectors -> Host]
      /\ replaced \in SUBSET Connectors /\ S \in SUBSET Subscription
  BY <1>2 DEF TypeOK
<1>5. PICK e : /\ Go(p, e) /\ CallOK(e) /\ e.rule = r /\ e.body = call[p].body /\ e.subs = S
               /\ SwapAhead(e.todo) => SwapAhead(s)
               /\ S # {} => Head(e.todo) = "unhook"
  <2>1. CASE S = {}
    <3>1. {} \in SUBSET Subscription /\ "absent" \in Body \cup {"absent"}
      OBVIOUS
    <3>2. /\ Rest(p) \in Call /\ Rest(p).todo = Tail(s) /\ Rest(p).rule = r
          /\ Rest(p).body = call[p].body /\ Rest(p).subs = {}
      BY <1>1, <1>2, <3>1, RestFacts
    <3>3. CallOK(Rest(p)) /\ (SwapAhead(Rest(p).todo) => SwapAhead(s))
      BY <1>1, <1>2, <3>2, Onward
    <3> QED
      BY <1>3, <2>1, <3>2, <3>3
  <2>2. CASE S # {}
    <3>1. /\ t \in Seq(Steps) /\ t # <<>> /\ Head(t) = "unhook"
          /\ Shaped(t) /\ Supplied(t, call[p].body) /\ (SwapAhead(t) => SwapAhead(s))
      BY <1>1, <1>2, ThenShaped
    <3>2. /\ f \in Call /\ f.todo = t /\ f.rule = r /\ f.body = call[p].body /\ f.subs = S
      <4>1. Then(p, "unhook") = [call[p] EXCEPT !.todo = t]
        BY DEF Then
      <4> HIDE DEF t, S
      <4>2. /\ Then(p, "unhook") \in Call /\ Then(p, "unhook").todo = t
            /\ Then(p, "unhook").rule = r /\ Then(p, "unhook").body = call[p].body
        BY <1>2, <3>1, <4>1 DEF Call
      <4> QED
        BY <1>4, <4>2 DEF Call
    <3> HIDE DEF t, f
    <3>3. CallOK(f)
      BY <1>2, <3>1, <3>2 DEF CallOK
    <3> QED
      BY <1>3, <2>2, <3>1, <3>2, <3>3
  <2> QED
    BY <2>1, <2>2
<1>6. /\ active'[r] = {} /\ \A x \in Rules : x # r => active'[x] = active[x]
      /\ active' \in [Rules -> SUBSET Subscription]
  BY <1>2, <1>3, <1>4
<1>7. host' \in [Connectors -> Host] /\ replaced' \in SUBSET Connectors
      /\ UNCHANGED <<row, engine, refused, ops>>
  BY <1>3, <1>4
<1>8. /\ TypeOK' /\ Calls' /\ InvalidKnown' /\ RowsAreLoaded'
      /\ \A q \in Callers : q # p => call'[q] = call[q]
      /\ call'[p].subs = S
      /\ S # {} => call'[p] = e
  BY <1>1, <1>5, <1>6, <1>7, TriggerStep
<1> HIDE DEF s, r, S
<1>9. HandlersAccounted'
  <2> SUFFICES ASSUME NEW d \in Connectors, NEW h \in host[d].handlers
               PROVE  \/ [connector |-> d, id |-> h.id] \in active'[h.rule]
                      \/ \E q \in Callers : /\ call'[q].rule = h.rule
                                            /\ [connector |-> d, id |-> h.id] \in call'[q].subs
    BY <1>3 DEF HandlersAccounted
  <2> DEFINE sub == [connector |-> d, id |-> h.id]
  <2>1. \/ sub \in active[h.rule]
        \/ \E q \in Callers : call[q].rule = h.rule /\ sub \in call[q].subs
    BY DEF IInv, HandlersAccounted
  <2>2. h.rule \in Rules
    BY <1>4 DEF Host, Handler
  <2> HIDE DEF sub
  <2>3. CASE sub \in active[h.rule] /\ h.rule = r
    <3>1. sub \in S
      BY <2>3 DEF S
    <3>2. call'[p].rule = h.rule /\ sub \in call'[p].subs
      BY <1>5, <1>8, <2>3, <3>1
    <3> QED
      BY <3>2 DEF sub
  <2>4. CASE sub \in active[h.rule] /\ h.rule # r
    BY <1>6, <2>2, <2>4 DEF sub
  <2>5. CASE \E q \in Callers : call[q].rule = h.rule /\ sub \in call[q].subs
    BY <1>2, <1>8, <2>5 DEF sub
  <2> QED
    BY <2>1, <2>3, <2>4, <2>5
<1>10. RecordedIsHeard'
  <2> SUFFICES ASSUME NEW x \in Rules, NEW sub \in active'[x], sub.connector \notin replaced
               PROVE  [id |-> sub.id, rule |-> x] \in host[sub.connector].handlers
    BY <1>3 DEF RecordedIsHeard
  <2>1. sub \in active[x]
    BY <1>6
  <2> QED
    BY <2>1 DEF IInv, RecordedIsHeard
<1>11. Issued'
  <2> SUFFICES ASSUME NEW d \in Connectors \ replaced, NEW i \in 1..MaxSubs, NEW sub,
                      sub = [connector |-> d, id |-> i]
               PROVE  /\ \A x \in Rules : sub \in active'[x] => i < host[d].next
                      /\ \A q \in Callers : sub \in call'[q].subs => i < host[d].next
                      /\ \A x, y \in Rules : sub \in active'[x] /\ sub \in active'[y] => x = y
                      /\ \A q, o \in Callers : sub \in call'[q].subs /\ sub \in call'[o].subs => q = o
                      /\ \A x \in Rules, q \in Callers : ~ (sub \in active'[x] /\ sub \in call'[q].subs)
                      /\ \A q \in Callers : At(q, "record")' /\ sub \in call'[q].subs =>
                            [id |-> i, rule |-> call'[q].rule] \in host[d].handlers
    BY <1>3 DEF Issued
  <2>1. /\ \A x \in Rules : sub \in active[x] => i < host[d].next
        /\ \A q \in Callers : sub \in call[q].subs => i < host[d].next
        /\ \A x, y \in Rules : sub \in active[x] /\ sub \in active[y] => x = y
        /\ \A q, o \in Callers : sub \in call[q].subs /\ sub \in call[o].subs => q = o
        /\ \A x \in Rules, q \in Callers : ~ (sub \in active[x] /\ sub \in call[q].subs)
        /\ \A q \in Callers : At(q, "record") /\ sub \in call[q].subs =>
              [id |-> i, rule |-> call[q].rule] \in host[d].handlers
    BY IssuedOne DEF IInv
  <2>2. \A q \in Callers : sub \in call'[q].subs =>
           \/ q # p /\ call'[q] = call[q]
           \/ q = p /\ sub \in active[r] /\ ~ At(q, "record")'
    BY <1>5, <1>8 DEF S, At, Current
  <2>3. \A x \in Rules : sub \in active'[x] => sub \in active[x] /\ x # r
    BY <1>6
  <2>4. ASSUME NEW q \in Callers, At(q, "record")', sub \in call'[q].subs
        PROVE  [id |-> i, rule |-> call'[q].rule] \in host[d].handlers
    <3>1. At(q, "record") /\ call'[q] = call[q]
      BY <2>2, <2>4 DEF At, Current
    <3> QED
      BY <2>1, <2>4, <3>1
  <2> QED
    BY <1>2, <2>1, <2>2, <2>3, <2>4
<1> QED
  BY <1>8, <1>9, <1>10, <1>11 DEF IInv

\* ... and from the hand off the host: of no other rule's handler, on a host
\* that is still the one that gave out the ids.
LEMMA UnhookKeeps ==
    ASSUME IInv, NEW p \in Callers, Unhook(p)
    PROVE  IInv'
<1> DEFINE s == call[p].todo
           r == call[p].rule
           S == call[p].subs
           e == [Rest(p) EXCEPT !.subs = {}]
<1>1. s # <<>> /\ Head(s) = "unhook"
  BY DEF Unhook, At, Current
<1>2. /\ call[p] \in Call /\ CallOK(call[p]) /\ r \in Rules
      /\ s \in Seq(Steps) /\ Shaped(s) /\ Supplied(s, call[p].body)
      /\ TypeOK
  BY <1>1, Here
<1>3. /\ host' = [c \in Connectors |-> RemoveEvent(host[c], c, S)] /\ Go(p, e)
      /\ UNCHANGED <<row, engine, active, refused, replaced, ops>>
  BY DEF Unhook
<1>4. /\ active \in [Rules -> SUBSET Subscription] /\ host \in [Connectors -> Host]
      /\ replaced \in SUBSET Connectors /\ S \in SUBSET Subscription
  BY <1>2 DEF TypeOK, Call
<1>5. /\ e \in Call /\ e.todo = Tail(s) /\ e.rule = r /\ e.body = call[p].body /\ e.subs = {}
  BY <1>1, <1>2, HandsEmptied
<1> HIDE DEF e
<1>6. CallOK(e) /\ (SwapAhead(e.todo) => SwapAhead(s))
  BY <1>1, <1>2, <1>5, Onward
<1>7. ASSUME NEW c \in Connectors
      PROVE  /\ host'[c] \in Host /\ host'[c].next = host[c].next
             /\ host'[c].handlers = {x \in host[c].handlers : [connector |-> c, id |-> x.id] \notin S}
  <2>1. host[c] \in Host /\ host'[c] = RemoveEvent(host[c], c, S)
    BY <1>3, <1>4
  <2> HIDE DEF S
  <2> QED
    BY <2>1 DEF RemoveEvent, Host
<1>8. host' \in [Connectors -> Host] /\ replaced' \in SUBSET Connectors
      /\ UNCHANGED <<row, engine, refused, ops>>
      /\ active' \in [Rules -> SUBSET Subscription]
  BY <1>3, <1>4, <1>7
<1>9. /\ TypeOK' /\ Calls' /\ InvalidKnown' /\ RowsAreLoaded'
      /\ \A q \in Callers : q # p => call'[q] = call[q]
      /\ call'[p].subs = {}
  BY <1>1, <1>3, <1>5, <1>6, <1>8, TriggerStep
<1> HIDE DEF s, r, S
<1>10. HandlersAccounted'
  <2> SUFFICES ASSUME NEW d \in Connectors, NEW h \in host'[d].handlers
               PROVE  \/ [connector |-> d, id |-> h.id] \in active[h.rule]
                      \/ \E q \in Callers : /\ call'[q].rule = h.rule
                                            /\ [connector |-> d, id |-> h.id] \in call'[q].subs
    BY <1>3 DEF HandlersAccounted
  <2>1. h \in host[d].handlers /\ [connector |-> d, id |-> h.id] \notin S
    BY <1>7
  <2>2. \/ [connector |-> d, id |-> h.id] \in active[h.rule]
        \/ \E q \in Callers : /\ call[q].rule = h.rule
                              /\ [connector |-> d, id |-> h.id] \in call[q].subs
    BY <2>1 DEF IInv, HandlersAccounted
  <2> QED
    BY <1>9, <2>1, <2>2 DEF S
<1>11. RecordedIsHeard'
  <2> SUFFICES ASSUME NEW x \in Rules, NEW sub \in active[x], sub.connector \notin replaced
               PROVE  [id |-> sub.id, rule |-> x] \in host'[sub.connector].handlers
    BY <1>3 DEF RecordedIsHeard
  <2>1. [id |-> sub.id, rule |-> x] \in host[sub.connector].handlers
    BY DEF IInv, RecordedIsHeard
  <2>2. /\ sub.connector \in Connectors \ replaced /\ sub.id \in 1..MaxSubs
        /\ sub = [connector |-> sub.connector, id |-> sub.id]
    BY <1>4 DEF Subscription
  <2>3. sub \notin call[p].subs
    BY <2>2, IssuedOne DEF IInv
  <2>4. [id |-> sub.id, rule |-> x].id = sub.id
    OBVIOUS
  <2> QED
    BY <1>7, <2>1, <2>2, <2>3, <2>4 DEF S
<1>12. Issued'
  <2> SUFFICES ASSUME NEW d \in Connectors \ replaced, NEW i \in 1..MaxSubs, NEW sub,
                      sub = [connector |-> d, id |-> i]
               PROVE  /\ \A x \in Rules : sub \in active[x] => i < host'[d].next
                      /\ \A q \in Callers : sub \in call'[q].subs => i < host'[d].next
                      /\ \A x, y \in Rules : sub \in active[x] /\ sub \in active[y] => x = y
                      /\ \A q, o \in Callers : sub \in call'[q].subs /\ sub \in call'[o].subs => q = o
                      /\ \A x \in Rules, q \in Callers : ~ (sub \in active[x] /\ sub \in call'[q].subs)
                      /\ \A q \in Callers : At(q, "record")' /\ sub \in call'[q].subs =>
                            [id |-> i, rule |-> call'[q].rule] \in host'[d].handlers
    BY <1>3 DEF Issued
  <2>1. /\ \A x \in Rules : sub \in active[x] => i < host[d].next
        /\ \A q \in Callers : sub \in call[q].subs => i < host[d].next
        /\ \A x, y \in Rules : sub \in active[x] /\ sub \in active[y] => x = y
        /\ \A q, o \in Callers : sub \in call[q].subs /\ sub \in call[o].subs => q = o
        /\ \A x \in Rules, q \in Callers : ~ (sub \in active[x] /\ sub \in call[q].subs)
        /\ \A q \in Callers : At(q, "record") /\ sub \in call[q].subs =>
              [id |-> i, rule |-> call[q].rule] \in host[d].handlers
    BY IssuedOne DEF IInv
  <2>2. \A q \in Callers : sub \in call'[q].subs => q # p /\ call'[q] = call[q]
    BY <1>9
  <2>3. ASSUME NEW q \in Callers, At(q, "record")', sub \in call'[q].subs
        PROVE  [id |-> i, rule |-> call'[q].rule] \in host'[d].handlers
    <3>1. At(q, "record") /\ call'[q] = call[q] /\ q # p
      BY <2>2, <2>3 DEF At, Current
    <3>2. sub \notin S
      BY <2>1, <2>3, <3>1 DEF S
    <3>3. [id |-> i, rule |-> call[q].rule] \in host[d].handlers
      BY <2>1, <2>3, <3>1
    <3>4. [id |-> i, rule |-> call[q].rule].id = i
      OBVIOUS
    <3> QED
      BY <1>7, <3>1, <3>2, <3>3, <3>4
  <2>4. host'[d].next = host[d].next
    BY <1>7
  <2> QED
    BY <2>1, <2>2, <2>3, <2>4
<1> QED
  BY <1>9, <1>10, <1>11, <1>12 DEF IInv

-----------------------------------------------------------------------------
\* A host without handlers in the place of another: from then on its ids are
\* no longer said to be unique.
LEMMA NewHost ==
    ASSUME IInv, NEW c \in Connectors, NEW h \in Host, h.handlers = {},
           host' = [host EXCEPT ![c] = h], replaced' = replaced \cup {c}, active' = active,
           \A q \in Callers : /\ call'[q].subs = call[q].subs
                              /\ call[q].subs # {} => call'[q] = call[q]
    PROVE  HandlersAccounted' /\ Issued' /\ RecordedIsHeard'
<1>1. host \in [Connectors -> Host] /\ active \in [Rules -> SUBSET Subscription]
  BY DEF IInv, TypeOK
<1>2. host'[c].handlers = {} /\ \A d \in Connectors : d # c => host'[d] = host[d]
  BY <1>1
<1>3. HandlersAccounted'
  <2> SUFFICES ASSUME NEW d \in Connectors, NEW x \in host'[d].handlers
               PROVE  \/ [connector |-> d, id |-> x.id] \in active[x.rule]
                      \/ \E q \in Callers : /\ call'[q].rule = x.rule
                                            /\ [connector |-> d, id |-> x.id] \in call'[q].subs
    BY DEF HandlersAccounted
  <2>1. x \in host[d].handlers
    BY <1>2
  <2>2. \/ [connector |-> d, id |-> x.id] \in active[x.rule]
        \/ \E q \in Callers : /\ call[q].rule = x.rule
                              /\ [connector |-> d, id |-> x.id] \in call[q].subs
    BY <2>1 DEF IInv, HandlersAccounted
  <2> QED
    BY <2>2
<1>4. RecordedIsHeard'
  <2> SUFFICES ASSUME NEW x \in Rules, NEW sub \in active[x], sub.connector \notin replaced'
               PROVE  [id |-> sub.id, rule |-> x] \in host'[sub.connector].handlers
    BY DEF RecordedIsHeard
  <2>1. sub.connector \in Connectors /\ sub.connector # c /\ sub.connector \notin replaced
    BY <1>1 DEF Subscription
  <2>2. [id |-> sub.id, rule |-> x] \in host[sub.connector].handlers
    BY <2>1 DEF IInv, RecordedIsHeard
  <2> QED
    BY <1>2, <2>1, <2>2
<1>5. Issued'
  <2> SUFFICES ASSUME NEW d \in Connectors \ replaced', NEW i \in 1..MaxSubs, NEW sub,
                      sub = [connector |-> d, id |-> i]
               PROVE  /\ \A x \in Rules : sub \in active[x] => i < host'[d].next
                      /\ \A q \in Callers : sub \in call'[q].subs => i < host'[d].next
                      /\ \A x, y \in Rules : sub \in active[x] /\ sub \in active[y] => x = y
                      /\ \A q, o \in Callers : sub \in call'[q].subs /\ sub \in call'[o].subs => q = o
                      /\ \A x \in Rules, q \in Callers : ~ (sub \in active[x] /\ sub \in call'[q].subs)
                      /\ \A q \in Callers : At(q, "record")' /\ sub \in call'[q].subs =>
                            [id |-> i, rule |-> call'[q].rule] \in host'[d].handlers
    BY DEF Issued
  <2>1. d \in Connectors \ replaced /\ host'[d] = host[d]
    BY <1>2
  <2>2. /\ \A x \in Rules : sub \in active[x] => i < host[d].next
        /\ \A q \in Callers : sub \in call[q].subs => i < host[d].next
        /\ \A x, y \in Rules : sub \in active[x] /\ sub \in active[y] => x = y
        /\ \A q, o \in Callers : sub \in call[q].subs /\ sub \in call[o].subs => q = o
        /\ \A x \in Rules, q \in Callers : ~ (sub \in active[x] /\ sub \in call[q].subs)
        /\ \A q \in Callers : At(q, "record") /\ sub \in call[q].subs =>
              [id |-> i, rule |-> call[q].rule] \in host[d].handlers
    BY <2>1, IssuedOne DEF IInv
  <2>3. ASSUME NEW q \in Callers, At(q, "record")', sub \in call'[q].subs
        PROVE  [id |-> i, rule |-> call'[q].rule] \in host'[d].handlers
    <3>1. At(q, "record") /\ call'[q] = call[q]
      BY <2>3 DEF At, Current
    <3> QED
      BY <2>1, <2>2, <2>3, <3>1
  <2> QED
    BY <2>1, <2>2, <2>3
<1> QED
  BY <1>3, <1>4, <1>5

\* Connector set-up, reload and removal, alone and at the end of a cascade.
LEMMA ConnectorKeeps ==
    ASSUME IInv,
           \/ \E c \in Connectors : SetupConnector(c) \/ RemoveConnector(c)
           \/ \E p \in Callers : Uninstall(p)
    PROVE  IInv'
<1>1. FreshHost \in Host /\ GoneHost \in Host /\ FreshHost.handlers = {} /\ GoneHost.handlers = {}
  BY RulesAssumption DEF FreshHost, GoneHost, Host
<1>2. /\ TypeOK /\ host \in [Connectors -> Host] /\ ops \in 0..MaxOps
      /\ replaced \in SUBSET Connectors /\ active \in [Rules -> SUBSET Subscription]
  BY DEF IInv, TypeOK
<1>3. ASSUME NEW c \in Connectors, SetupConnector(c) \/ RemoveConnector(c) PROVE IInv'
  <2>1. PICK h \in {FreshHost, GoneHost} : host' = [host EXCEPT ![c] = h]
    BY <1>3 DEF SetupConnector, RemoveConnector
  <2>2. /\ replaced' = replaced \cup {c} /\ ops < MaxOps /\ ops' = ops + 1
        /\ UNCHANGED <<row, engine, active, call, refused>>
    BY <1>3 DEF SetupConnector, RemoveConnector
  <2>3. h \in Host /\ h.handlers = {}
    BY <1>1
  <2>4. HandlersAccounted' /\ Issued' /\ RecordedIsHeard'
    BY <2>1, <2>2, <2>3, NewHost
  <2>5. host' \in [Connectors -> Host] /\ ops' \in 0..MaxOps /\ replaced' \in SUBSET Connectors
    BY <1>2, <2>1, <2>2, <2>3, RulesAssumption
  <2>6. TypeOK'
    BY <1>2, <2>2, <2>5 DEF TypeOK
  <2>7. Calls' /\ InvalidKnown' /\ RowsAreLoaded'
    BY <2>2 DEF IInv, Calls, InvalidKnown, Offering, RowsAreLoaded, At, Current
  <2> QED
    BY <2>4, <2>6, <2>7 DEF IInv
<1>4. ASSUME NEW p \in Callers, Uninstall(p) PROVE IInv'
  <2> DEFINE s == call[p].todo
             r == call[p].rule
             c == ConnectorOf(r)
  <2>1. s # <<>> /\ Head(s) = "uninstall"
    BY <1>4 DEF Uninstall, At, Current
  <2>2. /\ call[p] \in Call /\ CallOK(call[p]) /\ r \in Rules /\ call[p].subs = {}
    BY <2>1, Here
  <2>3. c \in Connectors
    BY <2>2, RulesAssumption DEF ConnectorOf
  <2>4. /\ host' = [host EXCEPT ![c] = GoneHost] /\ replaced' = replaced \cup {c}
        /\ Go(p, Rest(p)) /\ UNCHANGED <<row, engine, active, refused, ops>>
    BY <1>4 DEF Uninstall
  <2>5. /\ Rest(p) \in Call /\ Rest(p).todo = Tail(s) /\ Rest(p).rule = r
        /\ Rest(p).body = call[p].body /\ Rest(p).subs = {}
    <3>1. {} \in SUBSET Subscription /\ "absent" \in Body \cup {"absent"}
      OBVIOUS
    <3> QED
      BY <2>1, <2>2, <3>1, RestFacts
  <2>6. CallOK(Rest(p)) /\ (SwapAhead(Rest(p).todo) => SwapAhead(s))
    BY <2>1, <2>2, <2>5, Onward
  <2>7. /\ host' \in [Connectors -> Host] /\ replaced' \in SUBSET Connectors
        /\ active' \in [Rules -> SUBSET Subscription] /\ UNCHANGED <<row, engine, refused, ops>>
    BY <1>1, <1>2, <2>3, <2>4
  <2>8. /\ TypeOK' /\ Calls' /\ InvalidKnown' /\ RowsAreLoaded'
        /\ \A q \in Callers : q # p => call'[q] = call[q]
        /\ call'[p].subs = {}
    BY <2>1, <2>4, <2>5, <2>6, <2>7, TriggerStep
  <2>9. \A q \in Callers : call'[q].subs = call[q].subs /\ (call[q].subs # {} => call'[q] = call[q])
    BY <2>2, <2>8
  <2> HIDE DEF c
  <2>10. HandlersAccounted' /\ Issued' /\ RecordedIsHeard'
    BY <1>1, <2>3, <2>4, <2>9, NewHost
  <2> QED
    BY <2>8, <2>10 DEF IInv
<1> QED
  BY <1>3, <1>4

-----------------------------------------------------------------------------
\* What the wiring of a boot leaves behind: each rule it chose has one entry and
\* one handler, under an id its host has issued to it alone.
LEMMA Wired ==
    ASSUME NEW eng, NEW up, NEW w \in Wirings(eng, up)
    PROVE  LET A == WiredActive(w)
               H == WiredHost(w, up) IN
           /\ A \in [Rules -> SUBSET Subscription] /\ H \in [Connectors -> Host]
           /\ \A c \in Connectors : \A h \in H[c].handlers :
                 [connector |-> c, id |-> h.id] \in A[h.rule]
           /\ \A r \in Rules : \A sub \in A[r] :
                 [id |-> sub.id, rule |-> r] \in H[sub.connector].handlers
           /\ \A c \in Connectors, i \in 1..MaxSubs :
                 /\ \A r \in Rules : [connector |-> c, id |-> i] \in A[r] => i < H[c].next
                 /\ \A r, s \in Rules : /\ [connector |-> c, id |-> i] \in A[r]
                                        /\ [connector |-> c, id |-> i] \in A[s]
                                        => r = s
<1> DEFINE D == DOMAIN w
           Mine(c) == {r \in D : ConnectorOf(r) = c}
           A == WiredActive(w)
           H == WiredHost(w, up)
<1>1. D \subseteq Rules /\ w \in [D -> 1..MaxSubs]
  BY DEF Wirings
<1>2. \A r \in D : /\ w[r] <= Cardinality(Mine(ConnectorOf(r)))
                   /\ \A s \in Mine(ConnectorOf(r)) : w[s] = w[r] => s = r
  BY DEF Wirings
<1> HIDE DEF D
<1>3. \A r \in Rules : ConnectorOf(r) \in Connectors
  BY RulesAssumption DEF ConnectorOf
<1>4. ASSUME NEW c
      PROVE  Cardinality(Mine(c)) \in Nat /\ Cardinality(Mine(c)) <= MaxSubs
  <2> DEFINE S == Mine(c)
             T == 1..MaxSubs
             f == [r \in S |-> w[r]]
  <2>1. \A r \in S : w[r] \in T /\ \A s \in S : w[s] = w[r] => s = r
    BY <1>1, <1>2
  <2> HIDE DEF S, T
  <2>2. f \in Injection(S, T)
    BY <2>1 DEF Injection, IsInjective
  <2>3. IsFiniteSet(T) /\ Cardinality(T) = MaxSubs
    BY RulesAssumption, FS_Interval DEF T
  <2> HIDE DEF f
  <2>4. IsFiniteSet(S) /\ Cardinality(S) <= Cardinality(T)
    BY <2>2, <2>3, FS_Injection
  <2>5. Cardinality(S) \in Nat
    BY <2>4, FS_CardinalityType
  <2> QED
    BY <2>3, <2>4, <2>5 DEF S
<1>5. \A r \in Rules : A[r] = IF r \in D THEN {[connector |-> ConnectorOf(r), id |-> w[r]]} ELSE {}
  BY DEF WiredActive, D
<1>6. \A c \in Connectors : /\ H[c].next = Cardinality(Mine(c)) + 1
                            /\ H[c].handlers = {[id |-> w[r], rule |-> r] : r \in Mine(c)}
                            /\ H[c].up = (c \in up)
  BY DEF WiredHost, D
<1>7. A \in [Rules -> SUBSET Subscription]
  <2>1. A = [r \in Rules |-> A[r]]
    BY DEF WiredActive
  <2> HIDE DEF A
  <2>2. ASSUME NEW r \in Rules PROVE A[r] \in SUBSET Subscription
    <3>1. CASE r \in D
      <4>1. [connector |-> ConnectorOf(r), id |-> w[r]] \in Subscription
        BY <1>1, <1>3, <3>1 DEF Subscription
      <4> QED
        BY <1>5, <3>1, <4>1
    <3>2. CASE r \notin D
      BY <1>5, <3>2
    <3> QED
      BY <3>1, <3>2
  <2> QED
    BY <2>1, <2>2
<1>8. H \in [Connectors -> Host]
  <2>1. \A c \in Connectors : Mine(c) \subseteq Rules
    BY <1>1
  <2>2. \A c \in Connectors : {[id |-> w[r], rule |-> r] : r \in Mine(c)} \in SUBSET Handler
    BY <1>1, <2>1 DEF Handler
  <2>3. \A c \in Connectors : Cardinality(Mine(c)) + 1 \in 1..(MaxSubs + 1)
    BY <1>4, RulesAssumption
  <2>4. H = [c \in Connectors |->
               [up |-> c \in up, next |-> Cardinality(Mine(c)) + 1,
                handlers |-> {[id |-> w[r], rule |-> r] : r \in Mine(c)}]]
    BY DEF WiredHost, D
  <2>5. \A c \in Connectors : (c \in up) \in BOOLEAN
    OBVIOUS
  <2> HIDE DEF H, Mine
  <2> QED
    BY <2>2, <2>3, <2>4, <2>5 DEF Host
<1> HIDE DEF A, H
<1>9. ASSUME NEW c \in Connectors, NEW h \in H[c].handlers
      PROVE  [connector |-> c, id |-> h.id] \in A[h.rule]
  <2>1. PICK r \in Mine(c) : h = [id |-> w[r], rule |-> r]
    <3>1. h \in {[id |-> w[r], rule |-> r] : r \in Mine(c)}
      BY <1>6, Zenon
    <3> HIDE DEF Mine
    <3> QED
      BY <3>1, Zenon
  <2>2. h.id = w[r] /\ h.rule = r /\ r \in D /\ r \in Rules /\ ConnectorOf(r) = c
    BY <1>1, <2>1
  <2> QED
    BY <1>5, <2>2
<1>10. ASSUME NEW r \in Rules, NEW sub \in A[r]
       PROVE  [id |-> sub.id, rule |-> r] \in H[sub.connector].handlers
  <2>1. r \in D /\ sub = [connector |-> ConnectorOf(r), id |-> w[r]]
    BY <1>5
  <2>2. sub.connector = ConnectorOf(r) /\ sub.id = w[r] /\ r \in Mine(ConnectorOf(r))
    BY <2>1
  <2> QED
    BY <1>3, <1>6, <2>2
<1>11. ASSUME NEW c \in Connectors, NEW i \in 1..MaxSubs, NEW r \in Rules,
              [connector |-> c, id |-> i] \in A[r]
       PROVE  r \in Mine(c) /\ w[r] = i
  <2>1. CASE r \in D
    <3>1. [connector |-> c, id |-> i] = [connector |-> ConnectorOf(r), id |-> w[r]]
      BY <1>5, <1>11, <2>1
    <3>2. ConnectorOf(r) = c /\ w[r] = i
      BY <3>1
    <3> QED
      BY <2>1, <3>2
  <2>2. CASE r \notin D
    BY <1>5, <1>11, <2>2
  <2> QED
    BY <2>1, <2>2
<1>12. ASSUME NEW c \in Connectors, NEW i \in 1..MaxSubs, NEW r \in Rules,
              [connector |-> c, id |-> i] \in A[r]
       PROVE  i < H[c].next
  <2>1. r \in Mine(c) /\ w[r] = i
    BY <1>11, <1>12
  <2>2. i <= Cardinality(Mine(c))
    BY <1>2, <2>1
  <2>3. Cardinality(Mine(c)) \in Nat
    BY <1>4
  <2> HIDE DEF Mine
  <2> QED
    BY <1>6, <2>2, <2>3
<1>13. ASSUME NEW c \in Connectors, NEW i \in 1..MaxSubs, NEW r \in Rules, NEW s \in Rules,
              [connector |-> c, id |-> i] \in A[r], [connector |-> c, id |-> i] \in A[s]
       PROVE  r = s
  <2>1. r \in Mine(c) /\ w[r] = i /\ s \in Mine(c) /\ w[s] = i
    BY <1>11, <1>13
  <2> QED
    BY <1>2, <2>1
<1> QED
  BY <1>7, <1>8, <1>9, <1>10, <1>12, <1>13 DEF A, H

\* What the loader leaves out, it could not read.
LEMMA Loaded ==
    ASSUME NEW rows \in [Rules -> Row \cup {NoRow}]
    PROVE  /\ LoadedEngine(rows) \in [Rules -> Status \cup {"absent"}]
           /\ \A r \in Rules : rows[r] # NoRow /\ rows[r].toml # "invalid" =>
                 LoadedEngine(rows)[r] # "absent"
<1>1. LoadedEngine(rows) \in [Rules -> Status \cup {"absent"}]
  BY DEF LoadedEngine
<1>2. ASSUME NEW r \in Rules, rows[r] # NoRow, rows[r].toml # "invalid"
      PROVE  LoadedEngine(rows)[r] # "absent"
  <2>1. rows[r].toml \in Status
    BY <1>2 DEF Row, Body
  <2>2. LoadedEngine(rows)[r] = rows[r].toml
    BY <2>1 DEF LoadedEngine
  <2> QED
    BY <2>1, <2>2 DEF Status
<1> QED
  BY <1>1, <1>2

\* The first boot.
LEMMA InitHolds == Init => IInv
<1> SUFFICES ASSUME Init PROVE IInv
  OBVIOUS
<1>1. PICK w \in Wirings(engine, Connectors) :
          active = WiredActive(w) /\ host = WiredHost(w, Connectors)
  BY DEF Init
<1>2. /\ call = [p \in Callers |-> Idle] /\ refused = {} /\ replaced = {} /\ ops = 0
      /\ row \in [Rules -> {NoRow} \cup {[column |-> s, toml |-> s] : s \in Status}]
      /\ engine = LoadedEngine(row)
  BY DEF Init
<1>3. {[column |-> s, toml |-> s] : s \in Status} \subseteq Row
  BY DEF Row, Body
<1>4. row \in [Rules -> Row \cup {NoRow}]
  BY <1>2, <1>3
<1>5. \A p \in Callers : call[p] = Idle
  BY <1>2
<1>6. CallOK(Idle) /\ Idle.todo = <<>> /\ Idle.subs = {} /\ Idle.body # "invalid" /\ Idle \in Call
  BY IdleOK DEF Idle, NewCall, CallOK
<1>7. \A r \in Rules : row[r].toml # "invalid"
  BY <1>2 DEF NoRow, Status
<1>8. TypeOK
  BY <1>1, <1>2, <1>4, <1>6, Wired, Loaded, RulesAssumption DEF TypeOK
<1>9. Calls
  BY <1>5, <1>6 DEF Calls
<1>10. HandlersAccounted /\ RecordedIsHeard
  BY <1>1, Wired DEF HandlersAccounted, RecordedIsHeard
<1>11. Issued
  BY <1>1, <1>5, <1>6, Wired DEF Issued
<1>12. InvalidKnown /\ RowsAreLoaded
  BY <1>2, <1>4, <1>5, <1>6, <1>7, Loaded DEF InvalidKnown, RowsAreLoaded
<1> QED
  BY <1>8, <1>9, <1>10, <1>11, <1>12 DEF IInv

\* Every later one.
LEMMA RestartKeeps ==
    ASSUME IInv, Restart
    PROVE  IInv'
<1> DEFINE up == {c \in Connectors : host[c].up}
<1>1. PICK w \in Wirings(LoadedEngine(row), up) :
          active' = WiredActive(w) /\ host' = WiredHost(w, up)
  BY DEF Restart
<1>2. /\ call' = [p \in Callers |-> Idle] /\ replaced' = {} /\ ops < MaxOps /\ ops' = ops + 1
      /\ refused' = refused \cup {r \in Rules : row[r].toml = "invalid"}
      /\ row' = row /\ engine' = LoadedEngine(row)
  BY DEF Restart
<1>3. row \in [Rules -> Row \cup {NoRow}] /\ ops \in 0..MaxOps /\ refused \in SUBSET Rules
  BY DEF IInv, TypeOK
<1>4. \A p \in Callers : call'[p] = Idle
  BY <1>2
<1>5. CallOK(Idle) /\ Idle.todo = <<>> /\ Idle.subs = {} /\ Idle.body # "invalid" /\ Idle \in Call
  BY IdleOK DEF Idle, NewCall, CallOK
<1>6. \A r \in Rules \ refused' : row'[r].toml # "invalid"
  BY <1>2
<1> HIDE DEF up
<1>7. TypeOK'
  <2>1. ops' \in 0..MaxOps /\ refused' \in SUBSET Rules /\ replaced' \in SUBSET Connectors
    BY <1>2, <1>3, RulesAssumption
  <2>2. active' \in [Rules -> SUBSET Subscription] /\ host' \in [Connectors -> Host]
    BY <1>1, Wired
  <2>3. engine' \in [Rules -> Status \cup {"absent"}] /\ call' \in [Callers -> Call]
    BY <1>2, <1>3, <1>5, Loaded
  <2> QED
    BY <1>2, <1>3, <2>1, <2>2, <2>3 DEF TypeOK
<1>8. Calls'
  BY <1>4, <1>5 DEF Calls
<1>9. HandlersAccounted' /\ RecordedIsHeard'
  BY <1>1, Wired DEF HandlersAccounted, RecordedIsHeard
<1>10. Issued'
  BY <1>1, <1>4, <1>5, Wired DEF Issued
<1>11. InvalidKnown' /\ RowsAreLoaded'
  BY <1>2, <1>3, <1>4, <1>5, <1>6, Loaded DEF InvalidKnown, RowsAreLoaded
<1> QED
  BY <1>7, <1>8, <1>9, <1>10, <1>11 DEF IInv

-----------------------------------------------------------------------------
\* Every step keeps the invariant.
LEMMA NextKeeps ==
    ASSUME IInv, [Next]_vars
    PROVE  IInv'
<1>1. CASE UNCHANGED vars
  <2>1. UNCHANGED <<row, engine, active, host, call, refused, replaced, ops>>
    BY <1>1 DEF vars
  <2>2. TypeOK' /\ Calls' /\ HandlersAccounted' /\ RecordedIsHeard'
    BY <2>1 DEF IInv, TypeOK, Calls, HandlersAccounted, RecordedIsHeard
  <2>3. Issued'
    BY <2>1 DEF IInv, Issued, At, Current
  <2>4. InvalidKnown' /\ RowsAreLoaded'
    BY <2>1 DEF IInv, InvalidKnown, Offering, RowsAreLoaded, At, Current
  <2> QED
    BY <2>2, <2>3, <2>4 DEF IInv
<1>2. ASSUME NEW p \in Callers, Step(p) PROVE IInv'
  BY <1>2, ReadingKeeps, StoreKeeps, EngineKeeps, AttachKeeps, RecordKeeps, DetachKeeps,
     UnhookKeeps, ConnectorKeeps DEF Step
<1> QED
  BY <1>1, <1>2, BeginKeeps, ConnectorKeeps, RestartKeeps DEF Next, Quiet

\* The invariant the properties follow from holds in every reachable state.
THEOREM Inductive == Spec => []IInv
<1>1. IInv /\ [Next]_vars => IInv'
  BY NextKeeps
<1> QED
  BY InitHolds, <1>1, PTL DEF Spec

\* The state of the rules, the registry and the calls stays within its type: no
\* host ever issues more ids than it counts, no call ever loses its rule.
THEOREM TypeCorrect == Spec => []TypeOK
<1>1. IInv => TypeOK
  BY DEF IInv
<1> QED
  BY Inductive, <1>1, PTL

\* No handler leaks: whatever attach, detach, reload and restart overlap, each
\* handler on a host is on record for its rule or in the hands of a call that is
\* recording or removing it.
THEOREM NoHandlerLeaks == Spec => []HandlersAccounted
<1>1. IInv => HandlersAccounted
  BY DEF IInv
<1> QED
  BY Inductive, <1>1, PTL

\* On a host that has not been replaced since boot, detaching a rule removes that
\* rule's handlers and no others: what is on record is heard.
THEOREM RecordsAreHeard == Spec => []RecordedIsHeard
<1>1. IInv => RecordedIsHeard
  BY DEF IInv
<1> QED
  BY Inductive, <1>1, PTL

\* A stored rule whose text compiles is in the engine, or a call is under way
\* that will put it there or delete the row.
THEOREM StoredIsLoaded == Spec => []RowsAreLoaded
<1>1. IInv => RowsAreLoaded
  BY DEF IInv
<1> QED
  BY Inductive, <1>1, PTL
=============================================================================
