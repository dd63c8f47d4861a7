------------------------- MODULE SessionTurnsProofs -------------------------
(* Proofs of the safety properties of SessionTurns, for all constants. *)
EXTENDS SessionTurns, TLAPS, SequenceTheorems, FiniteSetTheorems, WellFoundedInduction

-----------------------------------------------------------------------------
(* Induction *)

\* A set of naturals has a least element.
LEMMA Least ==
    ASSUME NEW S \in SUBSET Nat, S # {}
    PROVE  \E n \in S : \A m \in S : ~(m < n)
  <1> DEFINE R == {ss \in Nat \X Nat : ss[1] < ss[2]}
  <1>1. IsWellFoundedOn(R, Nat)
    BY NatLessThanWellFounded DEF OpToRel
  <1>2. \A m, n \in Nat : m < n => <<m, n>> \in R
    OBVIOUS
  <1> HIDE DEF R
  <1>3. \E n \in S : \A m \in S : <<m, n>> \notin R
    BY <1>1, WFMin
  <1> QED BY <1>2, <1>3

\* A set with 0 and with the successor of each of its members has all naturals.
LEMMA Induction ==
    ASSUME NEW S, 0 \in S, \A n \in Nat : n \in S => n + 1 \in S
    PROVE  Nat \subseteq S
  <1> SUFFICES ASSUME Nat \ S # {} PROVE FALSE
    OBVIOUS
  <1>1. PICK n \in Nat \ S : \A m \in Nat \ S : ~(m < n)
    BY Least
  <1>2. n # 0 /\ n - 1 \in Nat
    BY <1>1
  <1>3. n - 1 \in S
    BY <1>1, <1>2
  <1> QED BY <1>1, <1>2, <1>3

-----------------------------------------------------------------------------
(* The repair of a message list *)

\* The function FlattenSeq applies to its argument exists.
LEMMA FlattenExists ==
    ASSUME NEW s, NEW m \in Nat
    PROVE  \E g : g = [i \in 1 .. m |-> IF i = 1 THEN s[i] ELSE g[i - 1] \o s[i]]
  <1> DEFINE F(n, g) == [i \in 1 .. n |-> IF i = 1 THEN s[i] ELSE g[i - 1] \o s[i]]
             S == {n \in Nat : \E g : g = F(n, g)}
  <1>1. 0 \in S
    <2>1. F(0, <<>>) = <<>>
      OBVIOUS
    <2> QED BY <2>1
  <1>2. ASSUME NEW n \in Nat, n \in S
        PROVE  n + 1 \in S
    <2>1. PICK g : g = F(n, g)
      BY <1>2
    <2> DEFINE h == [i \in 1 .. n + 1 |->
                       IF i <= n THEN g[i]
                       ELSE IF i = 1 THEN s[i] ELSE g[i - 1] \o s[i]]
    <2>2. \A i \in 1 .. n : g[i] = IF i = 1 THEN s[i] ELSE g[i - 1] \o s[i]
      BY <2>1
    <2>3. \A i \in 1 .. n + 1 : h[i] = IF i = 1 THEN s[i] ELSE h[i - 1] \o s[i]
      <3> SUFFICES ASSUME NEW i \in 1 .. n + 1
                   PROVE  h[i] = IF i = 1 THEN s[i] ELSE h[i - 1] \o s[i]
        OBVIOUS
      <3>1. i # 1 => i - 1 \in 1 .. n /\ h[i - 1] = g[i - 1]
        OBVIOUS
      <3> QED BY <2>2, <3>1
    <2> HIDE DEF h
    <2>4. h = F(n + 1, h)
      BY <2>3 DEF h
    <2> HIDE DEF F
    <2>5. \E k : k = F(n + 1, k)
      BY <2>4
    <2>6. n + 1 \in Nat
      OBVIOUS
    <2> QED BY <2>5, <2>6
  <1> HIDE DEF S
  <1>3. m \in S
    BY <1>1, <1>2, Induction
  <1> QED BY <1>3 DEF S

\* FlattenSeq by its partial results.
LEMMA FlattenSteps ==
    ASSUME NEW s, NEW m \in Nat, m # 0, Len(s) = m
    PROVE  \E g : /\ \A i \in 1 .. m : g[i] = IF i = 1 THEN s[i] ELSE g[i - 1] \o s[i]
                  /\ FlattenSeq(s) = g[m]
  <1> DEFINE f == CHOOSE g : g = [i \in 1 .. m |-> IF i = 1 THEN s[i] ELSE g[i - 1] \o s[i]]
  <1>1. f = [i \in 1 .. m |-> IF i = 1 THEN s[i] ELSE f[i - 1] \o s[i]]
    BY FlattenExists
  <1>2. FlattenSeq(s) = f[m]
    BY DEF FlattenSeq
  <1> HIDE DEF f
  <1>3. \A i \in 1 .. m : f[i] = IF i = 1 THEN s[i] ELSE f[i - 1] \o s[i]
    BY <1>1
  <1> QED BY <1>2, <1>3

\* A message and its stub are a list.
LEMMA StubbedSeq ==
    ASSUME NEW e, NEW q
    PROVE  Stubbed(e, q) \in Seq({e, Void(e[2], e[3])})
  <1>1. \A a, b : <<a>> \in Seq({a, b}) /\ <<a, b>> \in Seq({a, b})
    OBVIOUS
  <1> QED BY <1>1 DEF Stubbed

\* What Mended appends for the messages one after the other.
LEMMA MendedSteps ==
    ASSUME NEW q \in Seq(Entries)
    PROVE  \E g : /\ g[0] = <<>>
                  /\ \A i \in 1 .. Len(q) : g[i] = g[i - 1] \o Stubbed(q[i], q)
                  /\ Mended(q) = g[Len(q)]
  <1> DEFINE s == [i \in DOMAIN q |-> Stubbed(q[i], q)]
             m == Len(q)
  <1>1. m \in Nat /\ DOMAIN q = 1 .. m /\ s \in Seq({Stubbed(q[i], q) : i \in 1 .. m})
        /\ Len(s) = m /\ \A i \in 1 .. m : s[i] = Stubbed(q[i], q)
    OBVIOUS
  <1>2. Mended(q) = FlattenSeq(s)
    BY DEF Mended
  <1> HIDE DEF s
  <1>3. \A i \in 1 .. m : <<>> \o s[i] = s[i]
    <2> SUFFICES ASSUME NEW i \in 1 .. m PROVE <<>> \o s[i] = s[i]
      OBVIOUS
    <2>1. s[i] \in Seq({q[i], Void(q[i][2], q[i][3])})
      BY <1>1, StubbedSeq
    <2> QED BY <2>1, ConcatEmptySeq
  <1>4. CASE m = 0
    <2>1. FlattenSeq(s) = <<>>
      BY <1>1, <1>4, EmptySeq DEF FlattenSeq
    <2>2. \E g : g[0] = <<>> /\ g[m] = <<>>
      <3>1. [i \in {0} |-> <<>>][0] = <<>>
        OBVIOUS
      <3> QED BY <3>1, <1>4
    <2> QED BY <1>2, <1>4, <2>1, <2>2
  <1>5. CASE m # 0
    <2>1. PICK f : /\ \A i \in 1 .. m : f[i] = IF i = 1 THEN s[i] ELSE f[i - 1] \o s[i]
                   /\ FlattenSeq(s) = f[m]
      BY <1>1, <1>5, FlattenSteps
    <2> DEFINE g == [i \in 0 .. m |-> IF i = 0 THEN <<>> ELSE f[i]]
    <2>2. g[0] = <<>> /\ \A i \in 1 .. m : g[i] = f[i]
      BY <1>1
    <2>3. \A i \in 2 .. m : g[i - 1] = f[i - 1]
      BY <1>1
    <2> HIDE DEF g
    <2>4. \A i \in 1 .. m : g[i] = g[i - 1] \o s[i]
      <3> SUFFICES ASSUME NEW i \in 1 .. m PROVE g[i] = g[i - 1] \o s[i]
        OBVIOUS
      <3>1. CASE i = 1
        <4>1. i - 1 = 0 /\ f[i] = s[i] /\ g[i] = f[i] /\ <<>> \o s[i] = s[i]
          BY <1>3, <2>1, <2>2, <3>1
        <4> QED BY <2>2, <4>1
      <3>2. CASE i # 1
        <4>1. i \in 2 .. m
          BY <1>1, <3>2
        <4> QED BY <2>1, <2>2, <2>3, <3>2, <4>1
      <3> QED BY <3>1, <3>2
    <2>5. Mended(q) = g[m] /\ \A i \in 1 .. m : g[i] = g[i - 1] \o Stubbed(q[i], q)
      <3>1. m \in 1 .. m
        BY <1>1, <1>5
      <3> QED BY <1>1, <1>2, <2>1, <2>2, <2>4, <3>1
    <2> QED BY <2>2, <2>5
  <1> QED BY <1>4, <1>5

\* The messages a list may hold, by kind.
LEMMA EntryForms ==
    \A e : e \in Entries <=>
        \/ \E m \in Msgs : e \in {User(m), Steer(m)}
        \/ \E t \in Turns : e \in {Reply(t), Sorry(t)}
        \/ \E t \in Turns, h \in 0 .. MaxHops :
              e \in {Call(t, h), Result(t, h), Void(t, h), Draft(t, h)}
  <1>1. \A e : (\E s \in Steps : e \in {Call(s[1], s[2]), Result(s[1], s[2]),
                                        Void(s[1], s[2]), Draft(s[1], s[2])})
               <=> \E t \in Turns, h \in 0 .. MaxHops :
                      e \in {Call(t, h), Result(t, h), Void(t, h), Draft(t, h)}
    <2>1. \A s \in Steps : s[1] \in Turns /\ s[2] \in 0 .. MaxHops
      BY DEF Steps
    <2>2. ASSUME NEW t \in Turns, NEW h \in 0 .. MaxHops
          PROVE  \E s \in Steps : s[1] = t /\ s[2] = h
      <3>1. <<t, h>> \in Steps /\ <<t, h>>[1] = t /\ <<t, h>>[2] = h
        BY DEF Steps
      <3> QED BY <3>1
    <2> QED BY <2>1, <2>2
  <1> QED BY <1>1 DEF Entries

\* A call's stub is a message that answers it, and no call.
LEMMA StubFacts ==
    ASSUME NEW e \in Entries, IsCall(e)
    PROVE  /\ Void(e[2], e[3]) \in Entries
           /\ Void(e[2], e[3])[1] = "void"
           /\ AnswersCall(Void(e[2], e[3]), e)
  <1>1. \E t \in Turns, h \in 0 .. MaxHops : e = <<"call", t, h>>
    BY EntryForms DEF IsCall, User, Steer, Call, Result, Void, Draft, Reply, Sorry
  <1>2. PICK t \in Turns, h \in 0 .. MaxHops : e = <<"call", t, h>>
    BY <1>1
  <1>3. e[2] = t /\ e[3] = h
    BY <1>2
  <1>4. Void(t, h) \in Entries
    BY EntryForms
  <1>5. Void(t, h)[1] = "void" /\ Void(t, h)[2] = t /\ Void(t, h)[3] = h
    BY DEF Void
  <1> QED BY <1>3, <1>4, <1>5 DEF AnswersCall

\* A call without a result in q.
Open(e, q) == IsCall(e) /\ ~Answered(e, q)

\* The same, message by message.
LEMMA MendedAppends ==
    ASSUME NEW q \in Seq(Entries)
    PROVE  \E g : /\ g[0] = <<>>
                  /\ \A i \in 0 .. Len(q) : g[i] \in Seq(Entries)
                  /\ \A i \in 1 .. Len(q) :
                        \/ Open(q[i], q)
                           /\ g[i] = Append(Append(g[i - 1], q[i]), Void(q[i][2], q[i][3]))
                        \/ ~Open(q[i], q) /\ g[i] = Append(g[i - 1], q[i])
                  /\ Mended(q) = g[Len(q)]
  <1>0. Len(q) \in Nat /\ \A i \in 1 .. Len(q) : q[i] \in Entries
    OBVIOUS
  <1>1. PICK g : /\ g[0] = <<>>
                 /\ \A i \in 1 .. Len(q) : g[i] = g[i - 1] \o Stubbed(q[i], q)
                 /\ Mended(q) = g[Len(q)]
    BY MendedSteps
  <1>2. ASSUME NEW i \in 1 .. Len(q), g[i - 1] \in Seq(Entries)
        PROVE  /\ g[i] \in Seq(Entries)
               /\ \/ Open(q[i], q)
                     /\ g[i] = Append(Append(g[i - 1], q[i]), Void(q[i][2], q[i][3]))
                  \/ ~Open(q[i], q) /\ g[i] = Append(g[i - 1], q[i])
    <2> DEFINE e == q[i]
               v == Void(q[i][2], q[i][3])
               p == g[i - 1]
    <2>1. \A a, b \in Entries : \A s \in Seq(Entries) :
             s \o <<a>> = Append(s, a) /\ s \o <<a, b>> = Append(Append(s, a), b)
      OBVIOUS
    <2>2. e \in Entries /\ p \in Seq(Entries) /\ g[i] = p \o Stubbed(e, q)
      BY <1>0, <1>1, <1>2
    <2> HIDE DEF e, p
    <2>3. CASE Open(e, q)
      <3>1. v \in Entries
        BY <2>2, <2>3, StubFacts DEF Open, e
      <3>2. Stubbed(e, q) = <<e, v>>
        BY <2>3 DEF Stubbed, Open, e
      <3>3. g[i] = Append(Append(p, e), v)
        BY <2>1, <2>2, <3>1, <3>2
      <3> QED BY <2>2, <2>3, <3>1, <3>3 DEF e, p
    <2>4. CASE ~Open(e, q)
      <3>1. Stubbed(e, q) = <<e>>
        BY <2>4 DEF Stubbed, Open
      <3> QED BY <2>1, <2>2, <2>4, <3>1 DEF e, p
    <2> QED BY <2>3, <2>4
  <1> DEFINE S == {n \in Nat : n <= Len(q) => g[n] \in Seq(Entries)}
  <1>3. 0 \in S
    <2>1. g[0] \in Seq(Entries)
      BY <1>1, EmptySeq
    <2> QED BY <2>1
  <1>4. ASSUME NEW n \in Nat, n \in S
        PROVE  n + 1 \in S
    <2> SUFFICES ASSUME n + 1 <= Len(q) PROVE g[n + 1] \in Seq(Entries)
      OBVIOUS
    <2>1. n + 1 \in 1 .. Len(q) /\ (n + 1) - 1 = n /\ g[n] \in Seq(Entries)
      BY <1>0, <1>4
    <2> QED BY <1>2, <2>1
  <1> HIDE DEF S
  <1>5. Nat \subseteq S
    BY <1>3, <1>4, Induction
  <1>6. \A i \in 0 .. Len(q) : g[i] \in Seq(Entries)
    BY <1>0, <1>5 DEF S
  <1>7. \A i \in 1 .. Len(q) : g[i - 1] \in Seq(Entries)
    BY <1>0, <1>6
  <1> QED BY <1>1, <1>2, <1>6, <1>7

\* The elements after Append.
LEMMA ToSetAppend ==
    ASSUME NEW S, NEW q \in Seq(S), NEW e \in S
    PROVE  ToSet(Append(q, e)) = ToSet(q) \cup {e}
  <1>1. /\ DOMAIN Append(q, e) = 1 .. Len(q) + 1 /\ DOMAIN q = 1 .. Len(q)
        /\ \A i \in 1 .. Len(q) : Append(q, e)[i] = q[i]
        /\ Append(q, e)[Len(q) + 1] = e
        /\ Len(q) \in Nat
    OBVIOUS
  <1>2. \A x : (\E i \in 1 .. Len(q) + 1 : Append(q, e)[i] = x)
               <=> (\E i \in 1 .. Len(q) : q[i] = x) \/ x = e
    <2> SUFFICES ASSUME NEW x
                 PROVE  (\E i \in 1 .. Len(q) + 1 : Append(q, e)[i] = x)
                        <=> (\E i \in 1 .. Len(q) : q[i] = x) \/ x = e
      OBVIOUS
    <2>1. \A i \in 1 .. Len(q) + 1 : i \in 1 .. Len(q) \/ i = Len(q) + 1
      BY <1>1
    <2>2. Len(q) + 1 \in 1 .. Len(q) + 1 /\ \A i \in 1 .. Len(q) : i \in 1 .. Len(q) + 1
      BY <1>1
    <2> HIDE <1>1
    <2> QED BY <1>1, <2>1, <2>2
  <1> QED BY <1>1, <1>2 DEF ToSet

\* The repair keeps every message and adds stubs of calls only.
LEMMA MendedElems ==
    ASSUME NEW q \in Seq(Entries)
    PROVE  /\ Mended(q) \in Seq(Entries)
           /\ ToSet(q) \subseteq ToSet(Mended(q))
           /\ \A e \in ToSet(Mended(q)) : e \in ToSet(q) \/
                 \E c \in ToSet(q) : IsCall(c) /\ e = Void(c[2], c[3])
  <1>0. Len(q) \in Nat /\ \A i \in 1 .. Len(q) : q[i] \in Entries
    OBVIOUS
  <1>1. PICK g : /\ g[0] = <<>>
                 /\ \A i \in 0 .. Len(q) : g[i] \in Seq(Entries)
                 /\ \A i \in 1 .. Len(q) :
                       \/ Open(q[i], q)
                          /\ g[i] = Append(Append(g[i - 1], q[i]), Void(q[i][2], q[i][3]))
                       \/ ~Open(q[i], q) /\ g[i] = Append(g[i - 1], q[i])
                 /\ Mended(q) = g[Len(q)]
    BY MendedAppends
  <1> DEFINE P(n) == /\ \A i \in 1 .. n : q[i] \in ToSet(g[n])
                     /\ \A e \in ToSet(g[n]) : \E i \in 1 .. n :
                           e = q[i] \/ (IsCall(q[i]) /\ e = Void(q[i][2], q[i][3]))
             S == {n \in Nat : n <= Len(q) => P(n)}
  <1>2. 0 \in S
    <2>1. ToSet(g[0]) = {}
      BY <1>1 DEF ToSet
    <2> QED BY <2>1
  <1>3. ASSUME NEW n \in Nat, n \in S
        PROVE  n + 1 \in S
    <2> SUFFICES ASSUME n + 1 <= Len(q) PROVE P(n + 1)
      OBVIOUS
    <2> DEFINE e == q[n + 1]
               v == Void(q[n + 1][2], q[n + 1][3])
    <2>1. n + 1 \in 1 .. Len(q) /\ (n + 1) - 1 = n /\ n \in 0 .. Len(q) /\ n <= Len(q)
      BY <1>0
    <2>2. P(n) /\ e \in Entries /\ g[n] \in Seq(Entries)
      BY <1>0, <1>1, <1>3, <2>1
    <2>3. ToSet(g[n + 1]) = ToSet(g[n]) \cup {e} \cup (IF Open(e, q) THEN {v} ELSE {})
      <3>1. CASE Open(e, q)
        <4>1. v \in Entries
          BY <2>2, <3>1, StubFacts DEF Open
        <4>2. Append(g[n], e) \in Seq(Entries)
          BY <2>2
        <4>3. g[n + 1] = Append(Append(g[n], e), v)
          BY <1>1, <2>1, <3>1
        <4> HIDE DEF e, v
        <4>4. ToSet(Append(g[n], e)) = ToSet(g[n]) \cup {e}
          BY <2>2, ToSetAppend
        <4>5. \A a \in Seq(Entries) : ToSet(Append(a, v)) = ToSet(a) \cup {v}
          BY <4>1, ToSetAppend
        <4>6. ToSet(g[n + 1]) = ToSet(Append(g[n], e)) \cup {v}
          BY <4>2, <4>3, <4>5
        <4> QED BY <3>1, <4>4, <4>6
      <3>2. CASE ~Open(e, q)
        <4>1. g[n + 1] = Append(g[n], e)
          BY <1>1, <2>1, <3>2
        <4> HIDE DEF e, v
        <4> QED BY <2>2, <3>2, <4>1, ToSetAppend
      <3> QED BY <3>1, <3>2
    <2>4. Open(e, q) => IsCall(e)
      BY DEF Open
    <2>5. \A i \in 1 .. n + 1 : i \in 1 .. n \/ i = n + 1
      OBVIOUS
    <2>6. \A i \in 1 .. n + 1 : q[i] \in ToSet(g[n + 1])
      BY <2>2, <2>3, <2>5
    <2>7. \A x \in ToSet(g[n + 1]) : \E i \in 1 .. n + 1 :
             x = q[i] \/ (IsCall(q[i]) /\ x = Void(q[i][2], q[i][3]))
      <3> SUFFICES ASSUME NEW x \in ToSet(g[n + 1])
                   PROVE  \E i \in 1 .. n + 1 :
                             x = q[i] \/ (IsCall(q[i]) /\ x = Void(q[i][2], q[i][3]))
        OBVIOUS
      <3>1. CASE x \in ToSet(g[n])
        <4>1. \A i \in 1 .. n : i \in 1 .. n + 1
          OBVIOUS
        <4> QED BY <2>2, <3>1, <4>1
      <3>2. ASSUME x = e \/ (x = v /\ IsCall(e))
            PROVE  \E i \in 1 .. n + 1 :
                      x = q[i] \/ (IsCall(q[i]) /\ x = Void(q[i][2], q[i][3]))
        <4>1. n + 1 \in 1 .. n + 1
          OBVIOUS
        <4> QED BY <3>2, <4>1
      <3>3. x \in ToSet(g[n]) \/ x = e \/ (x = v /\ IsCall(e))
        <4> HIDE DEF e, v
        <4> QED BY <2>3, <2>4
      <3> QED BY <3>1, <3>2, <3>3
    <2> QED BY <2>6, <2>7
  <1> HIDE DEF S
  <1>4. Len(q) \in S
    BY <1>0, <1>2, <1>3, Induction
  <1>5. P(Len(q))
    BY <1>0, <1>4 DEF S
  <1>6. ToSet(q) = {q[i] : i \in 1 .. Len(q)}
    BY DEF ToSet
  <1>7. Mended(q) \in Seq(Entries)
    BY <1>0, <1>1
  <1> QED BY <1>1, <1>5, <1>6, <1>7

\* A list whose calls are answered at once or not at all.
Regular(q) ==
    \A i \in DOMAIN q :
        /\ IsCall(q[i]) => Open(q[i], q) \/ (i < Len(q) /\ AnswersCall(q[i + 1], q[i]))
        /\ q[i][1] \in {"result", "void"} =>
              i > 1 /\ IsCall(q[i - 1]) /\ AnswersCall(q[i], q[i - 1])

\* Paired, but for a call at the end.
NearlyPaired(q) ==
    \A i \in DOMAIN q :
        /\ IsCall(q[i]) /\ i < Len(q) => AnswersCall(q[i + 1], q[i])
        /\ q[i][1] \in {"result", "void"} =>
              i > 1 /\ IsCall(q[i - 1]) /\ AnswersCall(q[i], q[i - 1])

\* An answer to the call at the end, or no answer after no call, keeps a list so.
LEMMA NearlyAppend ==
    ASSUME NEW q \in Seq(Entries), NEW e \in Entries, NearlyPaired(q),
           q # <<>> /\ IsCall(q[Len(q)]) => AnswersCall(e, q[Len(q)]),
           e[1] \in {"result", "void"} =>
              q # <<>> /\ IsCall(q[Len(q)]) /\ AnswersCall(e, q[Len(q)])
    PROVE  NearlyPaired(Append(q, e))
  <1> DEFINE r == Append(q, e)
  <1>1. /\ r \in Seq(Entries) /\ Len(r) = Len(q) + 1 /\ r[Len(q) + 1] = e
        /\ \A i \in 1 .. Len(q) : r[i] = q[i]
        /\ Len(q) \in Nat /\ DOMAIN r = 1 .. Len(q) + 1 /\ DOMAIN q = 1 .. Len(q)
        /\ q # <<>> => Len(q) # 0
    OBVIOUS
  <1> HIDE DEF r
  <1> SUFFICES ASSUME NEW i \in 1 .. Len(q) + 1
               PROVE  /\ IsCall(r[i]) /\ i < Len(r) => AnswersCall(r[i + 1], r[i])
                      /\ r[i][1] \in {"result", "void"} =>
                            i > 1 /\ IsCall(r[i - 1]) /\ AnswersCall(r[i], r[i - 1])
    BY <1>1 DEF NearlyPaired, r
  <1>2. CASE i = Len(q) + 1
    <2>1. r[i] = e /\ ~(i < Len(r)) /\ i - 1 = Len(q)
      BY <1>1, <1>2
    <2>2. q # <<>> => i > 1 /\ r[i - 1] = q[Len(q)]
      BY <1>1, <1>2
    <2> QED BY <2>1, <2>2
  <1>3. CASE i < Len(q)
    <2>1. i \in 1 .. Len(q) /\ r[i] = q[i] /\ r[i + 1] = q[i + 1] /\ i \in DOMAIN q
      BY <1>1, <1>3
    <2>2. i > 1 => r[i - 1] = q[i - 1]
      BY <1>1, <1>3
    <2> QED BY <1>3, <2>1, <2>2 DEF NearlyPaired
  <1>4. CASE i = Len(q)
    <2>1. r[i] = q[i] /\ r[i + 1] = e /\ i \in DOMAIN q /\ q # <<>>
      BY <1>1, <1>4
    <2>2. i > 1 => r[i - 1] = q[i - 1]
      BY <1>1, <1>4
    <2> QED BY <1>4, <2>1, <2>2 DEF NearlyPaired
  <1>5. i = Len(q) + 1 \/ i < Len(q) \/ i = Len(q)
    <2>1. Len(q) \in Nat
      OBVIOUS
    <2> QED BY <2>1
  <1> QED BY <1>2, <1>3, <1>4, <1>5

\* A list so with no call at the end is paired, and the other way round.
LEMMA PairedNearly ==
    ASSUME NEW q \in Seq(Entries)
    PROVE  Paired(q) <=> NearlyPaired(q) /\ (q # <<>> => ~IsCall(q[Len(q)]))
  <1>1. DOMAIN q = 1 .. Len(q) /\ Len(q) \in Nat /\ (q = <<>> <=> Len(q) = 0)
    OBVIOUS
  <1>2. ASSUME Paired(q)
        PROVE  NearlyPaired(q) /\ (q # <<>> => ~IsCall(q[Len(q)]))
    <2>1. NearlyPaired(q)
      BY <1>2 DEF Paired, NearlyPaired
    <2>2. q # <<>> => ~IsCall(q[Len(q)])
      BY <1>1, <1>2 DEF Paired
    <2> QED BY <2>1, <2>2
  <1>3. ASSUME NearlyPaired(q), q # <<>> => ~IsCall(q[Len(q)])
        PROVE  Paired(q)
    <2> SUFFICES ASSUME NEW i \in 1 .. Len(q)
                 PROVE  /\ IsCall(q[i]) => i < Len(q) /\ AnswersCall(q[i + 1], q[i])
                        /\ q[i][1] \in {"result", "void"} =>
                              i > 1 /\ IsCall(q[i - 1]) /\ AnswersCall(q[i], q[i - 1])
      BY <1>1 DEF Paired
    <2>1. IsCall(q[i]) => i < Len(q)
      BY <1>1, <1>3
    <2> QED BY <1>1, <1>3, <2>1 DEF NearlyPaired
  <1> QED BY <1>2, <1>3

\* The repair of a list whose calls are answered at once or not at all pairs
\* it, and leaves a beginning without open calls as it is.
LEMMA MendedPaired ==
    ASSUME NEW q \in Seq(Entries), Regular(q)
    PROVE  Paired(Mended(q))
  <1>0. Len(q) \in Nat /\ \A i \in 1 .. Len(q) : q[i] \in Entries /\ i \in DOMAIN q
    OBVIOUS
  <1>1. PICK g : /\ g[0] = <<>>
                 /\ \A i \in 0 .. Len(q) : g[i] \in Seq(Entries)
                 /\ \A i \in 1 .. Len(q) :
                       \/ Open(q[i], q)
                          /\ g[i] = Append(Append(g[i - 1], q[i]), Void(q[i][2], q[i][3]))
                       \/ ~Open(q[i], q) /\ g[i] = Append(g[i - 1], q[i])
                 /\ Mended(q) = g[Len(q)]
    BY MendedAppends
  <1> DEFINE P(n) ==
               /\ NearlyPaired(g[n])
               /\ g[n] # <<>> /\ IsCall(g[n][Len(g[n])]) =>
                     n > 0 /\ g[n][Len(g[n])] = q[n] /\ ~Open(q[n], q)
               /\ n > 0 /\ IsCall(q[n]) /\ ~Open(q[n], q) =>
                     g[n] # <<>> /\ g[n][Len(g[n])] = q[n]
             S == {n \in Nat : n <= Len(q) => P(n)}
  <1>2. 0 \in S
    <2>1. NearlyPaired(g[0]) /\ g[0] = <<>>
      BY <1>1 DEF NearlyPaired
    <2> QED BY <2>1
  <1>3. ASSUME NEW n \in Nat, n \in S
        PROVE  n + 1 \in S
    <2> SUFFICES ASSUME n + 1 <= Len(q) PROVE P(n + 1)
      OBVIOUS
    <2> DEFINE e == q[n + 1]
               v == Void(q[n + 1][2], q[n + 1][3])
    <2>1. n + 1 \in 1 .. Len(q) /\ (n + 1) - 1 = n /\ n \in 0 .. Len(q) /\ n <= Len(q)
          /\ n + 1 > 0 /\ (n > 0 => n \in 1 .. Len(q)) /\ n + 1 \in DOMAIN q
      BY <1>0
    <2>2. P(n) /\ e \in Entries /\ g[n] \in Seq(Entries)
      BY <1>0, <1>1, <1>3, <2>1
    <2>3. g[n] # <<>> /\ IsCall(g[n][Len(g[n])]) => AnswersCall(e, g[n][Len(g[n])])
      <3> SUFFICES ASSUME g[n] # <<>>, IsCall(g[n][Len(g[n])])
                   PROVE  AnswersCall(e, g[n][Len(g[n])])
        OBVIOUS
      <3>1. n > 0 /\ g[n][Len(g[n])] = q[n] /\ ~Open(q[n], q) /\ IsCall(q[n])
        BY <2>2
      <3>2. AnswersCall(q[n + 1], q[n])
        BY <1>0, <2>1, <3>1 DEF Regular
      <3> QED BY <3>1, <3>2
    <2>4. e[1] \in {"result", "void"} =>
             g[n] # <<>> /\ IsCall(g[n][Len(g[n])]) /\ AnswersCall(e, g[n][Len(g[n])])
      <3> SUFFICES ASSUME e[1] \in {"result", "void"}
                   PROVE  g[n] # <<>> /\ IsCall(g[n][Len(g[n])])
                          /\ AnswersCall(e, g[n][Len(g[n])])
        OBVIOUS
      <3>1. n + 1 > 1 /\ IsCall(q[(n + 1) - 1]) /\ AnswersCall(q[n + 1], q[(n + 1) - 1])
        BY <2>1 DEF Regular
      <3>2. n > 0 /\ IsCall(q[n]) /\ AnswersCall(e, q[n])
        BY <2>1, <3>1
      <3>3. ~Open(q[n], q)
        BY <2>1, <3>2 DEF Open, Answered, ToSet
      <3> QED BY <2>2, <3>2, <3>3
    <2>5. /\ NearlyPaired(Append(g[n], e)) /\ Append(g[n], e) \in Seq(Entries)
          /\ Append(g[n], e) # <<>> /\ Append(g[n], e)[Len(Append(g[n], e))] = e
      <3> HIDE DEF e, P
      <3>1. NearlyPaired(g[n])
        BY <2>2 DEF P
      <3>2. NearlyPaired(Append(g[n], e))
        BY <2>2, <2>3, <2>4, <3>1, NearlyAppend
      <3> QED BY <2>2, <3>2
    <2>6. CASE Open(e, q)
      <3>1. /\ v \in Entries /\ v[1] = "void" /\ AnswersCall(v, e) /\ IsCall(e)
        BY <2>2, <2>6, StubFacts DEF Open
      <3>2. g[n + 1] = Append(Append(g[n], e), v)
        BY <1>1, <2>1, <2>6
      <3> HIDE DEF e, v
      <3>3. NearlyPaired(g[n + 1])
        BY <2>5, <3>1, <3>2, NearlyAppend
      <3>4. g[n + 1] # <<>> /\ g[n + 1][Len(g[n + 1])] = v /\ ~IsCall(v)
        BY <2>5, <3>1, <3>2 DEF IsCall
      <3> QED BY <2>6, <3>3, <3>4 DEF e
    <2>7. CASE ~Open(e, q)
      <3>1. g[n + 1] = Append(g[n], e)
        BY <1>1, <2>1, <2>7
      <3> QED BY <2>1, <2>5, <2>7, <3>1
    <2> QED BY <2>6, <2>7
  <1> HIDE DEF S
  <1>4. Len(q) \in S
    BY <1>0, <1>2, <1>3, Induction
  <1>5. P(Len(q))
    BY <1>0, <1>4 DEF S
  <1>6. ~(g[Len(q)] # <<>> /\ IsCall(g[Len(q)][Len(g[Len(q)])]))
    <2> SUFFICES ASSUME g[Len(q)] # <<>>, IsCall(g[Len(q)][Len(g[Len(q)])])
                 PROVE  FALSE
      OBVIOUS
    <2>1. Len(q) > 0 /\ IsCall(q[Len(q)]) /\ ~Open(q[Len(q)], q)
      BY <1>5
    <2>2. Len(q) \in DOMAIN q
      BY <1>0, <2>1
    <2> QED BY <1>0, <2>1, <2>2 DEF Regular
  <1>7. g[Len(q)] \in Seq(Entries)
    BY <1>0, <1>1
  <1> QED BY <1>1, <1>5, <1>6, <1>7, PairedNearly

\* The repair leaves a beginning without open calls as it is.
LEMMA MendedBeginning ==
    ASSUME NEW q \in Seq(Entries), NEW k \in 0 .. Len(q),
           \A i \in 1 .. k : ~Open(q[i], q)
    PROVE  Len(Mended(q)) >= Len(q) /\ \A i \in 1 .. k : Mended(q)[i] = q[i]
  <1>0. Len(q) \in Nat /\ \A i \in 1 .. Len(q) : q[i] \in Entries
    OBVIOUS
  <1>1. PICK g : /\ g[0] = <<>>
                 /\ \A i \in 0 .. Len(q) : g[i] \in Seq(Entries)
                 /\ \A i \in 1 .. Len(q) :
                       \/ Open(q[i], q)
                          /\ g[i] = Append(Append(g[i - 1], q[i]), Void(q[i][2], q[i][3]))
                       \/ ~Open(q[i], q) /\ g[i] = Append(g[i - 1], q[i])
                 /\ Mended(q) = g[Len(q)]
    BY MendedAppends
  <1> DEFINE P(n) == /\ Len(g[n]) >= n
                     /\ n <= k => Len(g[n]) = n
                     /\ \A i \in 1 .. n : i <= k => g[n][i] = q[i]
             S == {n \in Nat : n <= Len(q) => P(n)}
  <1>2. 0 \in S
    BY <1>1
  <1>3. ASSUME NEW n \in Nat, n \in S
        PROVE  n + 1 \in S
    <2> SUFFICES ASSUME n + 1 <= Len(q) PROVE P(n + 1)
      OBVIOUS
    <2> DEFINE e == q[n + 1]
               v == Void(q[n + 1][2], q[n + 1][3])
    <2>1. n + 1 \in 1 .. Len(q) /\ (n + 1) - 1 = n /\ n \in 0 .. Len(q) /\ n <= Len(q)
      BY <1>0
    <2>2. P(n) /\ e \in Entries /\ g[n] \in Seq(Entries)
      BY <1>0, <1>1, <1>3, <2>1
    <2>3. \A q1 \in Seq(Entries), a, b \in Entries :
             /\ Len(Append(q1, a)) = Len(q1) + 1
             /\ \A i \in 1 .. Len(q1) : Append(q1, a)[i] = q1[i]
             /\ Append(q1, a)[Len(q1) + 1] = a
             /\ Len(Append(Append(q1, a), b)) = Len(q1) + 2
             /\ \A i \in 1 .. Len(q1) : Append(Append(q1, a), b)[i] = q1[i]
             /\ Append(Append(q1, a), b)[Len(q1) + 1] = a
      OBVIOUS
    <2>4. /\ Len(g[n + 1]) >= Len(g[n]) + 1
          /\ ~Open(e, q) => Len(g[n + 1]) = Len(g[n]) + 1
          /\ \A i \in 1 .. Len(g[n]) : g[n + 1][i] = g[n][i]
          /\ g[n + 1][Len(g[n]) + 1] = e
          /\ Len(g[n]) \in Nat
      <3>1. CASE Open(e, q)
        <4>1. v \in Entries
          BY <2>2, <3>1, StubFacts DEF Open
        <4>2. g[n + 1] = Append(Append(g[n], e), v)
          BY <1>1, <2>1, <3>1
        <4> HIDE DEF e, v
        <4> QED BY <2>2, <2>3, <3>1, <4>1, <4>2
      <3>2. CASE ~Open(e, q)
        <4>1. g[n + 1] = Append(g[n], e)
          BY <1>1, <2>1, <3>2
        <4> HIDE DEF e, v
        <4> QED BY <2>2, <2>3, <3>2, <4>1
      <3> QED BY <3>1, <3>2
    <2>5. n + 1 <= k => ~Open(e, q)
      BY <2>1
    <2> HIDE DEF e
    <2>6. Len(g[n + 1]) >= n + 1 /\ (n + 1 <= k => Len(g[n + 1]) = n + 1)
      BY <2>2, <2>4, <2>5
    <2>7. ASSUME NEW i \in 1 .. n + 1, i <= k
          PROVE  g[n + 1][i] = q[i]
      <3>1. CASE i = n + 1
        <4>1. Len(g[n]) = n
          BY <2>2, <2>7, <3>1
        <4> QED BY <2>4, <3>1, <4>1 DEF e
      <3>2. CASE i # n + 1
        <4>1. i \in 1 .. n /\ i \in 1 .. Len(g[n])
          BY <2>2, <2>4, <3>2
        <4> QED BY <2>2, <2>4, <2>7, <4>1
      <3> QED BY <3>1, <3>2
    <2> QED BY <2>6, <2>7
  <1> HIDE DEF S
  <1>4. Len(q) \in S
    BY <1>0, <1>2, <1>3, Induction
  <1>5. P(Len(q))
    BY <1>0, <1>4 DEF S
  <1>6. \A i \in 1 .. k : i \in 1 .. Len(q) /\ i <= k
    BY <1>0
  <1> QED BY <1>1, <1>5, <1>6

\* The list holds each steering message once at most.
SteersOnce(q) ==
    \A i, j \in DOMAIN q : q[i] = q[j] /\ q[i][1] = "steer" => i = j

\* A message that is not steering, or not there yet, keeps it so.
LEMMA SteersAppend ==
    ASSUME NEW q \in Seq(Entries), SteersOnce(q), NEW e \in Entries,
           e[1] = "steer" => e \notin ToSet(q)
    PROVE  SteersOnce(Append(q, e))
  <1> DEFINE r == Append(q, e)
  <1>1. /\ DOMAIN r = 1 .. Len(q) + 1 /\ DOMAIN q = 1 .. Len(q) /\ Len(q) \in Nat
        /\ \A i \in 1 .. Len(q) : r[i] = q[i]
        /\ r[Len(q) + 1] = e
    OBVIOUS
  <1> HIDE DEF r
  <1>2. \A i \in 1 .. Len(q) : r[i] \in ToSet(q)
    BY <1>1 DEF ToSet
  <1> SUFFICES ASSUME NEW i \in 1 .. Len(q) + 1, NEW j \in 1 .. Len(q) + 1,
                      r[i] = r[j], r[i][1] = "steer", i < j
               PROVE  FALSE
    BY <1>1 DEF SteersOnce, r
  <1>3. i \in 1 .. Len(q)
    BY <1>1
  <1>4. CASE j = Len(q) + 1
    BY <1>1, <1>2, <1>3, <1>4
  <1>5. CASE j \in 1 .. Len(q)
    BY <1>1, <1>3, <1>5 DEF SteersOnce
  <1> QED BY <1>1, <1>4, <1>5

\* The repair adds no steering message.
LEMMA MendedSteers ==
    ASSUME NEW q \in Seq(Entries), SteersOnce(q)
    PROVE  SteersOnce(Mended(q))
  <1>0. Len(q) \in Nat /\ \A i \in 1 .. Len(q) : q[i] \in Entries
    OBVIOUS
  <1>1. PICK g : /\ g[0] = <<>>
                 /\ \A i \in 0 .. Len(q) : g[i] \in Seq(Entries)
                 /\ \A i \in 1 .. Len(q) :
                       \/ Open(q[i], q)
                          /\ g[i] = Append(Append(g[i - 1], q[i]), Void(q[i][2], q[i][3]))
                       \/ ~Open(q[i], q) /\ g[i] = Append(g[i - 1], q[i])
                 /\ Mended(q) = g[Len(q)]
    BY MendedAppends
  <1> DEFINE P(n) == /\ SteersOnce(g[n])
                     /\ \A x \in ToSet(g[n]) : x[1] = "steer" => \E i \in 1 .. n : x = q[i]
             S == {n \in Nat : n <= Len(q) => P(n)}
  <1>2. 0 \in S
    BY <1>1 DEF SteersOnce, ToSet
  <1>3. ASSUME NEW n \in Nat, n \in S
        PROVE  n + 1 \in S
    <2> SUFFICES ASSUME n + 1 <= Len(q) PROVE P(n + 1)
      OBVIOUS
    <2> DEFINE e == q[n + 1]
               v == Void(q[n + 1][2], q[n + 1][3])
    <2>1. n + 1 \in 1 .. Len(q) /\ (n + 1) - 1 = n /\ n \in 0 .. Len(q) /\ n <= Len(q)
      BY <1>0
    <2>2. P(n) /\ e \in Entries /\ g[n] \in Seq(Entries)
      BY <1>0, <1>1, <1>3, <2>1
    <2>3. e[1] = "steer" => e \notin ToSet(g[n])
      <3> SUFFICES ASSUME e[1] = "steer", e \in ToSet(g[n]) PROVE FALSE
        OBVIOUS
      <3>1. PICK i \in 1 .. n : e = q[i]
        BY <2>2
      <3>2. i \in DOMAIN q /\ n + 1 \in DOMAIN q /\ i # n + 1
        BY <1>0, <2>1
      <3> QED BY <3>1, <3>2 DEF SteersOnce
    <2>4. /\ SteersOnce(Append(g[n], e)) /\ Append(g[n], e) \in Seq(Entries)
          /\ ToSet(Append(g[n], e)) = ToSet(g[n]) \cup {e}
      <3> HIDE DEF e
      <3> QED BY <2>2, <2>3, SteersAppend, ToSetAppend
    <2>5. /\ SteersOnce(g[n + 1])
          /\ \A x \in ToSet(g[n + 1]) : x[1] = "steer" => x \in ToSet(g[n]) \/ x = e
      <3>1. CASE Open(e, q)
        <4>1. v \in Entries /\ v[1] = "void"
          BY <2>2, <3>1, StubFacts DEF Open
        <4>2. g[n + 1] = Append(Append(g[n], e), v)
          BY <1>1, <2>1, <3>1
        <4> HIDE DEF e, v
        <4>3. \A a \in Seq(Entries) : ToSet(Append(a, v)) = ToSet(a) \cup {v}
          BY <4>1, ToSetAppend
        <4>4. ToSet(g[n + 1]) = ToSet(g[n]) \cup {e} \cup {v}
          BY <2>4, <4>2, <4>3
        <4>5. SteersOnce(g[n + 1])
          BY <2>4, <4>1, <4>2, SteersAppend
        <4> QED BY <4>1, <4>4, <4>5
      <3>2. CASE ~Open(e, q)
        <4>1. g[n + 1] = Append(g[n], e)
          BY <1>1, <2>1, <3>2
        <4> HIDE DEF e, v
        <4> QED BY <2>4, <4>1
      <3> QED BY <3>1, <3>2
    <2>6. \A x \in ToSet(g[n + 1]) : x[1] = "steer" => \E i \in 1 .. n + 1 : x = q[i]
      <3>1. \A i \in 1 .. n : i \in 1 .. n + 1
        OBVIOUS
      <3>2. n + 1 \in 1 .. n + 1
        OBVIOUS
      <3> QED BY <2>2, <2>5, <3>1, <3>2
    <2> QED BY <2>5, <2>6
  <1> HIDE DEF S
  <1>4. Len(q) \in S
    BY <1>0, <1>2, <1>3, Induction
  <1> QED BY <1>0, <1>1, <1>4 DEF S

-----------------------------------------------------------------------------
(* Types *)

ConnTypes ==
    /\ conn \in [Conns -> {"new", "open", "closed", "hungup", "gone"}]
    /\ rd \in [Conns -> Msgs \cup {None}] /\ wd \in [Conns -> Msgs \cup {None}]
    /\ queue \in [Conns -> Seq(Msgs \cup {Bye})]
    /\ owner \in Conns \cup {None}
GateTypes == active \in Turns \cup {None} /\ flagged \in BOOLEAN
TaskTypes ==
    /\ by \in [Turns -> Conns \cup {None}] /\ user \in [Turns -> Msgs \cup {None}]
    /\ msgs \in [Turns -> Seq(Entries)] /\ hops \in [Turns -> 0 .. MaxHops]
RunTypes ==
    /\ pc \in [Turns -> Alive \cup {"unused", "done", "over", "lost"}]
    /\ kills \in [Turns -> Nat] /\ save \in [Turns -> Seq(Entries)]
AgentTypes ==
    /\ evOwner \in Turns \cup {None} /\ cancelSet \subseteq Turns
    /\ stash \in [turn : Turns, len : Nat] \cup {None}
    /\ steerq \in Seq(Msgs) /\ hist \in Seq(Entries) \cup {None}
    /\ cps \in Seq([turn : Turns, len : Nat, blind : BOOLEAN])
StoreTypes ==
    disk \in Seq(Entries) /\ log \in Seq(Entries) /\ writes \subseteq Seq(Entries)
UserTypes ==
    /\ sent \subseteq Msgs /\ asked \subseteq Turns /\ told \in [Turns -> Nat]
    /\ steered \subseteq Msgs /\ requeued \subseteq Msgs
    /\ answered \subseteq Turns /\ removed \subseteq Turns
    /\ used \in [Events -> Nat]
Types == ConnTypes /\ GateTypes /\ TaskTypes /\ RunTypes /\ AgentTypes /\ StoreTypes
         /\ UserTypes

\* A turn that was started has a loop and a message, asks for a tool only while
\* it has hops left, and is stashed once its messages are built.
TurnData ==
    /\ \A t \in Turns : pc[t] # "unused" => by[t] \in Conns /\ user[t] \in Msgs
    /\ \A t \in Turns : pc[t] \in {"splice", "llm", "ask", "tool"} => hops[t] < MaxHops
    /\ stash # None =>
          /\ pc[stash.turn] \notin {"unused", "created"} \cup Early
          /\ stash.len <= Len(msgs[stash.turn])

\* The steering that is being spliced, and the state of the store.
SpliceTypes ==
    /\ todo \in [Turns -> Seq(Msgs)] /\ shared \subseteq Turns
    /\ spliced \subseteq Turns \X Msgs
    /\ down \in BOOLEAN /\ stale \in BOOLEAN

TypeInv == Types /\ TurnData /\ SpliceTypes

\* The constructors make entries.
LEMMA MakeEntries ==
    /\ \A m \in Msgs : User(m) \in Entries /\ Steer(m) \in Entries
    /\ \A t \in Turns : Reply(t) \in Entries /\ Sorry(t) \in Entries
    /\ \A t \in Turns, h \in 0 .. MaxHops :
          /\ Call(t, h) \in Entries /\ Result(t, h) \in Entries
          /\ Void(t, h) \in Entries /\ Draft(t, h) \in Entries
  BY EntryForms

\* The beginning of a sequence.
LEMMA Beginning ==
    ASSUME NEW X, NEW q \in Seq(X)
    PROVE  /\ \A i \in DOMAIN q : q[i] \in X
           /\ \A n \in 0 .. Len(q) :
                 /\ SubSeq(q, 1, n) \in Seq(X) /\ Len(SubSeq(q, 1, n)) = n
                 /\ \A i \in 1 .. n : SubSeq(q, 1, n)[i] = q[i]
           /\ DOMAIN q = 1 .. Len(q) /\ Len(q) \in Nat
           /\ \A i \in DOMAIN q : SubSeq(q, 1, i) \in Seq(X)
  OBVIOUS

\* The list of a stash is a beginning of the turn's messages.
LEMMA StashedType ==
    ASSUME TypeInv, stash # None
    PROVE  Stashed \in Seq(Entries)
  <1>1. stash.turn \in Turns /\ stash.len \in Nat /\ msgs[stash.turn] \in Seq(Entries)
        /\ stash.len <= Len(msgs[stash.turn])
    BY DEF TypeInv, Types, AgentTypes, TaskTypes, TurnData
  <1>2. SubSeq(msgs[stash.turn], 1, stash.len) \in Seq(Entries)
    BY <1>1
  <1> QED BY <1>1, <1>2 DEF Stashed

\* So is what the recovery makes of it, and of a history without one.
LEMMA RecoveredType ==
    ASSUME NEW q \in Seq(Entries), NEW t \in Turns
    PROVE  Recovered(q, t) \in Seq(Entries)
  <1>1. Mended(q) \in Seq(Entries) /\ Sorry(t) \in Entries
    BY MendedElems, MakeEntries
  <1> QED BY <1>1 DEF Recovered

\* The list of a failed turn is a list of messages.
LEMMA ApologyType ==
    ASSUME NEW q \in Seq(Entries), NEW m \in Msgs, NEW t \in Turns
    PROVE  Apology(q, m, t) \in Seq(Entries)
  <1>1. User(m) \in Entries /\ Sorry(t) \in Entries
    BY MakeEntries
  <1> QED BY <1>1 DEF Apology

\* The finally block keeps the types.
LEMMA LeaveTypes ==
    ASSUME TypeInv, NEW t \in Turns, NEW ok \in BOOLEAN, pc[t] \in Alive, Leave(t, ok)
    PROVE  /\ evOwner' \in Turns \cup {None} /\ steerq' \in Seq(Msgs)
           /\ hist' \in Seq(Entries) \cup {None}
           /\ save' \in [Turns -> Seq(Entries)]
           /\ \E x \in Ending : pc' = [pc EXCEPT ![t] = x]
           /\ answered' \subseteq Turns
  <1>1. user[t] \in Msgs /\ Hist \in Seq(Entries)
    BY DEF TypeInv, Types, TurnData, AgentTypes, Alive, Early, Working, Ending, Hist
  <1>2. stash # None => Stashed \in Seq(Entries)
    BY StashedType
  <1>3. /\ stash # None => Recovered(Stashed, t) \in Seq(Entries)
        /\ Apology(Hist, user[t], t) \in Seq(Entries)
    BY <1>1, <1>2, RecoveredType, ApologyType
  <1>4. \/ hist' = hist /\ save' = [save EXCEPT ![t] = Hist]
        \/ hist' \in Seq(Entries) /\ save' = [save EXCEPT ![t] = hist']
    BY <1>3 DEF Leave
  <1>5. hist' \in Seq(Entries) \cup {None} /\ save' \in [Turns -> Seq(Entries)]
    BY <1>1, <1>4 DEF TypeInv, Types, AgentTypes, RunTypes
  <1>6. \E x \in Ending : pc' = [pc EXCEPT ![t] = x]
    BY DEF Leave, Ending
  <1>7. answered' \subseteq Turns
    BY DEF Leave, TypeInv, Types, UserTypes
  <1>8. evOwner' \in Turns \cup {None} /\ steerq' \in Seq(Msgs)
    BY DEF Leave, Unqueue
  <1> QED BY <1>5, <1>6, <1>7, <1>8

\* What no action touches keeps its type.
LEMMA TypeFrame ==
    ASSUME Types
    PROVE  /\ UNCHANGED connVars => ConnTypes'
           /\ UNCHANGED gateVars => GateTypes'
           /\ UNCHANGED taskVars => TaskTypes'
           /\ UNCHANGED runVars => RunTypes'
           /\ UNCHANGED agentVars => AgentTypes'
           /\ UNCHANGED storeVars => StoreTypes'
           /\ UNCHANGED userVars /\ used' \in [Events -> Nat] => UserTypes'
  <1>1. UNCHANGED connVars => ConnTypes'
    BY DEF Types, connVars, ConnTypes
  <1>2. UNCHANGED gateVars => GateTypes'
    BY DEF Types, gateVars, GateTypes
  <1>3. UNCHANGED taskVars => TaskTypes'
    BY DEF Types, taskVars, TaskTypes
  <1>4. UNCHANGED runVars => RunTypes'
    BY DEF Types, runVars, RunTypes, Alive, Early, Working, Ending
  <1>5. UNCHANGED agentVars => AgentTypes'
    BY DEF Types, agentVars, AgentTypes
  <1>6. UNCHANGED storeVars => StoreTypes'
    BY DEF Types, storeVars, StoreTypes
  <1>7. UNCHANGED userVars /\ used' \in [Events -> Nat] => UserTypes'
    BY DEF Types, userVars, UserTypes
  <1> QED BY <1>1, <1>2, <1>3, <1>4, <1>5, <1>6, <1>7

\* Counting an event keeps the type of the counters.
LEMMA SpendTypes ==
    ASSUME Types, NEW e \in Events, Spend(e) \/ UNCHANGED used
    PROVE  used' \in [Events -> Nat]
  BY DEF Types, UserTypes, Spend

\* Steps that start no turn, build no messages and ask for no tool keep the
\* data of the turns.
LEMMA TurnDataFrame ==
    ASSUME TurnData, UNCHANGED <<by, user, msgs, hops>>, stash' \in {stash, None},
           \A t \in Turns : pc'[t] # pc[t] =>
               /\ pc[t] # "unused" /\ pc'[t] \notin {"unused", "splice", "llm", "ask"}
               /\ pc'[t] = "tool" => pc[t] = "ask"
               /\ pc'[t] \in {"created"} \cup Early => pc[t] \in {"created"} \cup Early,
           stash # None => stash.turn \in Turns
    PROVE  TurnData'
  <1>1. \A t \in Turns : pc'[t] # "unused" => by'[t] \in Conns /\ user'[t] \in Msgs
    BY DEF TurnData
  <1>2. \A t \in Turns : pc'[t] \in {"splice", "llm", "ask", "tool"} => hops'[t] < MaxHops
    BY DEF TurnData
  <1>3. stash' # None =>
            /\ pc'[stash'.turn] \notin {"unused", "created"} \cup Early
            /\ stash'.len <= Len(msgs'[stash'.turn])
    BY DEF TurnData
  <1> QED BY <1>1, <1>2, <1>3 DEF TurnData

\* A turn at work that adds messages keeps the data of the turns.
LEMMA TurnDataGrow ==
    ASSUME Types, TurnData, NEW t \in Turns, NEW x \in Seq(Entries), NEW y \in Working,
           UNCHANGED <<by, user>>, pc[t] \in Working,
           msgs' = [msgs EXCEPT ![t] = x], Len(x) >= Len(msgs[t]),
           pc' = [pc EXCEPT ![t] = y],
           \A u \in Turns : u # t => hops'[u] = hops[u],
           y \in {"splice", "llm", "ask", "tool"} => hops'[t] < MaxHops,
           stash' = stash \/ (stash'.turn = t /\ stash'.len <= Len(x))
    PROVE  TurnData'
  <1>1. /\ pc \in [Turns -> Alive \cup {"unused", "done", "over", "lost"}]
        /\ msgs \in [Turns -> Seq(Entries)]
        /\ stash # None => stash.turn \in Turns /\ stash.len \in Nat
    BY DEF Types, RunTypes, TaskTypes, AgentTypes
  <1>2. /\ pc'[t] = y /\ msgs'[t] = x
        /\ \A u \in Turns : u # t => pc'[u] = pc[u] /\ msgs'[u] = msgs[u]
    BY <1>1
  <1>3. \A u \in Turns : pc'[u] # "unused" => by'[u] \in Conns /\ user'[u] \in Msgs
    BY <1>2 DEF TurnData, Working
  <1>4. \A u \in Turns : pc'[u] \in {"splice", "llm", "ask", "tool"} => hops'[u] < MaxHops
    BY <1>2 DEF TurnData
  <1>5. y \notin {"unused", "created"} \cup Early
    BY DEF Working, Early
  <1>6. stash' # None =>
            /\ pc'[stash'.turn] \notin {"unused", "created"} \cup Early
            /\ stash'.len <= Len(msgs'[stash'.turn])
    <2>1. CASE stash'.turn = t /\ stash'.len <= Len(x)
      BY <1>2, <1>5, <2>1
    <2>2. CASE stash' = stash
      <3> SUFFICES ASSUME stash # None
                   PROVE  /\ pc'[stash.turn] \notin {"unused", "created"} \cup Early
                          /\ stash.len <= Len(msgs'[stash.turn])
        BY <2>2
      <3>1. /\ pc[stash.turn] \notin {"unused", "created"} \cup Early
            /\ stash.len <= Len(msgs[stash.turn]) /\ Len(msgs[stash.turn]) \in Nat
            /\ Len(x) \in Nat
        BY <1>1 DEF TurnData
      <3>2. CASE stash.turn = t
        BY <1>1, <1>2, <1>5, <3>1, <3>2
      <3>3. CASE stash.turn # t
        BY <1>1, <1>2, <3>1, <3>3
      <3> QED BY <3>2, <3>3
    <2> QED BY <2>1, <2>2
  <1> QED BY <1>3, <1>4, <1>6 DEF TurnData

\* Message m is next in what turn t splices.
SplicedNext(t, m) ==
    \/ pc[t] = "hop" /\ m \in ToSet(steerq)
    \/ pc[t] = "splice" /\ m \in ToSet(todo[t])

\* What the splicing of the queue does to the messages of a turn.
LEMMA SpliceMessage ==
    ASSUME TypeInv, NEW t \in Turns, HopStarts(t) \/ SpliceNext(t) \/ SpliceEnds(t)
    PROVE  \/ msgs' = msgs /\ spliced' = spliced
           \/ \E m \in Msgs : Splice(t, m) /\ SplicedNext(t, m)
  <1>1. steerq \in Seq(Msgs) /\ todo[t] \in Seq(Msgs)
    BY DEF TypeInv, Types, AgentTypes, SpliceTypes
  <1>2. \A q \in Seq(Msgs) : q # <<>> => Head(q) \in Msgs /\ Head(q) \in ToSet(q)
    BY DEF ToSet
  <1> QED BY <1>1, <1>2 DEF HopStarts, SpliceNext, SpliceEnds, SplicedNext, taskVars, spliceVars

\* The gateway keeps the types.
LEMMA TypeGate ==
    ASSUME TypeInv, NEW c \in Conns,
           \/ Connect(c) \/ Disconnect(c) \/ HangUp(c) \/ Announced(c) \/ Stop(c)
           \/ WatchdogFires(c) \/ LoopEnds(c)
           \/ \E m \in Msgs : SendUser(c, m)
           \/ \E t \in Turns : TurnStarts(c, t)
    PROVE  Types' /\ TurnData'
  <1>0. /\ Types /\ TurnData /\ ConnTypes /\ GateTypes /\ TaskTypes /\ RunTypes
        /\ AgentTypes /\ UserTypes
        /\ \A e \in Events : Spend(e) => used' \in [Events -> Nat]
        /\ used' = used => used' \in [Events -> Nat]
        /\ stash # None => stash.turn \in Turns
        /\ {"close", "tie", "stop", "overlap"} \subseteq Events
    BY SpendTypes DEF TypeInv, Types, UserTypes, AgentTypes, Events
  <1>1. CASE Connect(c) \/ Disconnect(c) \/ HangUp(c) \/ Announced(c) \/ LoopEnds(c)
    <2>1. ConnTypes'
      <3>1. CASE Connect(c) \/ Disconnect(c)
        BY <1>0, <3>1 DEF ConnTypes, Connect, Disconnect
      <3>2. CASE HangUp(c)
        <4>1. queue' \in [Conns -> Seq(Msgs \cup {Bye})]
          BY <1>0, <3>2 DEF ConnTypes, HangUp
        <4> QED BY <1>0, <3>2, <4>1 DEF ConnTypes, HangUp
      <3>3. CASE Announced(c)
        BY <1>0, <3>3 DEF ConnTypes, Announced
      <3>4. CASE LoopEnds(c)
        <4>1. queue' \in [Conns -> Seq(Msgs \cup {Bye})]
          BY <1>0, <3>4 DEF ConnTypes, LoopEnds
        <4> QED BY <1>0, <3>4, <4>1 DEF ConnTypes, LoopEnds
      <3> QED BY <1>1, <3>1, <3>2, <3>3, <3>4
    <2>2. /\ UNCHANGED <<gateVars, taskVars, runVars, agentVars, storeVars, userVars>>
          /\ used' \in [Events -> Nat]
      BY <1>0, <1>1 DEF Connect, Disconnect, HangUp, Announced, LoopEnds
    <2>3. UNCHANGED <<by, user, msgs, hops, stash, pc>>
      BY <2>2 DEF taskVars, runVars, agentVars
    <2>4. TurnData'
      BY <1>0, <2>3, TurnDataFrame
    <2> QED BY <1>0, <2>1, <2>2, <2>4, TypeFrame DEF TypeInv, Types
  <1>2. CASE \E m \in Msgs : SendUser(c, m)
    <2>0. PICK m \in Msgs : SendUser(c, m)
      BY <1>2
    <2>1. ConnTypes'
      <3>0. queue' = queue \/ queue' = [queue EXCEPT ![c] = Append(@, m)]
        BY <2>0 DEF SendUser
      <3>1. queue' \in [Conns -> Seq(Msgs \cup {Bye})]
        <4>1. queue \in [Conns -> Seq(Msgs \cup {Bye})]
          BY <1>0 DEF ConnTypes
        <4>2. Append(queue[c], m) \in Seq(Msgs \cup {Bye})
          BY <4>1
        <4> QED BY <3>0, <4>1, <4>2
      <3>2. rd' \in [Conns -> Msgs \cup {None}]
        BY <1>0, <2>0 DEF ConnTypes, SendUser
      <3> QED BY <1>0, <2>0, <3>1, <3>2 DEF ConnTypes, SendUser
    <2>2. /\ UNCHANGED <<gateVars, taskVars, runVars, storeVars>>
          /\ UNCHANGED <<evOwner, cancelSet, stash, hist, cps, used>>
      BY <2>0 DEF SendUser
    <2>3. UNCHANGED <<by, user, msgs, hops, stash, pc>>
      BY <2>2 DEF taskVars, runVars
    <2>4. TurnData'
      BY <1>0, <2>3, TurnDataFrame
    <2>5. AgentTypes'
      <3>1. steerq' \in Seq(Msgs)
        <4>1. steerq' = steerq \/ steerq' = Append(steerq, m)
          BY <2>0 DEF SendUser, Steering
        <4> QED BY <1>0, <4>1 DEF AgentTypes
      <3> QED BY <1>0, <2>2, <3>1 DEF AgentTypes
    <2>6. UserTypes'
      BY <1>0, <1>2 DEF SendUser, UserTypes
    <2> QED BY <1>0, <2>1, <2>2, <2>4, <2>5, <2>6, TypeFrame DEF TypeInv, Types
  <1>3. CASE Stop(c) \/ WatchdogFires(c)
    <2>1. ConnTypes'
      <3>1. CASE Stop(c)
        BY <1>0, <3>1 DEF ConnTypes, Stop, Progress
      <3>2. CASE WatchdogFires(c)
        <4>1. wd[c] \in Msgs
          BY <1>0, <3>2 DEF ConnTypes, WatchdogFires
        <4>2. queue' \in [Conns -> Seq(Msgs \cup {Bye})]
          BY <1>0, <3>2, <4>1 DEF ConnTypes, WatchdogFires
        <4> QED BY <1>0, <3>2, <4>2 DEF ConnTypes, WatchdogFires
      <3> QED BY <1>3, <3>1, <3>2
    <2>2. /\ UNCHANGED <<taskVars, storeVars, active, save>>
          /\ UNCHANGED <<evOwner, stash, steerq, hist, cps>>
          /\ UNCHANGED <<sent, told, steered, answered, removed>>
          /\ used' \in [Events -> Nat]
          /\ HardCancel \/ UNCHANGED <<cancelSet, flagged, kills, asked>>
      BY <1>0, <1>3 DEF Stop, WatchdogFires
    <2>3. pc' = pc \/ pc' = [t \in Turns |-> IF pc[t] = "ask" THEN "tool" ELSE pc[t]]
      BY <1>3 DEF Stop, WatchdogFires
    <2>4. TurnData'
      <3>1. UNCHANGED <<by, user, msgs, hops>>
        BY <2>2 DEF taskVars
      <3> QED BY <1>0, <2>2, <2>3, <3>1, TurnDataFrame DEF Early
    <2>5. flagged' \in BOOLEAN /\ kills' \in [Turns -> Nat] /\ cancelSet' \subseteq Turns
          /\ asked' \subseteq Turns
      <3>1. CASE HardCancel
        <4>1. flagged' \in BOOLEAN
          BY <3>1 DEF HardCancel
        <4>2. ActiveTurn => active \in Turns
          BY <1>0 DEF ActiveTurn, GateTypes
        <4>3. kills' \in [Turns -> Nat]
          BY <1>0, <3>1, <4>2 DEF HardCancel, RunTypes
        <4>4. cancelSet' \subseteq Turns /\ asked' \subseteq Turns
          BY <1>0, <3>1, <4>2 DEF HardCancel, AgentTypes, UserTypes
        <4> QED BY <4>1, <4>3, <4>4
      <3>2. CASE UNCHANGED <<cancelSet, flagged, kills, asked>>
        BY <1>0, <3>2 DEF GateTypes, RunTypes, AgentTypes, UserTypes
      <3> QED BY <2>2, <3>1, <3>2
    <2>6. GateTypes' /\ AgentTypes'
      BY <1>0, <2>2, <2>5 DEF GateTypes, AgentTypes
    <2>7. RunTypes'
      BY <1>0, <2>2, <2>3, <2>5 DEF RunTypes, Alive, Early, Working, Ending
    <2>8. requeued' \subseteq Msgs
      BY <1>0, <1>3 DEF Stop, WatchdogFires, ConnTypes, UserTypes
    <2>9. UserTypes'
      BY <1>0, <2>2, <2>5, <2>8 DEF UserTypes
    <2> QED BY <1>0, <2>1, <2>2, <2>4, <2>6, <2>7, <2>9, TypeFrame DEF TypeInv, Types
  <1>4. CASE \E t \in Turns : TurnStarts(c, t)
    <2>1. PICK t \in Turns : TurnStarts(c, t)
      BY <1>4
    <2>2. /\ UNCHANGED <<conn, rd, wd, owner, msgs, hops, kills, save>>
          /\ UNCHANGED <<agentVars, storeVars, userVars>>
          /\ used' \in [Events -> Nat] /\ active' = t /\ flagged' = FALSE
          /\ queue' = [queue EXCEPT ![c] = Tail(@)] /\ pc[t] = "unused"
          /\ pc' = [pc EXCEPT ![t] = "created"] /\ by' = [by EXCEPT ![t] = c]
      BY <1>0, <2>1 DEF TurnStarts
    <2>3. Head(queue[c]) \in Msgs /\ queue[c] # <<>> /\ queue[c] \in Seq(Msgs \cup {Bye})
          /\ user' = [user EXCEPT ![t] = Head(queue[c])]
      BY <1>0, <2>1 DEF TurnStarts, ConnTypes
    <2>4. ConnTypes'
      BY <1>0, <2>2, <2>3 DEF ConnTypes
    <2>5. GateTypes' /\ TaskTypes'
      BY <1>0, <2>2, <2>3 DEF GateTypes, TaskTypes
    <2>6. RunTypes'
      BY <1>0, <2>2 DEF RunTypes, Alive
    <2>7. stash # None => stash.turn # t
      BY <1>0, <2>2 DEF TurnData
    <2>8. TurnData'
      <3>1. stash' = stash
        BY <2>2 DEF agentVars
      <3> QED BY <1>0, <2>2, <2>3, <2>7, <3>1 DEF TurnData, TaskTypes, RunTypes
    <2> QED BY <1>0, <2>2, <2>4, <2>5, <2>6, <2>8, TypeFrame DEF TypeInv, Types
  <1> QED BY <1>1, <1>2, <1>3, <1>4

\* So does a turn.
LEMMA TypeTurn ==
    ASSUME TypeInv, NEW t \in Turns,
           TurnStep(t) \/ Outcome(t) \/ Killed(t) \/ TurnOver(t)
    PROVE  Types' /\ TurnData'
  <1>0. /\ Types /\ TurnData /\ ConnTypes /\ GateTypes /\ TaskTypes /\ RunTypes
        /\ AgentTypes /\ StoreTypes /\ UserTypes
        /\ \A e \in Events : Spend(e) => used' \in [Events -> Nat]
        /\ used \in [Events -> Nat] /\ "fail" \in Events
        /\ stash # None => stash.turn \in Turns
        /\ Hist \in Seq(Entries)
    <2>1. Types /\ TurnData
      BY DEF TypeInv
    <2>2. \A e \in Events : Spend(e) => used' \in [Events -> Nat]
      BY <2>1, SpendTypes
    <2>3. /\ ConnTypes /\ GateTypes /\ TaskTypes /\ RunTypes
          /\ AgentTypes /\ StoreTypes /\ UserTypes
      BY <2>1 DEF Types
    <2>4. (stash # None => stash.turn \in Turns) /\ Hist \in Seq(Entries)
      BY <2>3 DEF AgentTypes, Hist
    <2> QED BY <2>1, <2>2, <2>3, <2>4 DEF UserTypes, Events
  <1>1. (UNCHANGED wd \/ Progress) /\ UNCHANGED <<conn, rd, queue, owner>> => ConnTypes'
    BY <1>0 DEF ConnTypes, Progress
  <1>2. CASE Begin(t)
    <2>1. /\ pc[t] = "created" /\ pc' = [pc EXCEPT ![t] = "early"]
          /\ UNCHANGED <<connVars, gateVars, taskVars, storeVars, userVars>>
          /\ UNCHANGED <<kills, save, cancelSet, stash, steerq, hist, used>>
          /\ evOwner' = t
      BY <1>2 DEF Begin
    <2>2. [turn |-> t, len |-> Len(Hist), blind |-> hist = None /\ disk # <<>>]
             \in [turn : Turns, len : Nat, blind : BOOLEAN]
      BY <1>0
    <2>3. AgentTypes'
      BY <1>0, <1>2, <2>1, <2>2 DEF Begin, AgentTypes
    <2>4. RunTypes'
      BY <1>0, <2>1 DEF RunTypes, Alive, Early
    <2>5. TurnData'
      <3>1. UNCHANGED <<by, user, msgs, hops, stash>>
        BY <2>1 DEF taskVars
      <3> QED BY <1>0, <2>1, <3>1, TurnDataFrame DEF Early
    <2> QED BY <1>0, <2>1, <2>3, <2>4, <2>5, TypeFrame DEF TypeInv, Types
  <1>3. CASE Load(t)
    <2>1. /\ pc[t] = "early" /\ pc' = [pc EXCEPT ![t] = "prep"]
          /\ UNCHANGED <<conn, rd, queue, owner, gateVars, taskVars, kills, save>>
          /\ UNCHANGED <<evOwner, cancelSet, stash, steerq, cps, disk, writes>>
          /\ UNCHANGED <<userVars, used>> /\ Progress
          /\ log' = Append(log, User(user[t]))
          /\ hist' \in {hist, disk, Mended(log'), None}
      BY <1>3 DEF Load
    <2>2. User(user[t]) \in Entries
      BY <1>0, <2>1, MakeEntries DEF TurnData
    <2>3. StoreTypes'
      BY <1>0, <2>1, <2>2 DEF StoreTypes
    <2>4. hist' \in Seq(Entries) \cup {None}
      BY <1>0, <2>1, <2>3, MendedElems DEF StoreTypes, AgentTypes
    <2>5. AgentTypes'
      BY <1>0, <2>1, <2>4 DEF AgentTypes
    <2>6. RunTypes'
      BY <1>0, <2>1 DEF RunTypes, Alive, Early
    <2>7. TurnData'
      <3>1. UNCHANGED <<by, user, msgs, hops, stash>>
        BY <2>1 DEF taskVars
      <3> QED BY <1>0, <2>1, <3>1, TurnDataFrame DEF Early, RunTypes
    <2> QED BY <1>0, <1>1, <2>1, <2>3, <2>5, <2>6, <2>7, TypeFrame DEF TypeInv, Types
  <1>4. CASE Prepare(t)
    <2>1. /\ pc[t] = "prep" /\ pc' = [pc EXCEPT ![t] = "hop"]
          /\ UNCHANGED <<conn, rd, queue, owner, gateVars, by, user, hops, kills, save>>
          /\ UNCHANGED <<evOwner, cancelSet, steerq, hist, cps, storeVars>>
          /\ UNCHANGED <<userVars, used>> /\ Progress
          /\ msgs' = [msgs EXCEPT ![t] = Append(Hist, User(user[t]))]
          /\ stash' = [turn |-> t, len |-> 0]
      BY <1>4 DEF Prepare, Live
    <2>2. User(user[t]) \in Entries
      BY <1>0, <2>1, MakeEntries DEF TurnData
    <2>3. TaskTypes'
      BY <1>0, <2>1, <2>2 DEF TaskTypes
    <2>4. AgentTypes'
      <3>1. stash' \in [turn : Turns, len : Nat]
        BY <2>1
      <3> QED BY <1>0, <2>1, <3>1 DEF AgentTypes
    <2>5. RunTypes'
      BY <1>0, <2>1 DEF RunTypes, Alive, Working
    <2>6. TurnData'
      <3>1. stash'.turn = t /\ stash'.len = 0 /\ pc'[t] = "hop" /\ Len(msgs'[t]) >= 0
        BY <1>0, <2>1, <2>3 DEF RunTypes, TaskTypes
      <3>2. \A u \in Turns : u # t => pc'[u] = pc[u]
        BY <1>0, <2>1 DEF RunTypes
      <3> QED BY <1>0, <2>1, <3>1, <3>2 DEF TurnData, Early
    <2> QED BY <1>0, <1>1, <2>1, <2>3, <2>4, <2>5, <2>6, TypeFrame DEF TypeInv, Types
  <1>5. CASE HopStarts(t) \/ SpliceNext(t) \/ SpliceEnds(t)
    <2>1. /\ pc[t] \in Working /\ steerq' \in {steerq, <<>>}
          /\ \E y \in {"llm", "splice"} : /\ pc' = [pc EXCEPT ![t] = y]
                                        /\ hops[t] < MaxHops
          /\ UNCHANGED <<conn, rd, queue, owner, gateVars, by, user, hops, kills, save>>
          /\ UNCHANGED <<evOwner, cancelSet, stash, hist, cps, storeVars>>
          /\ UNCHANGED <<userVars, used>> /\ Progress
      BY <1>0, <1>5 DEF HopStarts, SpliceNext, SpliceEnds, Unqueue, runVars, taskVars,
                        Working, TurnData, RunTypes
    <2>2. \E x \in Seq(Entries) : /\ msgs' = [msgs EXCEPT ![t] = x]
                                  /\ Len(x) >= Len(msgs[t])
      <3>1. msgs \in [Turns -> Seq(Entries)]
        BY <1>0 DEF TaskTypes
      <3>2. CASE msgs' = msgs
        BY <3>1, <3>2
      <3>3. CASE \E m \in Msgs : Splice(t, m)
        <4>1. PICK m \in Msgs : msgs' = [msgs EXCEPT ![t] = Append(@, Steer(m))]
          BY <3>3 DEF Splice
        <4>2. Steer(m) \in Entries
          BY MakeEntries
        <4> HIDE DEF Steer
        <4>3. /\ Append(msgs[t], Steer(m)) \in Seq(Entries)
              /\ Len(Append(msgs[t], Steer(m))) >= Len(msgs[t])
          BY <3>1, <4>2
        <4> QED BY <4>1, <4>3
      <3> QED BY <1>5, <3>2, <3>3, SpliceMessage
    <2>3. PICK x \in Seq(Entries) : /\ msgs' = [msgs EXCEPT ![t] = x]
                                    /\ Len(x) >= Len(msgs[t])
      BY <2>2
    <2>4. TaskTypes' /\ AgentTypes'
      <3>1. <<>> \in Seq(Msgs)
        OBVIOUS
      <3> QED BY <1>0, <2>1, <2>3, <3>1 DEF TaskTypes, AgentTypes
    <2>5. RunTypes'
      BY <1>0, <2>1 DEF RunTypes, Alive, Working
    <2>6. TurnData'
      <3>1. PICK y \in {"llm", "splice"} : /\ pc' = [pc EXCEPT ![t] = y]
                                           /\ hops[t] < MaxHops
        BY <2>1
      <3>2. y \in Working /\ (y \in {"splice", "llm", "ask", "tool"} => hops'[t] < MaxHops)
        BY <2>1, <3>1 DEF Working
      <3> QED BY <1>0, <2>1, <2>3, <3>1, <3>2, TurnDataGrow
    <2> QED BY <1>0, <1>1, <2>1, <2>4, <2>5, <2>6, TypeFrame DEF TypeInv, Types
  <1>6. CASE HopRefused(t) \/ ToolCancelled(t) \/ Returns(t) \/ Fails(t)
    <2>1. /\ pc[t] \in Early \cup Working
          /\ \E ok \in BOOLEAN : Leave(t, ok)
          /\ UNCHANGED <<conn, rd, queue, owner, gateVars, taskVars, kills, cancelSet>>
          /\ UNCHANGED <<stash, cps, writes, log, sent, asked, told, steered, requeued>>
          /\ removed' = removed /\ Progress /\ used' \in [Events -> Nat]
          /\ disk' \in {disk, msgs[t]}
      BY <1>0, <1>6 DEF HopRefused, ToolCancelled, Returns, Fails, Early, Working,
                        Saves, storeVars
    <2>2. /\ evOwner' \in Turns \cup {None} /\ steerq' \in Seq(Msgs)
          /\ hist' \in Seq(Entries) \cup {None}
          /\ save' \in [Turns -> Seq(Entries)]
          /\ \E x \in Ending : pc' = [pc EXCEPT ![t] = x]
          /\ answered' \subseteq Turns
      BY <2>1, LeaveTypes DEF Alive
    <2>3. AgentTypes' /\ UserTypes'
      BY <1>0, <2>1, <2>2 DEF AgentTypes, UserTypes
    <2>4. RunTypes'
      BY <1>0, <2>1, <2>2 DEF RunTypes, Alive
    <2>5. TurnData'
      <3>1. UNCHANGED <<by, user, msgs, hops, stash>>
        BY <2>1 DEF taskVars
      <3>2. \A u \in Turns : pc'[u] # pc[u] => u = t /\ pc'[u] \in Ending
        BY <1>0, <2>2 DEF RunTypes
      <3> QED BY <1>0, <2>1, <3>1, <3>2, TurnDataFrame DEF Early, Working, Ending
    <2>6. StoreTypes'
      BY <1>0, <2>1 DEF StoreTypes, TaskTypes
    <2> QED BY <1>0, <1>1, <2>1, <2>3, <2>4, <2>5, <2>6, TypeFrame DEF TypeInv, Types
  <1>7. ASSUME \/ \E tool \in {"tool", "ask"} : LlmCalls(t, tool)
               \/ ToolReturns(t) \/ LlmAnswers(t) \/ LlmDrafts(t)
        PROVE  Types' /\ TurnData'
    <2>1. PICK e \in Entries :
             /\ msgs' = [msgs EXCEPT ![t] = Append(msgs[t], e)]
             /\ log' = Append(log, e)
      BY <1>0, <1>7, MakeEntries DEF LlmCalls, ToolReturns, LlmAnswers, LlmDrafts, TaskTypes
    <2>2. /\ hops' = hops \/ (hops' = [hops EXCEPT ![t] = @ + 1] /\ hops[t] < MaxHops)
          /\ (hist' = hist \/ hist' = msgs'[t])
          /\ UNCHANGED <<conn, rd, queue, owner, gateVars, by, user, kills, save>>
          /\ UNCHANGED <<evOwner, cancelSet, stash, steerq, cps, disk, writes>>
          /\ UNCHANGED <<userVars, used>> /\ Progress
      BY <1>0, <1>7 DEF LlmCalls, ToolReturns, LlmAnswers, LlmDrafts, agentVars, TurnData
    <2>3. \E y \in Working : /\ pc' = [pc EXCEPT ![t] = y]
                             /\ y \in {"splice", "llm", "ask", "tool"} => hops' = hops /\ hops[t] < MaxHops
      BY <1>0, <1>7 DEF LlmCalls, ToolReturns, LlmAnswers, LlmDrafts, Working, TurnData
    <2>4. pc[t] \in Working
      BY <1>7 DEF LlmCalls, ToolReturns, LlmAnswers, LlmDrafts, Working
    <2>5. Append(msgs[t], e) \in Seq(Entries) /\ Len(Append(msgs[t], e)) >= Len(msgs[t])
      BY <1>0 DEF TaskTypes
    <2>6. TaskTypes'
      BY <1>0, <2>1, <2>2, <2>5, ConstantsAssumption DEF TaskTypes
    <2>7. StoreTypes'
      BY <1>0, <2>1, <2>2 DEF StoreTypes
    <2>8. AgentTypes'
      BY <1>0, <2>2, <2>6 DEF AgentTypes, TaskTypes
    <2>9. RunTypes'
      BY <1>0, <2>2, <2>3 DEF RunTypes, Alive
    <2>10. TurnData'
      <3>1. \A u \in Turns : u # t => hops'[u] = hops[u]
        BY <1>0, <2>2 DEF TaskTypes
      <3>2. PICK y \in Working : /\ pc' = [pc EXCEPT ![t] = y]
                                 /\ y \in {"splice", "llm", "ask", "tool"} => hops'[t] < MaxHops
        BY <2>3
      <3> QED BY <1>0, <2>1, <2>2, <2>4, <2>5, <3>1, <3>2, TurnDataGrow
    <2> QED BY <1>0, <1>1, <2>2, <2>6, <2>7, <2>8, <2>9, <2>10, TypeFrame DEF TypeInv, Types
  <1>8. CASE Saved(t)
    <2>1. /\ pc[t] \in Working /\ disk' \in {disk, msgs[t]} /\ hist' \in {hist, msgs[t]}
          /\ stash' = [turn |-> t, len |-> Len(msgs[t])]
          /\ \E y \in {"hop", "post"} : pc' = [pc EXCEPT ![t] = y]
          /\ UNCHANGED <<conn, rd, queue, owner, gateVars, taskVars, kills, save>>
          /\ UNCHANGED <<evOwner, cancelSet, steerq, cps, writes, log>>
          /\ UNCHANGED <<userVars, used>> /\ Progress
      BY <1>8 DEF Saved, Saves, Working
    <2>2. msgs[t] \in Seq(Entries) /\ msgs' = [msgs EXCEPT ![t] = msgs[t]]
          /\ UNCHANGED <<by, user, hops>>
      BY <1>0, <2>1 DEF TaskTypes, taskVars
    <2>3. StoreTypes'
      BY <1>0, <2>1, <2>2 DEF StoreTypes
    <2>4. AgentTypes'
      <3>1. stash' \in [turn : Turns, len : Nat]
        BY <2>1, <2>2
      <3> QED BY <1>0, <2>1, <2>2, <3>1 DEF AgentTypes
    <2>5. RunTypes'
      BY <1>0, <2>1 DEF RunTypes, Alive, Working
    <2>6. TurnData'
      <3>1. stash'.turn = t /\ stash'.len <= Len(msgs[t]) /\ Len(msgs[t]) >= Len(msgs[t])
        BY <2>1, <2>2
      <3> QED BY <1>0, <2>1, <2>2, <3>1, TurnDataGrow DEF Working
    <2> QED BY <1>0, <1>1, <2>1, <2>3, <2>4, <2>5, <2>6, TypeFrame DEF TypeInv, Types
  <1>9. CASE RecoverySaved(t) \/ Ends(t)
    <2>1. /\ pc[t] \in Ending /\ disk' \in {disk, save[t]} /\ save[t] \in Seq(Entries)
          /\ stash' \in {stash, None}
          /\ \E y \in {"save", "done"} : pc' = [pc EXCEPT ![t] = y]
          /\ \E x \in {Hist, <<>>} : save' = [save EXCEPT ![t] = x]
          /\ kills' = kills \/ kills' = [kills EXCEPT ![t] = 0]
          /\ cancelSet' \subseteq cancelSet
          /\ UNCHANGED <<connVars, gateVars, taskVars, evOwner, steerq, hist, cps>>
          /\ UNCHANGED <<writes, log, userVars, used>>
      BY <1>0, <1>9 DEF RecoverySaved, Ends, Done, Saves, Ending, RunTypes, agentVars
    <2>2. StoreTypes' /\ AgentTypes'
      BY <1>0, <2>1 DEF StoreTypes, AgentTypes
    <2>3. RunTypes'
      <3>1. pc' \in [Turns -> Alive \cup {"unused", "done", "over", "lost"}]
        BY <1>0, <2>1 DEF RunTypes, Alive, Ending
      <3>2. save' \in [Turns -> Seq(Entries)]
        <4>1. <<>> \in Seq(Entries)
          OBVIOUS
        <4>2. PICK x \in Seq(Entries) : save' = [save EXCEPT ![t] = x]
          BY <1>0, <2>1, <4>1
        <4>3. save \in [Turns -> Seq(Entries)]
          BY <1>0 DEF RunTypes
        <4> QED BY <4>2, <4>3
      <3>3. kills' \in [Turns -> Nat]
        <4>1. kills \in [Turns -> Nat]
          BY <1>0 DEF RunTypes
        <4> QED BY <2>1, <4>1
      <3> QED BY <3>1, <3>2, <3>3 DEF RunTypes
    <2>4. TurnData'
      <3>1. UNCHANGED <<by, user, msgs, hops>>
        BY <2>1 DEF taskVars
      <3> QED BY <1>0, <2>1, <3>1, TurnDataFrame DEF Early, Ending, RunTypes
    <2> QED BY <1>0, <2>1, <2>2, <2>3, <2>4, TypeFrame DEF TypeInv, Types
  <1>10. CASE Killed(t)
    <2>1. /\ kills[t] > 0 /\ Progress
          /\ UNCHANGED <<conn, rd, queue, owner, gateVars, taskVars, stash, cps, disk>>
          /\ UNCHANGED <<log, sent, asked, told, steered, requeued, removed, used>>
      BY <1>10 DEF Killed
    <2>2. StoreTypes'
      <3>1. msgs[t] \in Seq(Entries) /\ save[t] \in Seq(Entries)
        BY <1>0 DEF TaskTypes, RunTypes
      <3>2. \E x \in {{msgs[t]}, {save[t]}, {}} : writes' = writes \cup x
        BY <1>10 DEF Killed
      <3> QED BY <1>0, <2>1, <3>1, <3>2 DEF StoreTypes
    <2>3. /\ evOwner' \in Turns \cup {None} /\ steerq' \in Seq(Msgs)
          /\ hist' \in Seq(Entries) \cup {None}
          /\ save' \in [Turns -> Seq(Entries)]
          /\ pc[t] # "unused" /\ \E x \in Ending \cup {"done"} : pc' = [pc EXCEPT ![t] = x]
          /\ answered' \subseteq Turns /\ cancelSet' \subseteq Turns
          /\ kills' \in [Turns -> Nat]
      <3>1. CASE pc[t] \in Early \cup Working /\ Leave(t, FALSE)
                 /\ kills' = [kills EXCEPT ![t] = @ - 1] /\ UNCHANGED cancelSet
        <4>1. kills' \in [Turns -> Nat] /\ cancelSet' \subseteq Turns
          BY <1>0, <2>1, <3>1 DEF RunTypes, AgentTypes
        <4>2. pc[t] \in Alive /\ pc[t] # "unused" /\ FALSE \in BOOLEAN
          BY <3>1 DEF Alive, Early, Working
        <4>3. Leave(t, FALSE)
          BY <3>1
        <4> QED BY <4>1, <4>2, <4>3, LeaveTypes
      <3>2. CASE pc[t] \in Ending /\ Done(t) /\ UNCHANGED <<evOwner, steerq, hist, answered>>
        BY <1>0, <2>1, <3>2 DEF Done, RunTypes, AgentTypes, UserTypes, Ending
      <3> QED BY <1>10, <3>1, <3>2 DEF Killed
    <2>4. AgentTypes' /\ UserTypes'
      BY <1>0, <2>1, <2>3 DEF AgentTypes, UserTypes
    <2>5. RunTypes'
      BY <1>0, <2>3 DEF RunTypes, Alive, Ending
    <2>6. TurnData'
      <3>1. UNCHANGED <<by, user, msgs, hops, stash>>
        BY <2>1 DEF taskVars
      <3>2. \A u \in Turns : pc'[u] # pc[u] => u = t /\ pc'[u] \in Ending \cup {"done"}
        BY <1>0, <2>3 DEF RunTypes
      <3> QED BY <1>0, <2>3, <3>1, <3>2, TurnDataFrame DEF Early, Ending
    <2> QED BY <1>0, <1>1, <2>1, <2>2, <2>4, <2>5, <2>6, TypeFrame DEF TypeInv, Types
  <1>11. CASE TurnOver(t)
    <2>1. /\ pc[t] = "done" /\ pc' = [pc EXCEPT ![t] = "over"]
          /\ UNCHANGED <<conn, rd, queue, owner, taskVars, kills, save, agentVars>>
          /\ UNCHANGED <<storeVars, sent, asked, steered, requeued, answered, removed>>
          /\ UNCHANGED used /\ flagged' = FALSE
      BY <1>11 DEF TurnOver
    <2>2. ConnTypes'
      BY <1>0, <1>11, <2>1 DEF TurnOver, ConnTypes
    <2>3. GateTypes'
      BY <1>0, <1>11, <2>1 DEF TurnOver, GateTypes
    <2>4. UserTypes'
      BY <1>0, <1>11, <2>1 DEF TurnOver, UserTypes
    <2>5. RunTypes'
      BY <1>0, <2>1 DEF RunTypes
    <2>6. TurnData'
      <3>1. UNCHANGED <<by, user, msgs, hops, stash>>
        BY <2>1 DEF taskVars, agentVars
      <3> QED BY <1>0, <2>1, <3>1, TurnDataFrame DEF Early, RunTypes
    <2> QED BY <1>0, <2>1, <2>2, <2>3, <2>4, <2>5, <2>6, TypeFrame DEF TypeInv, Types
  <1> QED BY <1>2, <1>3, <1>4, <1>5, <1>6, <1>7, <1>8, <1>9, <1>10, <1>11 DEF TurnStep, Outcome

\* The other actions keep the types.
LEMMA TypeElse ==
    ASSUME TypeInv,
           \/ \E q \in writes : WriteLands(q)
           \/ \E i \in DOMAIN cps : Rewind(i)
           \/ ClearSession \/ Crash \/ StoreFails \/ StoreServes \/ UNCHANGED vars
    PROVE  Types' /\ TurnData'
  <1>0. /\ Types /\ TurnData /\ ConnTypes /\ GateTypes /\ TaskTypes /\ RunTypes
        /\ AgentTypes /\ StoreTypes /\ UserTypes
        /\ \A e \in Events : Spend(e) => used' \in [Events -> Nat]
        /\ {"rewind", "clear", "crash", "outage"} \subseteq Events
        /\ stash # None => stash.turn \in Turns
        /\ Hist \in Seq(Entries)
    <2>1. /\ Types /\ TurnData /\ ConnTypes /\ GateTypes /\ TaskTypes /\ RunTypes
          /\ AgentTypes /\ StoreTypes /\ UserTypes
          /\ {"rewind", "clear", "crash", "outage"} \subseteq Events
      BY DEF TypeInv, Types, Events
    <2>2. \A e \in Events : Spend(e) => used' \in [Events -> Nat]
      BY <2>1, SpendTypes
    <2>3. stash # None => stash.turn \in Turns
      BY <2>1 DEF AgentTypes
    <2>4. <<>> \in Seq(Entries)
      OBVIOUS
    <2>5. Hist \in Seq(Entries)
      BY <2>1, <2>4 DEF AgentTypes, Hist
    <2> QED BY <2>1, <2>2, <2>3, <2>5
  <1>1. CASE \E q \in writes : WriteLands(q)
    <2>1. PICK q \in writes : WriteLands(q)
      BY <1>1
    <2>2. /\ UNCHANGED <<connVars, gateVars, taskVars, runVars, agentVars, log>>
          /\ UNCHANGED <<userVars, used>> /\ disk' \in {disk, q} /\ writes' = writes \ {q}
      BY <2>1 DEF WriteLands, Saves
    <2>3. StoreTypes'
      BY <1>0, <2>2 DEF StoreTypes
    <2>4. used' \in [Events -> Nat]
      BY <1>0, <2>2 DEF UserTypes
    <2>5. TurnData'
      <3>1. UNCHANGED <<by, user, msgs, hops, stash, pc>>
        BY <2>2 DEF taskVars, agentVars, runVars
      <3> QED BY <1>0, <3>1, TurnDataFrame
    <2> QED BY <1>0, <2>2, <2>3, <2>4, <2>5, TypeFrame DEF TypeInv, Types
  <1>2. CASE \E i \in DOMAIN cps : Rewind(i)
    <2>1. PICK i \in DOMAIN cps : Rewind(i)
      BY <1>2
    <2>2. /\ UNCHANGED <<connVars, gateVars, taskVars, runVars, evOwner, cancelSet>>
          /\ UNCHANGED <<stash, steerq, writes, log, sent, asked, told, steered>>
          /\ UNCHANGED <<requeued, answered>> /\ disk' \in {disk, hist'}
          /\ used' \in [Events -> Nat]
      BY <1>0, <2>1 DEF Rewind, Saves
    <2>3. hist' \in Seq(Entries) /\ cps' \in Seq([turn : Turns, len : Nat, blind : BOOLEAN])
      <3>1. cps \in Seq([turn : Turns, len : Nat, blind : BOOLEAN]) /\ i \in 1 .. Len(cps)
        BY <1>0 DEF AgentTypes
      <3>2. SubSeq(cps, 1, i) \in Seq([turn : Turns, len : Nat, blind : BOOLEAN])
        BY <3>1, Beginning
      <3>3. cps[i].len \in Nat
        <4>1. cps[i] \in [turn : Turns, len : Nat, blind : BOOLEAN]
          BY <3>1, Beginning
        <4> QED BY <4>1
      <3>4. \A n \in 0 .. Len(Hist) : SubSeq(Hist, 1, n) \in Seq(Entries)
        BY <1>0
      <3>5. PICK n \in 0 .. Len(Hist) : hist' = SubSeq(Hist, 1, n)
        <4>1. Len(Hist) \in Nat
          BY <1>0
        <4>2. (IF cps[i].len < Len(Hist) THEN cps[i].len ELSE Len(Hist)) \in 0 .. Len(Hist)
          BY <3>3, <4>1
        <4> QED BY <2>1, <4>2 DEF Rewind
      <3> QED BY <2>1, <3>2, <3>4, <3>5 DEF Rewind
    <2>4. AgentTypes' /\ StoreTypes'
      BY <1>0, <2>2, <2>3 DEF AgentTypes, StoreTypes
    <2>5. UserTypes'
      <3>1. removed' \subseteq Turns
        BY <1>0, <2>1 DEF Rewind, UserTypes
      <3> QED BY <1>0, <2>2, <3>1 DEF UserTypes
    <2>6. TurnData'
      <3>1. UNCHANGED <<by, user, msgs, hops, stash, pc>>
        BY <2>2 DEF taskVars, runVars
      <3> QED BY <1>0, <3>1, TurnDataFrame
    <2> QED BY <1>0, <2>2, <2>4, <2>5, <2>6, TypeFrame DEF TypeInv, Types
  <1>3. CASE ClearSession
    <2>1. /\ UNCHANGED <<connVars, gateVars, taskVars, runVars, cancelSet, stash>>
          /\ UNCHANGED <<writes, sent, asked, told, steered, requeued, answered>>
          /\ hist' = None /\ evOwner' = None /\ cps' = <<>> /\ steerq' = <<>>
          /\ disk' \in {disk, <<>>} /\ log' = <<>> /\ removed' \subseteq Turns
          /\ used' \in [Events -> Nat]
      BY <1>0, <1>3 DEF ClearSession, Saves, Unqueue
    <2>2. AgentTypes'
      BY <1>0, <2>1 DEF AgentTypes
    <2>3. StoreTypes'
      <3>1. <<>> \in Seq(Entries)
        OBVIOUS
      <3> QED BY <1>0, <2>1, <3>1 DEF StoreTypes
    <2>4. UserTypes'
      BY <1>0, <2>1 DEF UserTypes
    <2>5. TurnData'
      <3>1. UNCHANGED <<by, user, msgs, hops, stash, pc>>
        BY <2>1 DEF taskVars, runVars
      <3> QED BY <1>0, <3>1, TurnDataFrame
    <2> QED BY <1>0, <2>1, <2>2, <2>3, <2>4, <2>5, TypeFrame DEF TypeInv, Types
  <1>4. CASE Crash
    <2>1. /\ UNCHANGED <<taskVars, save, disk, log, userVars>>
          /\ kills' = [t \in Turns |-> 0] /\ active' = None /\ flagged' = FALSE
          /\ evOwner' = None /\ cancelSet' = {} /\ stash' = None /\ steerq' = <<>>
          /\ hist' = None /\ cps' = <<>> /\ writes' = {} /\ owner' = None
          /\ pc' = [t \in Turns |-> IF pc[t] \in Alive \cup {"done"} THEN "lost" ELSE pc[t]]
          /\ used' \in [Events -> Nat]
      BY <1>0, <1>4 DEF Crash, Unqueue
    <2>2. ConnTypes'
      <3>1. <<>> \in Seq(Msgs \cup {Bye})
        OBVIOUS
      <3> QED BY <1>4, <2>1, <3>1 DEF Crash, ConnTypes
    <2>3. AgentTypes'
      BY <1>0, <2>1 DEF AgentTypes
    <2>4. GateTypes' /\ StoreTypes'
      BY <1>0, <2>1 DEF GateTypes, StoreTypes
    <2>5. RunTypes'
      BY <1>0, <2>1 DEF RunTypes
    <2>6. TurnData'
      <3>1. \A t \in Turns : pc'[t] # pc[t] => pc[t] # "unused" /\ pc'[t] = "lost"
        BY <1>0, <2>1 DEF RunTypes, Alive, Early, Working, Ending
      <3>2. UNCHANGED <<by, user, msgs, hops>>
        BY <2>1 DEF taskVars
      <3> QED BY <1>0, <2>1, <3>1, <3>2, TurnDataFrame DEF Early
    <2> QED BY <1>0, <2>1, <2>2, <2>3, <2>4, <2>5, <2>6, TypeFrame DEF TypeInv, Types
  <1>5. CASE StoreFails \/ StoreServes \/ UNCHANGED vars
    <2>1. /\ UNCHANGED <<connVars, gateVars, taskVars, runVars, agentVars, disk, writes>>
          /\ UNCHANGED <<log, userVars, by, user, msgs, hops, stash, pc>>
          /\ used' \in [Events -> Nat]
      BY <1>0, <1>5 DEF vars, connVars, gateVars, taskVars, runVars, agentVars, spliceVars,
                        userVars, StoreFails, StoreServes, UserTypes
    <2>2. TurnData' /\ StoreTypes'
      BY <1>0, <2>1, TurnDataFrame DEF StoreTypes
    <2> QED BY <1>0, <2>1, <2>2, TypeFrame DEF TypeInv, Types
  <1> QED BY <1>1, <1>2, <1>3, <1>4, <1>5

\* What a step does to the stored history.
LEMMA StoreMoves ==
    ASSUME TypeInv, [Next]_vars
    PROVE  \/ UNCHANGED <<disk, down, stale>>
           \/ \E q : Saves(q)
           \/ disk' = disk /\ UNCHANGED down /\ stale' = FALSE
           \/ UNCHANGED <<disk, stale>> /\ down' \in BOOLEAN
  <1>1. CASE \E c \in Conns :
               \/ Connect(c) \/ Disconnect(c) \/ HangUp(c) \/ Announced(c) \/ Stop(c)
               \/ WatchdogFires(c) \/ LoopEnds(c) \/ \E t \in Turns : TurnStarts(c, t)
               \/ \E m \in Msgs : SendUser(c, m)
    BY <1>1 DEF Connect, Disconnect, HangUp, Announced, Stop, WatchdogFires, LoopEnds,
                TurnStarts, SendUser, storeVars
  <1>2. CASE \E t \in Turns :
               \/ Begin(t) \/ Load(t) \/ Prepare(t) \/ HopStarts(t) \/ SpliceNext(t)
               \/ SpliceEnds(t) \/ HopRefused(t) \/ ToolCancelled(t) \/ Fails(t)
               \/ \E tool \in {"tool", "ask"} : LlmCalls(t, tool)
               \/ ToolReturns(t) \/ LlmAnswers(t) \/ LlmDrafts(t) \/ TurnOver(t) \/ Killed(t)
    <2>1. PICK t \in Turns :
               \/ Begin(t) \/ Load(t) \/ Prepare(t) \/ HopStarts(t) \/ SpliceNext(t)
               \/ SpliceEnds(t) \/ HopRefused(t) \/ ToolCancelled(t) \/ Fails(t)
               \/ \E tool \in {"tool", "ask"} : LlmCalls(t, tool)
               \/ ToolReturns(t) \/ LlmAnswers(t) \/ LlmDrafts(t) \/ TurnOver(t) \/ Killed(t)
      BY <1>2
    <2>2. CASE Begin(t) \/ Load(t) \/ Prepare(t) \/ TurnOver(t)
      BY <2>2 DEF Begin, Load, Prepare, TurnOver, storeVars
    <2>3. CASE HopStarts(t) \/ SpliceNext(t) \/ SpliceEnds(t)
      BY <2>3 DEF HopStarts, SpliceNext, SpliceEnds, storeVars
    <2>4. CASE HopRefused(t) \/ ToolCancelled(t) \/ Fails(t) \/ Killed(t)
      BY <2>4 DEF HopRefused, ToolCancelled, Fails, Killed, storeVars
    <2>5. CASE \/ \E tool \in {"tool", "ask"} : LlmCalls(t, tool)
               \/ ToolReturns(t) \/ LlmAnswers(t) \/ LlmDrafts(t)
      BY <2>5 DEF LlmCalls, ToolReturns, LlmAnswers, LlmDrafts
    <2> QED BY <2>1, <2>2, <2>3, <2>4, <2>5
  <1>3. CASE \E t \in Turns : Saved(t) \/ Returns(t) \/ RecoverySaved(t) \/ Ends(t)
    BY <1>3 DEF Saved, Returns, RecoverySaved, Ends
  <1>4. CASE \/ \E q \in writes : WriteLands(q)
             \/ \E i \in DOMAIN cps : Rewind(i)
             \/ ClearSession
    BY <1>4 DEF WriteLands, Rewind, ClearSession
  <1>5. CASE Crash \/ StoreFails \/ StoreServes \/ UNCHANGED vars
    BY <1>5 DEF Crash, StoreFails, StoreServes, vars
  <1> QED BY <1>1, <1>2, <1>3, <1>4, <1>5 DEF Next, TurnStep, Outcome

\* What a step does to the steering that is being spliced.
LEMMA SpliceMoves ==
    ASSUME TypeInv, [Next]_vars
    PROVE  \/ UNCHANGED spliceVars
           \/ \E c \in Conns, m \in Msgs :
                 SendUser(c, m) /\ Steering(m) /\ UNCHANGED <<shared, spliced>>
           \/ \E t \in Turns : \/ HopStarts(t) \/ SpliceNext(t) \/ SpliceEnds(t)
                               \/ /\ \E ok \in BOOLEAN : Leave(t, ok)
                                  /\ UNCHANGED spliced
           \/ ClearSession \/ Crash
  <1>1. CASE \E c \in Conns :
               \/ Connect(c) \/ Disconnect(c) \/ HangUp(c) \/ Announced(c) \/ Stop(c)
               \/ WatchdogFires(c) \/ LoopEnds(c) \/ \E t \in Turns : TurnStarts(c, t)
    BY <1>1 DEF Connect, Disconnect, HangUp, Announced, Stop, WatchdogFires, LoopEnds,
                TurnStarts, agentVars
  <1>2. CASE \E c \in Conns, m \in Msgs : SendUser(c, m)
    BY <1>2 DEF SendUser, spliceVars
  <1>3. CASE \E t \in Turns :
               \/ Begin(t) \/ Load(t) \/ Prepare(t) \/ Saved(t) \/ RecoverySaved(t) \/ Ends(t)
               \/ \E tool \in {"tool", "ask"} : LlmCalls(t, tool)
               \/ ToolReturns(t) \/ LlmAnswers(t) \/ LlmDrafts(t) \/ TurnOver(t)
    BY <1>3 DEF Begin, Load, Prepare, Saved, RecoverySaved, Ends, LlmCalls, ToolReturns,
                LlmAnswers, LlmDrafts, TurnOver, agentVars
  <1>4. CASE \E t \in Turns : HopRefused(t) \/ ToolCancelled(t) \/ Returns(t) \/ Fails(t)
    BY <1>4 DEF HopRefused, ToolCancelled, Returns, Fails
  <1>5. CASE \E t \in Turns : Killed(t)
    BY <1>5 DEF Killed, spliceVars
  <1>6. CASE \/ \E q \in writes : WriteLands(q)
             \/ \E i \in DOMAIN cps : Rewind(i)
             \/ StoreFails \/ StoreServes \/ UNCHANGED vars
    BY <1>6 DEF WriteLands, Rewind, StoreFails, StoreServes, vars, agentVars, spliceVars
  <1> QED BY <1>1, <1>2, <1>3, <1>4, <1>5, <1>6 DEF Next, TurnStep, Outcome

\* They keep their types.
LEMMA SpliceTypesStep ==
    ASSUME TypeInv, [Next]_vars
    PROVE  SpliceTypes'
  <1>0. /\ todo \in [Turns -> Seq(Msgs)] /\ shared \subseteq Turns
        /\ spliced \subseteq Turns \X Msgs /\ steerq \in Seq(Msgs) /\ <<>> \in Seq(Msgs)
    BY DEF TypeInv, Types, AgentTypes, SpliceTypes
  <1>1. todo' \in [Turns -> Seq(Msgs)] /\ shared' \subseteq Turns
        /\ spliced' \subseteq Turns \X Msgs
    <2>1. CASE UNCHANGED spliceVars
      BY <1>0, <2>1 DEF spliceVars
    <2>2. ASSUME NEW m \in Msgs, Steering(m), UNCHANGED <<shared, spliced>>
          PROVE  /\ todo' \in [Turns -> Seq(Msgs)] /\ shared' \subseteq Turns
                 /\ spliced' \subseteq Turns \X Msgs
      <3>1. \A t \in Turns : Append(todo[t], m) \in Seq(Msgs)
        BY <1>0
      <3>2. todo' \in [Turns -> Seq(Msgs)]
        BY <1>0, <2>2, <3>1 DEF Steering
      <3> QED BY <1>0, <2>2, <3>2
    <2>3. ASSUME NEW t \in Turns, HopStarts(t) \/ SpliceNext(t) \/ SpliceEnds(t)
          PROVE  /\ todo' \in [Turns -> Seq(Msgs)] /\ shared' \subseteq Turns
                 /\ spliced' \subseteq Turns \X Msgs
      <3>1. spliced' \subseteq Turns \X Msgs
        BY <1>0, <2>3, SpliceMessage DEF Splice
      <3>2. /\ steerq # <<>> => Tail(steerq) \in Seq(Msgs)
            /\ todo[t] # <<>> => Tail(todo[t]) \in Seq(Msgs)
        BY <1>0
      <3>3. todo' \in [Turns -> Seq(Msgs)]
        BY <1>0, <2>3, <3>2 DEF HopStarts, SpliceNext, SpliceEnds, spliceVars
      <3>4. shared' \subseteq Turns
        BY <1>0, <2>3 DEF HopStarts, SpliceNext, SpliceEnds, spliceVars, Unqueue
      <3> QED BY <3>1, <3>3, <3>4
    <2>4. CASE \E t \in Turns : (\E ok \in BOOLEAN : Leave(t, ok)) /\ UNCHANGED spliced
      BY <1>0, <2>4 DEF Leave, Unqueue
    <2>5. CASE ClearSession \/ Crash
      BY <1>0, <2>5 DEF ClearSession, Crash, Unqueue
    <2> QED BY <2>1, <2>2, <2>3, <2>4, <2>5, SpliceMoves
  <1>2. down' \in BOOLEAN /\ stale' \in BOOLEAN
    BY StoreMoves DEF TypeInv, SpliceTypes, Saves
  <1> QED BY <1>1, <1>2 DEF SpliceTypes

\* The types and the data of the turns at first.
LEMMA TypeInit == Init => TypeInv
  <1> SUFFICES ASSUME Init PROVE TypeInv
    OBVIOUS
  <1>1. <<>> \in Seq(Msgs \cup {Bye}) /\ <<>> \in Seq(Entries) /\ <<>> \in Seq(Msgs)
    OBVIOUS
  <1>2. ConnTypes /\ GateTypes
    BY <1>1 DEF Init, ConnTypes, GateTypes
  <1>3. TaskTypes /\ RunTypes
    BY <1>1, ConstantsAssumption DEF Init, TaskTypes, RunTypes
  <1>4. AgentTypes /\ StoreTypes
    BY <1>1 DEF Init, AgentTypes, StoreTypes
  <1>5. UserTypes
    BY DEF Init, UserTypes
  <1>6. TurnData
    BY DEF Init, TurnData
  <1>7. SpliceTypes
    BY <1>1 DEF Init, SpliceTypes
  <1> QED BY <1>2, <1>3, <1>4, <1>5, <1>6, <1>7 DEF TypeInv, Types

\* Every step keeps them.
LEMMA TypeStep == TypeInv /\ [Next]_vars => TypeInv'
  <1> SUFFICES ASSUME TypeInv, [Next]_vars PROVE TypeInv'
    OBVIOUS
  <1>1. Types' /\ TurnData'
    BY TypeGate, TypeTurn, TypeElse DEF Next
  <1>2. SpliceTypes'
    BY SpliceTypesStep
  <1> QED BY <1>1, <1>2 DEF TypeInv

\* They are what TypeOK asks for.
LEMMA TypeInvTypeOK == TypeInv => TypeOK
  <1> SUFFICES ASSUME TypeInv PROVE TypeOK
    OBVIOUS
  <1>1. /\ ConnTypes /\ GateTypes /\ TaskTypes /\ RunTypes
        /\ AgentTypes /\ StoreTypes /\ UserTypes /\ TurnData
    BY DEF TypeInv, Types
  <1>2. \A S : \A q \in Seq(S) : ToSet(q) \subseteq S
    BY DEF ToSet
  <1>3. /\ \A c \in Conns : ToSet(queue[c]) \subseteq Msgs \cup {Bye}
        /\ \A t \in Turns : ToSet(msgs[t]) \subseteq Entries /\ ToSet(save[t]) \subseteq Entries
        /\ ToSet(steerq) \subseteq Msgs
        /\ ToSet(disk) \subseteq Entries /\ ToSet(log) \subseteq Entries
    BY <1>1, <1>2 DEF ConnTypes, TaskTypes, RunTypes, AgentTypes, StoreTypes
  <1>4. Hist \in Seq(Entries)
    BY <1>1 DEF AgentTypes, Hist
  <1>5. ToSet(Hist) \subseteq Entries
    BY <1>2, <1>4
  <1>6. stash # None => stash.turn \in Turns /\ stash.len \in 0 .. Len(msgs[stash.turn])
    BY <1>1 DEF AgentTypes, TaskTypes, TurnData
  <1>7. \A i \in DOMAIN cps : cps[i].turn \in Turns /\ cps[i].len \in Nat
    <2>1. cps \in Seq([turn : Turns, len : Nat, blind : BOOLEAN])
      BY <1>1 DEF AgentTypes
    <2>2. \A i \in DOMAIN cps : cps[i] \in [turn : Turns, len : Nat, blind : BOOLEAN]
      BY <2>1, Beginning
    <2> QED BY <2>2
  <1>8. /\ \A t \in Turns : ToSet(todo[t]) \subseteq Msgs
        /\ shared \subseteq Turns /\ spliced \subseteq Turns \X Msgs
        /\ down \in BOOLEAN /\ stale \in BOOLEAN
    BY <1>2 DEF TypeInv, SpliceTypes
  <1> QED BY <1>1, <1>3, <1>5, <1>6, <1>7, <1>8
          DEF TypeOK, ConnTypes, GateTypes, TaskTypes, RunTypes, AgentTypes, UserTypes

\* Every variable keeps the shape the code gives it: in particular the lists
\* hold only messages a provider can be sent, no turn makes more hops than
\* max_hops, and a stash is a beginning of the messages of its turn.
THEOREM TypeCorrect == Spec => []TypeOK
  <1>1. Spec => []TypeInv
    BY TypeInit, TypeStep, PTL DEF Spec
  <1> QED BY <1>1, TypeInvTypeOK, PTL

-----------------------------------------------------------------------------
(* Who holds what: the gateway's reference to the turn, the cancel event and *)
(* the stash                                                                 *)

\* As long as the tabs run no turns at once, the turn the gateway refers to is
\* the only one, and flagged says whether its cancellation was requested.
Sole ==
    /\ \A t \in Turns : pc[t] \in Alive \cup {"done"} => active = t
    /\ flagged = (active # None /\ active \in asked)
    /\ \A t \in Turns : pc[t] = "unused" => t \notin asked
    /\ \A t \in Turns : pc[t] \in Alive \cup {"unused", "done"} => told[t] = 0
    /\ \A t \in Turns : pc[t] = "over" => told[t] = IF t \in asked THEN 1 ELSE 0

Held ==
    /\ active # None => pc[active] \in Alive \cup {"done"}
    /\ evOwner # None => pc[evOwner] \in Early \cup Working

\* Unless a kill cut a finally block short, no stash and no save outlives its
\* turn.
Dropped ==
    "cut" \notin spoiled =>
        /\ stash # None => pc[stash.turn] \in Working \cup Ending
        /\ writes = {}

Control == Held /\ Dropped /\ (used["overlap"] = 0 => Sole)

\* One step, by who takes it.
Gate(c) ==
    \/ Connect(c) \/ Disconnect(c) \/ HangUp(c) \/ Announced(c) \/ Stop(c)
    \/ WatchdogFires(c) \/ LoopEnds(c)
    \/ \E m \in Msgs : SendUser(c, m)
    \/ \E t \in Turns : TurnStarts(c, t)
Works(t) == TurnStep(t) \/ Outcome(t) \/ Killed(t)
Else ==
    \/ \E q \in writes : WriteLands(q)
    \/ \E i \in DOMAIN cps : Rewind(i)
    \/ ClearSession \/ Crash \/ StoreFails \/ StoreServes \/ UNCHANGED vars

\* Each step is of the gateway, of a turn, of its end, or of something else.
LEMMA Actors ==
    ASSUME [Next]_vars
    PROVE  \/ \E c \in Conns : Gate(c)
           \/ \E t \in Turns : Works(t)
           \/ \E t \in Turns : TurnOver(t)
           \/ Else
  <1>1. CASE Next
    BY <1>1 DEF Next, Gate, Works, Else
  <1> QED BY <1>1 DEF Else

\* How a turn at work moves: nothing of the gateway changes.
LEMMA TurnMoves ==
    ASSUME TypeInv, NEW t \in Turns, Works(t)
    PROVE  /\ pc[t] \in Alive /\ pc'[t] \in Alive \cup {"done"}
           /\ pc' = [pc EXCEPT ![t] = pc'[t]]
           /\ UNCHANGED <<active, flagged, asked, told, by, user, removed>>
           /\ UNCHANGED <<queue, sent, steered, requeued, owner>>
           /\ used'["overlap"] = used["overlap"] /\ spoiled \subseteq spoiled'
  <1>0. pc \in [Turns -> Alive \cup {"unused", "done", "over", "lost"}]
        /\ used \in [Events -> Nat] /\ {"fail", "overlap"} \subseteq Events
    BY DEF TypeInv, Types, RunTypes, UserTypes, Events
  <1>1. CASE Begin(t) \/ Load(t) \/ Prepare(t) \/ Saved(t)
    BY <1>0, <1>1
       DEF Begin, Load, Prepare, Saved, Alive, Early, Working, Ending,
           gateVars, taskVars, connVars, userVars
  <1>6. CASE HopStarts(t) \/ SpliceNext(t) \/ SpliceEnds(t)
    BY <1>0, <1>6
       DEF HopStarts, SpliceNext, SpliceEnds, Alive, Working, gateVars, taskVars,
           runVars, userVars
  <1>2. CASE HopRefused(t) \/ ToolCancelled(t) \/ Returns(t) \/ Fails(t)
    <2>1. pc[t] \in Alive /\ pc'[t] \in Alive /\ pc' = [pc EXCEPT ![t] = pc'[t]]
      BY <1>0, <1>2
         DEF HopRefused, ToolCancelled, Returns, Fails, Leave, Alive, Early, Working, Ending
    <2>2. used'["overlap"] = used["overlap"]
      BY <1>0, <1>2 DEF HopRefused, ToolCancelled, Returns, Fails, Spend
    <2> QED BY <1>2, <2>1, <2>2
            DEF HopRefused, ToolCancelled, Returns, Fails, gateVars, taskVars
  <1>3. CASE RecoverySaved(t) \/ Ends(t)
    BY <1>0, <1>3 DEF RecoverySaved, Ends, Done, Alive, Ending, gateVars, taskVars,
                      connVars, userVars
  <1>4. CASE Outcome(t) /\ ~Fails(t)
    BY <1>0, <1>4
       DEF Outcome, LlmCalls, ToolReturns, LlmAnswers, LlmDrafts, Alive, Working,
           gateVars, taskVars, userVars
  <1>5. CASE Killed(t)
    <2>1. pc[t] \in Alive /\ pc'[t] \in Alive \cup {"done"} /\ pc' = [pc EXCEPT ![t] = pc'[t]]
      BY <1>0, <1>5 DEF Killed, Leave, Done, Alive, Early, Working, Ending
    <2> QED BY <1>5, <2>1 DEF Killed, gateVars, taskVars
  <1> QED BY <1>1, <1>2, <1>3, <1>4, <1>5, <1>6 DEF Works, TurnStep, Outcome

\* What went wrong is not forgotten.
LEMMA Remembered ==
    ASSUME TypeInv, [Next]_vars
    PROVE  /\ spoiled \subseteq spoiled'
           /\ used'["overlap"] = 0 => used["overlap"] = 0
  <1>0. used \in [Events -> Nat]
        /\ {"stop", "tie", "fail", "crash", "rewind", "clear", "close", "overlap",
             "outage"} \subseteq Events
    BY DEF TypeInv, Types, UserTypes, Events
  <1>1. \A e \in Events : Spend(e) => (used'["overlap"] = 0 => used["overlap"] = 0)
    BY <1>0 DEF Spend
  <1>2. ASSUME NEW c \in Conns, Gate(c)
        PROVE  /\ spoiled' = spoiled
               /\ used'["overlap"] = 0 => used["overlap"] = 0
    BY <1>0, <1>1, <1>2 DEF Gate, Connect, Disconnect, HangUp, Announced, Stop,
                            WatchdogFires, LoopEnds, SendUser, TurnStarts
  <1>3. ASSUME NEW t \in Turns, Works(t) \/ TurnOver(t)
        PROVE  /\ spoiled \subseteq spoiled'
               /\ used'["overlap"] = 0 => used["overlap"] = 0
    BY <1>3, TurnMoves DEF TurnOver
  <1>4. CASE Else
    BY <1>0, <1>1, <1>4 DEF Else, WriteLands, Rewind, ClearSession, Crash, StoreFails,
                            StoreServes, vars
  <1> QED BY <1>2, <1>3, <1>4, Actors

\* The gateway keeps the turn it refers to.
LEMMA ControlGate ==
    ASSUME TypeInv, Control, NEW c \in Conns, Gate(c)
    PROVE  Control'
  <1>0. /\ pc \in [Turns -> Alive \cup {"unused", "done", "over", "lost"}]
        /\ used \in [Events -> Nat] /\ {"stop", "tie", "close", "overlap"} \subseteq Events
        /\ active \in Turns \cup {None} /\ evOwner \in Turns \cup {None}
        /\ None \notin Turns
        /\ stash # None => stash.turn \in Turns
        /\ flagged \in BOOLEAN /\ told \in [Turns -> Nat]
    BY ConstantsAssumption
       DEF TypeInv, Types, RunTypes, UserTypes, AgentTypes, GateTypes, Events
  <1>1. CASE UNCHANGED <<pc, active, flagged, asked, told, evOwner, stash, writes, spoiled>>
             /\ (used'["overlap"] = 0 => used["overlap"] = 0)
    BY <1>1 DEF Control, Held, Dropped, Sole
  <1>2. CASE Connect(c) \/ Disconnect(c) \/ HangUp(c) \/ Announced(c) \/ LoopEnds(c)
             \/ \E m \in Msgs : SendUser(c, m)
    <2>1. UNCHANGED <<pc, active, flagged, asked, told, evOwner, stash, writes, spoiled>>
      BY <1>2 DEF Connect, Disconnect, HangUp, Announced, LoopEnds, SendUser, gateVars,
                  runVars, agentVars, storeVars, userVars
    <2>2. used'["overlap"] = used["overlap"]
      BY <1>0, <1>2 DEF Connect, Disconnect, HangUp, Announced, LoopEnds, SendUser, Spend
    <2> QED BY <1>1, <2>1, <2>2
  <1>3. CASE Stop(c) \/ WatchdogFires(c)
    <2>1. /\ UNCHANGED <<active, told, evOwner, stash, writes, spoiled>>
          /\ used'["overlap"] = used["overlap"]
          /\ HardCancel \/ UNCHANGED <<flagged, asked>>
          /\ \A t \in Turns : pc'[t] = pc[t] \/ (pc[t] = "ask" /\ pc'[t] = "tool")
      BY <1>0, <1>3 DEF Stop, WatchdogFires, Spend, storeVars
    <2>2. /\ flagged' = (flagged \/ ActiveTurn) /\ asked' = (IF ActiveTurn THEN asked \cup {active} ELSE asked)
          \/ UNCHANGED <<flagged, asked>>
      BY <2>1 DEF HardCancel
    <2>3. Held' /\ Dropped'
      BY <1>0, <2>1 DEF Control, Held, Dropped, Alive, Early, Working, Ending
    <2>4. used["overlap"] = 0 => Sole'
      <3> SUFFICES ASSUME used["overlap"] = 0, Sole, Held PROVE Sole'
        BY DEF Control
      <3>1. \A t \in Turns : pc'[t] \in Alive \cup {"done"} => active' = t
        BY <1>0, <2>1 DEF Sole, Alive, Working
      <3>2. flagged' = (active' # None /\ active' \in asked')
        BY <1>0, <2>1, <2>2 DEF Sole, ActiveTurn, Held
      <3>3. \A t \in Turns : pc'[t] = "unused" => t \notin asked'
        BY <1>0, <2>1, <2>2 DEF Sole, ActiveTurn, Held, Alive, Early, Working, Ending
      <3>4. \A t \in Turns : pc'[t] \in Alive \cup {"unused", "done"} => told'[t] = 0
        BY <1>0, <2>1 DEF Sole, Alive, Working
      <3>5. \A t \in Turns : pc'[t] = "over" => told'[t] = IF t \in asked' THEN 1 ELSE 0
        BY <1>0, <2>1, <2>2 DEF Sole, ActiveTurn, Held, Alive, Early, Working, Ending
      <3> QED BY <3>1, <3>2, <3>3, <3>4, <3>5 DEF Sole
    <2> QED BY <2>1, <2>3, <2>4 DEF Control
  <1>4. CASE \E t \in Turns : TurnStarts(c, t)
    <2>1. PICK t \in Turns : TurnStarts(c, t)
      BY <1>4
    <2>2. /\ pc[t] = "unused" /\ pc' = [pc EXCEPT ![t] = "created"]
          /\ active' = t /\ flagged' = FALSE
          /\ UNCHANGED <<asked, told, evOwner, stash, writes, spoiled>>
          /\ used'["overlap"] = 0 => Idle /\ used["overlap"] = 0
      BY <1>0, <2>1 DEF TurnStarts, Spend, agentVars, storeVars, userVars
    <2>3. Held' /\ Dropped'
      BY <1>0, <2>2 DEF Control, Held, Dropped, Alive, Early, Working, Ending
    <2>4. used'["overlap"] = 0 => Sole'
      BY <1>0, <2>2 DEF Control, Sole, Idle, Alive, Early, Working, Ending
    <2> QED BY <2>3, <2>4 DEF Control
  <1> QED BY <1>2, <1>3, <1>4 DEF Gate

\* So does a turn, which lets the event and the stash go as it leaves.
LEMMA ControlTurn ==
    ASSUME TypeInv, Control, NEW t \in Turns, Works(t) \/ TurnOver(t)
    PROVE  Control'
  <1>0. /\ pc \in [Turns -> Alive \cup {"unused", "done", "over", "lost"}]
        /\ active \in Turns \cup {None} /\ evOwner \in Turns \cup {None}
        /\ None \notin Turns
        /\ stash # None => stash.turn \in Turns
        /\ flagged \in BOOLEAN /\ told \in [Turns -> Nat]
    BY ConstantsAssumption
       DEF TypeInv, Types, RunTypes, UserTypes, AgentTypes, GateTypes
  <1>1. CASE Works(t)
    <2>1. /\ pc[t] \in Alive /\ pc'[t] \in Alive \cup {"done"}
          /\ \A u \in Turns : u # t => pc'[u] = pc[u]
          /\ UNCHANGED <<active, flagged, asked, told>>
          /\ used'["overlap"] = used["overlap"] /\ spoiled \subseteq spoiled'
      BY <1>0, <1>1, TurnMoves
    <2>2. used'["overlap"] = 0 => Sole'
      BY <1>0, <2>1 DEF Control, Sole, Alive, Early, Working, Ending
    <2>3. active' # None => pc'[active'] \in Alive \cup {"done"}
      BY <1>0, <2>1 DEF Control, Held
    <2>4. evOwner' # None => pc'[evOwner'] \in Early \cup Working
      <3>1. \/ evOwner' = None
            \/ evOwner' = t /\ pc'[t] \in Early
            \/ evOwner' = evOwner /\ (pc'[t] \in Early \cup Working \/ pc[t] \in Ending)
        <4>1. CASE HopRefused(t) \/ ToolCancelled(t) \/ Returns(t) \/ Fails(t)
          BY <4>1 DEF HopRefused, ToolCancelled, Returns, Fails, Leave
        <4>2. CASE Begin(t) \/ Load(t) \/ Prepare(t) \/ Saved(t)
          BY <1>0, <4>2 DEF Begin, Load, Prepare, Saved, Early, Working
        <4>5. CASE HopStarts(t) \/ SpliceNext(t) \/ SpliceEnds(t)
          BY <1>0, <4>5 DEF HopStarts, SpliceNext, SpliceEnds, runVars, Working
        <4>3. CASE Outcome(t) /\ ~Fails(t)
          BY <1>0, <4>3 DEF Outcome, LlmCalls, ToolReturns, LlmAnswers, LlmDrafts, Working,
                agentVars
        <4>4. CASE RecoverySaved(t) \/ Ends(t) \/ Killed(t)
          BY <1>0, <4>4 DEF RecoverySaved, Ends, Killed, Leave, Ending, agentVars
        <4> QED BY <1>1, <4>1, <4>2, <4>3, <4>4, <4>5 DEF Works, TurnStep, Outcome
      <3> QED BY <1>0, <2>1, <3>1 DEF Control, Held, Early, Working, Ending
    <2>5. Dropped'
      <3>1. CASE Prepare(t) \/ Saved(t)
        BY <1>0, <3>1 DEF Prepare, Saved, Control, Dropped, Working, storeVars
      <3>2. CASE Ends(t)
        BY <1>0, <3>2 DEF Ends, Done, Control, Dropped
      <3>3. CASE Killed(t)
        BY <1>0, <3>3 DEF Killed, Leave, Done, Control, Dropped, Early, Working, Ending
      <3>4. CASE ~(Prepare(t) \/ Saved(t) \/ Ends(t) \/ Killed(t))
        <4>1. UNCHANGED <<stash, writes>>
          BY <1>1, <3>4 DEF Works, TurnStep, Outcome, Begin, Load, HopStarts, SpliceNext,
                SpliceEnds, HopRefused, ToolCancelled, Returns, RecoverySaved, LlmCalls,
                ToolReturns, LlmAnswers, LlmDrafts, Fails, agentVars, storeVars
        <4>2. pc[t] \in Working \cup Ending => pc'[t] \in Working \cup Ending
          BY <1>0, <1>1, <3>4 DEF Works, TurnStep, Outcome, Begin, Load, HopStarts,
                SpliceNext, SpliceEnds, HopRefused, ToolCancelled, Returns, RecoverySaved,
                LlmCalls, ToolReturns, LlmAnswers, LlmDrafts, Fails, Leave, runVars,
                Early, Working, Ending
        <4> QED BY <1>0, <2>1, <4>1, <4>2 DEF Control, Dropped
      <3> QED BY <3>1, <3>2, <3>3, <3>4
    <2> QED BY <2>2, <2>3, <2>4, <2>5 DEF Control, Held
  <1>2. CASE TurnOver(t)
    <2>1. /\ pc[t] = "done" /\ pc' = [pc EXCEPT ![t] = "over"]
          /\ active' = (IF active = t THEN None ELSE active) /\ flagged' = FALSE
          /\ told' = (IF flagged THEN [told EXCEPT ![t] = @ + 1] ELSE told)
          /\ UNCHANGED <<asked, evOwner, stash, writes, spoiled, used>>
      BY <1>2 DEF TurnOver, agentVars, storeVars
    <2>2. Held' /\ Dropped'
      BY <1>0, <2>1 DEF Control, Held, Dropped, Alive, Early, Working, Ending
    <2>3. used["overlap"] = 0 => Sole'
      <3> SUFFICES ASSUME Sole PROVE Sole'
        BY DEF Control
      <3>1. active = t /\ active' = None
        BY <2>1 DEF Sole
      <3>2. told'[t] = (IF t \in asked' THEN 1 ELSE 0)
        <4>1. told[t] = 0 /\ flagged = (t \in asked)
          BY <1>0, <2>1, <3>1 DEF Sole
        <4>2. told[t] + 1 = 1
          BY <4>1
        <4>3. told'[t] = IF flagged THEN 1 ELSE 0
          BY <1>0, <2>1, <4>1, <4>2
        <4> QED BY <2>1, <4>1, <4>3
      <3>3. \A u \in Turns : u # t => told'[u] = told[u]
        BY <1>0, <2>1
      <3> QED BY <1>0, <2>1, <3>1, <3>2, <3>3 DEF Sole, Alive, Early, Working, Ending
    <2> QED BY <2>1, <2>2, <2>3 DEF Control
  <1> QED BY <1>1, <1>2

\* Other actions keep it.
LEMMA ControlElse ==
    ASSUME TypeInv, Control, Else
    PROVE  Control'
  <1>0. /\ pc \in [Turns -> Alive \cup {"unused", "done", "over", "lost"}]
        /\ used \in [Events -> Nat]
        /\ {"rewind", "clear", "crash", "overlap", "outage"} \subseteq Events
        /\ evOwner \in Turns \cup {None}
        /\ stash # None => stash.turn \in Turns
    BY DEF TypeInv, Types, RunTypes, UserTypes, AgentTypes, Events
  <1>1. CASE Crash
    <2>1. used'["overlap"] = used["overlap"] /\ spoiled \subseteq spoiled'
      BY <1>0, <1>1 DEF Crash, Spend
    <2> QED BY <1>0, <1>1, <2>1
            DEF Crash, Control, Held, Dropped, Sole, Alive, Early, Working, Ending, userVars
  <1>2. CASE ~Crash
    <2>1. /\ UNCHANGED <<pc, active, flagged, asked, told, stash>>
          /\ evOwner' \in {evOwner, None} /\ writes' \subseteq writes /\ spoiled \subseteq spoiled'
      BY <1>2 DEF Else, WriteLands, Rewind, ClearSession, StoreFails, StoreServes, vars,
                  runVars, gateVars, agentVars, userVars
    <2>2. used'["overlap"] = used["overlap"]
      BY <1>0, <1>2 DEF Else, WriteLands, Rewind, ClearSession, StoreFails, StoreServes,
                        vars, Spend
    <2> QED BY <1>0, <2>1, <2>2 DEF Control, Held, Dropped, Sole
  <1> QED BY <1>1, <1>2

\* Who holds what is always as Control says.
LEMMA ControlCorrect == Spec => []Control
  <1>1. Init => Control
    BY DEF Init, Control, Held, Dropped, Sole, Alive, Early, Working, Ending
  <1>2. TypeInv /\ Control /\ [Next]_vars => Control'
    BY Actors, ControlGate, ControlTurn, ControlElse
  <1>3. Spec => []TypeInv
    BY TypeInit, TypeStep, PTL DEF Spec
  <1> QED BY <1>1, <1>2, <1>3, PTL DEF Spec

\* One turn_cancelled event for each turn a cancel was requested for, and none
\* for the others, whatever the stops, kills and crashes, as long as the tabs
\* do not run turns at once (app.py:2932-2939).
THEOREM StopsReported == Spec => []StopReported
  <1>1. Control => StopReported
    BY DEF Control, Sole, StopReported, Orderly
  <1> QED BY <1>1, ControlCorrect, PTL

\* Between turns no cancel event is registered and no turn is referred to, also
\* when tabs ran turns at once; the stash is dropped unless a kill cut the
\* finally block short.
THEOREM CleanBetween == Spec => []IdleIsClean
  <1>1. TypeInv /\ Control => IdleIsClean
    <2> SUFFICES ASSUME TypeInv, Control, Idle
                 PROVE  /\ evOwner = None /\ active = None
                        /\ Orderly({"cut", "meddled"}) => stash = None /\ ~flagged
      BY DEF IdleIsClean
    <2>1. /\ active \in Turns \cup {None} /\ evOwner \in Turns \cup {None}
          /\ stash # None => stash.turn \in Turns
      BY DEF TypeInv, Types, AgentTypes, GateTypes
    <2>2. evOwner = None /\ active = None
      BY <2>1 DEF Idle, Control, Held, Alive
    <2>3. Orderly({"cut", "meddled"}) => stash = None /\ ~flagged
      BY <2>1, <2>2 DEF Idle, Control, Dropped, Sole, Orderly, Alive
    <2> QED BY <2>2, <2>3
  <1>2. Spec => []TypeInv
    BY TypeInit, TypeStep, PTL DEF Spec
  <1> QED BY <1>1, <1>2, ControlCorrect, PTL

-----------------------------------------------------------------------------
(* The history in memory and the stored one *)

Saving == {"midsave", "answer", "post"}

\* What a turn saves is the history, in its finally block and before; and memory
\* and store agree when no turn is at it and the last save was not refused.
Stored ==
    Orderly({"cut", "meddled"}) =>
        /\ (\A t \in Turns : pc[t] \notin {"prep"} \cup Working \cup Ending)
              /\ hist # None /\ ~stale => disk = hist
        /\ \A t \in Turns : pc[t] \in Ending => save[t] = hist /\ hist # None
        /\ \A t \in Turns : pc[t] \in Saving => hist = msgs[t]

\* A list is a loaded history.
LEMMA ListsLoaded == \A q \in Seq(Entries) : q # None
  BY ConstantsAssumption

\* A turn leaves with the history it is going to save.
LEMMA LeaveSaves ==
    ASSUME TypeInv, NEW t \in Turns, NEW ok \in BOOLEAN, pc[t] \in Early \cup Working,
           Leave(t, ok), ok => hist # None
    PROVE  /\ hist' \in Seq(Entries) /\ save' = [save EXCEPT ![t] = hist']
           /\ pc'[t] \in Ending
           /\ ok => hist' = hist
  <1>1. user[t] \in Msgs /\ Hist \in Seq(Entries)
        /\ pc \in [Turns -> Alive \cup {"unused", "done", "over", "lost"}]
        /\ hist \in Seq(Entries) \cup {None}
    BY DEF TypeInv, Types, TurnData, AgentTypes, RunTypes, Alive, Early, Working, Ending, Hist
  <1>2. stash # None => Stashed \in Seq(Entries)
    BY StashedType
  <1>3. /\ stash # None => Recovered(Stashed, t) \in Seq(Entries)
        /\ Apology(Hist, user[t], t) \in Seq(Entries)
    BY <1>1, <1>2, RecoveredType, ApologyType
  <1>4. \/ ok /\ hist' = hist /\ save' = [save EXCEPT ![t] = Hist]
        \/ ~ok /\ hist' \in Seq(Entries) /\ save' = [save EXCEPT ![t] = hist']
    BY <1>3 DEF Leave
  <1>5. pc'[t] \in Ending
    BY <1>1 DEF Leave, Ending
  <1> QED BY <1>1, <1>4, <1>5 DEF Hist

\* What is asked of a state in which no two turns ran at once.
LEMMA Alone ==
    ASSUME Control, TypeInv, used["overlap"] = 0, NEW t \in Turns, pc[t] \in Alive \cup {"done"}
    PROVE  \A u \in Turns : u # t => pc[u] \notin Alive \cup {"done"}
  BY DEF Control, Sole

\* A turn keeps what is loaded and stored.
LEMMA StoredTurn ==
    ASSUME TypeInv, Control, Stored, Orderly({"cut", "meddled"}),
           Orderly({"cut", "meddled"})', NEW t \in Turns, Works(t) \/ TurnOver(t)
    PROVE  Stored'
  <1>0. /\ pc \in [Turns -> Alive \cup {"unused", "done", "over", "lost"}]
        /\ save \in [Turns -> Seq(Entries)] /\ msgs \in [Turns -> Seq(Entries)]
        /\ hist \in Seq(Entries) \cup {None}
    BY DEF TypeInv, Types, RunTypes, TaskTypes, AgentTypes
  <1>1. \A q \in Seq(Entries) : q # None
    BY ListsLoaded
  <1>2. /\ pc[t] \in Alive \cup {"done"}
        /\ \A u \in Turns : u # t => pc'[u] = pc[u] /\ pc[u] \notin Alive \cup {"done"}
    <2>1. pc[t] \in Alive \cup {"done"}
      BY TurnMoves DEF TurnOver
    <2>2. \A u \in Turns : u # t => pc'[u] = pc[u]
      <3>1. CASE Works(t)
        <4>1. pc' = [pc EXCEPT ![t] = pc'[t]]
          BY <3>1, TurnMoves
        <4> QED BY <1>0, <4>1
      <3>2. CASE TurnOver(t)
        BY <1>0, <3>2 DEF TurnOver
      <3> QED BY <3>1, <3>2
    <2>3. used["overlap"] = 0
      BY DEF Orderly
    <2> QED BY <2>1, <2>2, <2>3, Alone
  <1>3. \A u \in Turns : u # t =>
           /\ pc[u] \notin {"prep"} \cup Working \cup Ending
           /\ pc'[u] \notin {"prep"} \cup Working \cup Ending
    BY <1>2 DEF Alive, Early
  <1>4. /\ pc[t] \notin {"prep"} \cup Working \cup Ending /\ hist # None /\ ~stale => disk = hist
        /\ pc[t] \in Ending => save[t] = hist /\ hist # None
        /\ pc[t] \in Saving => hist = msgs[t]
    BY <1>3 DEF Stored
  <1>5. SUFFICES
        /\ pc'[t] \notin {"prep"} \cup Working \cup Ending /\ hist' # None /\ ~stale'
              => disk' = hist'
        /\ pc'[t] \in Ending => save'[t] = hist' /\ hist' # None
        /\ pc'[t] \in Saving => hist' = msgs'[t]
    BY <1>3 DEF Stored, Saving, Working
  <1>6. CASE Begin(t) \/ Load(t) \/ Prepare(t) \/ HopStarts(t)
    BY <1>0, <1>4, <1>6 DEF Begin, Load, Prepare, HopStarts, Early, Working, Ending, Saving,
                            storeVars
  <1>7. CASE SpliceNext(t) \/ SpliceEnds(t)
    BY <1>0, <1>7 DEF SpliceNext, SpliceEnds, runVars, Working, Ending, Saving
  <1>8. CASE Saved(t)
    BY <1>0, <1>4, <1>8 DEF Saved, Working, Ending, Saving, taskVars
  <1>9. CASE HopRefused(t) \/ ToolCancelled(t) \/ Returns(t) \/ Fails(t)
             \/ (Killed(t) /\ pc[t] \in Early \cup Working)
    <2>1. /\ pc[t] \in Early \cup Working
          /\ \E ok \in BOOLEAN : Leave(t, ok) /\ (ok => pc[t] = "post")
      BY <1>9 DEF HopRefused, ToolCancelled, Returns, Fails, Killed, Early, Working, Ending
    <2>2. hist' \in Seq(Entries) /\ save' = [save EXCEPT ![t] = hist'] /\ pc'[t] \in Ending
      BY <1>0, <1>1, <1>4, <2>1, LeaveSaves DEF Saving
    <2> QED BY <1>0, <1>1, <2>2 DEF Ending, Working, Saving
  <1>10. CASE Outcome(t) /\ ~Fails(t)
    BY <1>0, <1>10
       DEF Outcome, LlmCalls, ToolReturns, LlmAnswers, LlmDrafts, Working, Ending, Saving
  <1>11. CASE RecoverySaved(t) \/ Ends(t)
    BY <1>0, <1>4, <1>11
       DEF RecoverySaved, Ends, Done, Saves, Working, Ending, Saving, Hist, agentVars
  <1>12. CASE Killed(t) /\ pc[t] \notin Early \cup Working
    BY <1>12 DEF Killed, Ending, Orderly
  <1>13. CASE TurnOver(t)
    BY <1>0, <1>4, <1>13 DEF TurnOver, Working, Ending, Saving, agentVars, storeVars
  <1> QED BY <1>6, <1>7, <1>8, <1>9, <1>10, <1>11, <1>12, <1>13 DEF Works, TurnStep, Outcome

\* Every step keeps it.
LEMMA StoredStep ==
    ASSUME TypeInv, Control, Stored, [Next]_vars
    PROVE  Stored'
  <1> SUFFICES ASSUME Orderly({"cut", "meddled"})' PROVE Stored'
    BY DEF Stored
  <1>0. /\ pc \in [Turns -> Alive \cup {"unused", "done", "over", "lost"}]
        /\ Orderly({"cut", "meddled"})
    BY Remembered DEF TypeInv, Types, RunTypes, Orderly
  <1>1. ASSUME NEW c \in Conns, Gate(c)
        PROVE  Stored'
    <2>1. UNCHANGED <<hist, disk, stale, save, msgs>>
      BY <1>1 DEF Gate, Connect, Disconnect, HangUp, Announced, Stop, WatchdogFires,
                  LoopEnds, SendUser, TurnStarts, agentVars, storeVars, runVars, taskVars
    <2>2. \A t \in Turns : \/ pc'[t] = pc[t] \/ (pc[t] = "ask" /\ pc'[t] = "tool")
                           \/ (pc[t] = "unused" /\ pc'[t] = "created")
      BY <1>0, <1>1 DEF Gate, Connect, Disconnect, HangUp, Announced, Stop, WatchdogFires,
                  LoopEnds, SendUser, TurnStarts, runVars
    <2> QED BY <1>0, <2>1, <2>2 DEF Stored, Working, Ending, Saving
  <1>2. CASE Else
    <2>1. CASE \E q \in writes : WriteLands(q)
      BY <1>0, <2>1 DEF Control, Dropped, Orderly
    <2>2. CASE (\E i \in DOMAIN cps : Rewind(i)) \/ ClearSession
      <3>1. Running = {} /\ pc' = pc /\ (hist' = None \/ stale' \/ disk' = hist')
        <4>1. spoiled' = spoiled \cup Meddled \/ \E S : spoiled' = spoiled \cup Meddled \cup S
          BY <2>2 DEF Rewind, ClearSession
        <4>2. Running = {}
          BY <4>1 DEF Meddled, Orderly
        <4>3. CASE ClearSession
          BY <4>2, <4>3 DEF ClearSession, runVars
        <4>4. CASE \E i \in DOMAIN cps : Rewind(i)
          <5>1. UNCHANGED runVars /\ Saves(hist')
            BY <4>4 DEF Rewind
          <5> QED BY <4>2, <5>1 DEF Saves, runVars
        <4> QED BY <2>2, <4>3, <4>4
      <3>2. \A t \in Turns : pc[t] \notin {"prep"} \cup Working \cup Ending
        BY <3>1 DEF Running, Alive, Early
      <3> QED BY <3>1, <3>2 DEF Stored, Saving, Working
    <2>3. CASE Crash
      BY <1>0, <2>3 DEF Crash, Stored, Alive, Early, Working, Ending, Saving
    <2>4. CASE StoreFails \/ StoreServes \/ UNCHANGED vars
      <3>1. UNCHANGED <<pc, hist, disk, stale, save, msgs>>
        BY <2>4 DEF StoreFails, StoreServes, vars, runVars, taskVars, agentVars
      <3> QED BY <1>0, <3>1 DEF Stored
    <2> QED BY <1>2, <2>1, <2>2, <2>3, <2>4 DEF Else
  <1> QED BY <1>0, <1>1, <1>2, StoredTurn, Actors

\* What is loaded and stored is always as Stored says.
LEMMA StoredCorrect == Spec => []Stored
  <1>1. Init => Stored
    BY DEF Init, Stored, Working, Ending, Saving
  <1>2. TypeInv /\ Control /\ Stored /\ [Next]_vars => Stored'
    BY StoredStep
  <1>3. Spec => []TypeInv
    BY TypeInit, TypeStep, PTL DEF Spec
  <1> QED BY <1>1, <1>2, <1>3, ControlCorrect, PTL DEF Spec

\* Between turns the stored row is the history in memory, through stops, kills,
\* failures, rewinds, restarts and a store that refuses saves for a while: unless
\* the last save is the one refused, what the next daemon would load is what this
\* one would go on with (history_compression.py:883-887).
THEOREM StoredBetween == Spec => []IdleIsStored
  <1>1. Stored => IdleIsStored
    BY DEF Stored, IdleIsStored, Idle, Alive, Early
  <1> QED BY <1>1, StoredCorrect, PTL

-----------------------------------------------------------------------------
(* Where the messages of the lists come from *)

\* Every list, the kept and the working ones, is in L; after a step, in M.
Lists(L) ==
    /\ msgs \in [Turns -> L] /\ save \in [Turns -> L]
    /\ hist \in L \cup {None}
    /\ disk \in L /\ log \in L /\ writes \subseteq L
NextLists(M) ==
    /\ msgs' \in [Turns -> M] /\ save' \in [Turns -> M]
    /\ hist' \in M \cup {None}
    /\ disk' \in M /\ log' \in M /\ writes' \subseteq M

\* A set of lists that cutting, repairing and finishing them cannot leave.
Stable(L) ==
    /\ L \subseteq Seq(Entries) /\ <<>> \in L
    /\ \A q \in L : Mended(q) \in L /\ \A n \in 0 .. Len(q) : SubSeq(q, 1, n) \in L
    /\ \A q \in L, m \in Msgs : Append(q, User(m)) \in L
    /\ \A q \in L, t \in Turns : Append(q, Reply(t)) \in L /\ Append(q, Sorry(t)) \in L

\* What the finally block makes of lists of L.
LEMMA LeaveLists ==
    ASSUME TypeInv, NEW L, Stable(L), Lists(L), NEW t \in Turns, NEW ok \in BOOLEAN,
           pc[t] \in Early \cup Working, Leave(t, ok)
    PROVE  hist' \in L \cup {None} /\ save' \in [Turns -> L]
  <1>1. user[t] \in Msgs /\ Hist \in L
    BY DEF TypeInv, TurnData, Early, Working, Hist, Lists, Stable
  <1>2. stash # None => Stashed \in L
    <2> SUFFICES ASSUME stash # None PROVE Stashed \in L
      OBVIOUS
    <2>1. stash.turn \in Turns /\ stash.len \in 0 .. Len(msgs[stash.turn])
          /\ msgs[stash.turn] \in L
      BY DEF TypeInv, Types, AgentTypes, TurnData, TaskTypes, Lists
    <2>2. SubSeq(msgs[stash.turn], 1, stash.len) \in L
      BY <2>1 DEF Stable
    <2> QED BY <2>1, <2>2 DEF Stashed
  <1>3. stash # None => Recovered(Stashed, t) \in L
    BY <1>2 DEF Stable, Recovered
  <1>4. Apology(Hist, user[t], t) \in L
    <2>1. Append(Hist, Sorry(t)) \in L /\ Append(Append(Hist, User(user[t])), Sorry(t)) \in L
      BY <1>1 DEF Stable
    <2>2. \A q \in Seq(Entries), a, b \in Entries : q \o <<a, b>> = Append(Append(q, a), b)
      OBVIOUS
    <2>3. Hist \in Seq(Entries) /\ User(user[t]) \in Entries /\ Sorry(t) \in Entries
      BY <1>1, MakeEntries DEF Stable
    <2>4. Hist \o <<User(user[t]), Sorry(t)>> = Append(Append(Hist, User(user[t])), Sorry(t))
      BY <2>2, <2>3
    <2> QED BY <2>1, <2>4 DEF Apology
  <1>5. \/ hist' = hist /\ save' = [save EXCEPT ![t] = Hist]
        \/ hist' \in L /\ save' = [save EXCEPT ![t] = hist']
    BY <1>3, <1>4 DEF Leave
  <1> QED BY <1>1, <1>5 DEF Lists

\* A step of turn t that may splice, and one that splices m.
Splicing(t) == HopStarts(t) \/ SpliceNext(t) \/ SpliceEnds(t)
Splices(t, m) ==
    Splicing(t) /\ Splice(t, m) /\ SplicedNext(t, m)

\* A step keeps the lists in a stable set if what the model, the tools and the user
\* add does.
LEMMA ListsStep ==
    ASSUME TypeInv, NEW L, Stable(L), Lists(L), [Next]_vars,
           \A t \in Turns, tool \in {"tool", "ask"} : LlmCalls(t, tool) =>
               Append(msgs[t], Call(t, hops[t])) \in L /\ Append(log, Call(t, hops[t])) \in L,
           \A t \in Turns : ToolReturns(t) =>
               Append(msgs[t], Result(t, hops[t])) \in L /\ Append(log, Result(t, hops[t])) \in L,
           \A t \in Turns : LlmDrafts(t) =>
               Append(msgs[t], Draft(t, hops[t])) \in L /\ Append(log, Draft(t, hops[t])) \in L,
           \A t \in Turns, m \in Msgs : Splices(t, m) => Append(msgs[t], Steer(m)) \in L
    PROVE  NextLists(L)
  <1>1. ASSUME NEW c \in Conns, Gate(c)
        PROVE  NextLists(L)
    <2>1. UNCHANGED <<msgs, save, hist, disk, log, writes>>
      BY <1>1 DEF Gate, Connect, Disconnect, HangUp, Announced, Stop, WatchdogFires,
                  LoopEnds, SendUser, TurnStarts, taskVars, agentVars, storeVars, runVars
    <2> QED BY <2>1 DEF Lists, NextLists
  <1>2. ASSUME NEW t \in Turns, TurnOver(t)
        PROVE  NextLists(L)
    <2>1. UNCHANGED <<msgs, save, hist, disk, log, writes>>
      BY <1>2 DEF TurnOver, taskVars, agentVars, storeVars, runVars
    <2> QED BY <2>1 DEF Lists, NextLists
  <1>3. CASE Else
    <2>1. CASE \E q \in writes : WriteLands(q)
      BY <2>1 DEF WriteLands, Saves, Lists, NextLists, taskVars, agentVars, runVars
    <2>2. CASE \E i \in DOMAIN cps : Rewind(i)
      <3>1. PICK i \in DOMAIN cps : Rewind(i)
        BY <2>2
      <3>2. Hist \in L /\ Len(Hist) \in Nat /\ cps[i].len \in Nat
        <4>1. Hist \in L /\ L \subseteq Seq(Entries)
          BY DEF Lists, Hist, Stable
        <4>2. cps[i] \in [turn : Turns, len : Nat, blind : BOOLEAN]
          BY Beginning DEF TypeInv, Types, AgentTypes
        <4> QED BY <4>1, <4>2
      <3>3. (IF cps[i].len < Len(Hist) THEN cps[i].len ELSE Len(Hist)) \in 0 .. Len(Hist)
        BY <3>2
      <3>4. hist' \in L /\ disk' \in {disk, hist'}
        BY <3>1, <3>2, <3>3 DEF Rewind, Saves, Stable
      <3> QED BY <3>1, <3>4 DEF Rewind, Lists, NextLists, taskVars, runVars
    <2>3. CASE ClearSession
      BY <2>3 DEF ClearSession, Saves, Lists, NextLists, Stable, taskVars, runVars
    <2>4. CASE Crash
      BY <2>4 DEF Crash, Lists, NextLists, taskVars
    <2>5. CASE StoreFails \/ StoreServes \/ UNCHANGED vars
      BY <2>5 DEF StoreFails, StoreServes, vars, Lists, NextLists, taskVars, agentVars,
                  runVars
    <2> QED BY <1>3, <2>1, <2>2, <2>3, <2>4, <2>5 DEF Else
  <1>4. ASSUME NEW t \in Turns, Works(t)
        PROVE  NextLists(L)
    <2>0. /\ msgs \in [Turns -> L] /\ save \in [Turns -> L]
          /\ disk \in L /\ log \in L /\ writes \subseteq L
          /\ hist \in L \cup {None} /\ Hist \in L /\ <<>> \in L
      BY DEF Lists, Hist, Stable
    <2>1. CASE Begin(t)
      BY <2>1 DEF Begin, Lists, NextLists, taskVars, storeVars
    <2>2. CASE Load(t)
      <3>1. user[t] \in Msgs
        BY <2>2 DEF Load, TypeInv, TurnData
      <3>2. log' \in L
        BY <2>0, <2>2, <3>1 DEF Load, Stable
      <3>3. Mended(log') \in L
        BY <3>2 DEF Stable
      <3>4. hist' \in L \cup {None}
        BY <2>0, <2>2, <3>3 DEF Load
      <3> QED BY <2>0, <2>2, <3>2, <3>4 DEF Load, Lists, NextLists, taskVars
    <2>3. CASE Prepare(t)
      <3>1. user[t] \in Msgs
        BY <2>3 DEF Prepare, TypeInv, TurnData
      <3>2. Append(Hist, User(user[t])) \in L
        BY <2>0, <3>1 DEF Stable
      <3> QED BY <2>0, <2>3, <3>2 DEF Prepare, Lists, NextLists, storeVars
    <2>4. CASE Splicing(t)
      <3>1. UNCHANGED <<save, hist, disk, log, writes>>
        BY <2>4 DEF Splicing, HopStarts, SpliceNext, SpliceEnds, storeVars, runVars
      <3>2. msgs' = msgs \/ \E m \in Msgs : Splices(t, m)
        BY <2>4, SpliceMessage DEF Splicing, Splices
      <3>3. msgs' \in [Turns -> L]
        <4>1. ASSUME NEW m \in Msgs, Splices(t, m)
              PROVE  msgs' \in [Turns -> L]
          <5>1. Append(msgs[t], Steer(m)) \in L
            BY <4>1
          <5>2. msgs' = [msgs EXCEPT ![t] = Append(msgs[t], Steer(m))]
            BY <4>1 DEF Splices, Splice
          <5> QED BY <2>0, <5>1, <5>2
        <4> QED BY <2>0, <3>2, <4>1
      <3> QED BY <2>0, <3>1, <3>3 DEF Lists, NextLists
    <2>5. CASE Outcome(t) /\ ~Fails(t)
      <3>1. PICK e \in Entries :
              /\ msgs' = [msgs EXCEPT ![t] = Append(msgs[t], e)]
              /\ log' = Append(log, e)
              /\ Append(msgs[t], e) \in L /\ Append(log, e) \in L
        <4>1. CASE \E tool \in {"tool", "ask"} : LlmCalls(t, tool)
          <5>1. Call(t, hops[t]) \in Entries
            BY MakeEntries DEF TypeInv, Types, TaskTypes
          <5> QED BY <4>1, <5>1 DEF LlmCalls
        <4>2. CASE ToolReturns(t)
          <5>1. Result(t, hops[t]) \in Entries
            BY MakeEntries DEF TypeInv, Types, TaskTypes
          <5> QED BY <4>2, <5>1 DEF ToolReturns
        <4>3. CASE LlmAnswers(t)
          <5>1. Reply(t) \in Entries /\ Append(msgs[t], Reply(t)) \in L
                /\ Append(log, Reply(t)) \in L
            BY <2>0, MakeEntries DEF Stable
          <5> QED BY <4>3, <5>1 DEF LlmAnswers
        <4>4. CASE LlmDrafts(t)
          <5>1. Draft(t, hops[t]) \in Entries
            BY MakeEntries DEF TypeInv, Types, TaskTypes
          <5> QED BY <4>4, <5>1 DEF LlmDrafts
        <4> QED BY <2>5, <4>1, <4>2, <4>3, <4>4 DEF Outcome
      <3>2. msgs'[t] \in L /\ msgs' \in [Turns -> L]
        BY <2>0, <3>1
      <3>3. /\ hist' = hist \/ hist' = msgs'[t]
            /\ UNCHANGED <<save, disk, writes>>
        BY <2>5 DEF Outcome, LlmCalls, ToolReturns, LlmAnswers, LlmDrafts, agentVars
      <3> QED BY <2>0, <3>1, <3>2, <3>3 DEF Lists, NextLists
    <2>6. CASE Saved(t)
      <3>1. hist' \in {hist, msgs[t]} /\ disk' \in {disk, msgs[t]}
            /\ UNCHANGED <<msgs, save, log, writes>>
        BY <2>6 DEF Saved, Saves, taskVars
      <3> QED BY <2>0, <3>1 DEF Lists, NextLists
    <2>7. CASE HopRefused(t) \/ ToolCancelled(t) \/ Returns(t) \/ Fails(t)
      <3>1. /\ \E ok \in BOOLEAN : Leave(t, ok)
            /\ UNCHANGED <<msgs, log, writes>> /\ pc[t] \in Early \cup Working
            /\ disk' \in {disk, msgs[t]}
        BY <2>7 DEF HopRefused, ToolCancelled, Returns, Fails, Saves, taskVars, storeVars,
                    Early, Working
      <3>2. hist' \in L \cup {None} /\ save' \in [Turns -> L]
        BY <3>1, LeaveLists
      <3> QED BY <2>0, <3>1, <3>2 DEF Lists, NextLists
    <2>8. CASE RecoverySaved(t) \/ Ends(t)
      <3>1. PICK x \in L : save' = [save EXCEPT ![t] = x]
        BY <2>0, <2>8 DEF RecoverySaved, Ends, Done
      <3>2. UNCHANGED <<msgs, hist, log, writes>> /\ disk' \in {disk, save[t]}
        BY <2>8 DEF RecoverySaved, Ends, Saves, taskVars, agentVars
      <3> QED BY <2>0, <3>1, <3>2 DEF Lists, NextLists
    <2>9. CASE Killed(t)
      <3>1. hist' \in L \cup {None} /\ save' \in [Turns -> L]
        <4>1. CASE pc[t] \in Early \cup Working /\ Leave(t, FALSE)
          BY <4>1, LeaveLists
        <4>2. CASE pc[t] \in Ending /\ Done(t) /\ hist' = hist
          BY <2>0, <4>2 DEF Done
        <4> QED BY <2>9, <4>1, <4>2 DEF Killed
      <3>2. \E x \in {{msgs[t]}, {save[t]}, {}} : writes' = writes \cup x
        BY <2>9 DEF Killed
      <3>3. UNCHANGED <<msgs, disk, log>>
        BY <2>9 DEF Killed, taskVars
      <3> QED BY <2>0, <3>1, <3>2, <3>3 DEF Lists, NextLists
    <2> QED BY <1>4, <2>1, <2>2, <2>3, <2>4, <2>5, <2>6, <2>7, <2>8, <2>9
            DEF Works, TurnStep, Outcome, Splicing
  <1> QED BY <1>1, <1>2, <1>3, <1>4, Actors

\* Every list has only messages of X; after a step, of Y.
Within(X) == Lists(Seq(X))
NextWithin(Y) == NextLists(Seq(Y))

\* A set of messages that the repair cannot leave.
Closed(X) ==
    /\ X \subseteq Entries
    /\ \A e \in X : IsCall(e) => Void(e[2], e[3]) \in X
    /\ \A m \in Msgs : User(m) \in X
    /\ \A t \in Turns : Reply(t) \in X /\ Sorry(t) \in X

\* Lists over a set are lists over a larger one.
LEMMA SeqWider ==
    ASSUME NEW X, NEW Y, X \subseteq Y
    PROVE  Seq(X) \subseteq Seq(Y)
  OBVIOUS

\* A list is over any set its members are in.
LEMMA SeqMembers ==
    ASSUME NEW X, NEW Y, NEW q \in Seq(Y), \A i \in DOMAIN q : q[i] \in X
    PROVE  q \in Seq(X)
  OBVIOUS

\* The repair of a list over a closed set is over it.
LEMMA MendedWithin ==
    ASSUME NEW X, Closed(X), NEW q \in Seq(X)
    PROVE  Mended(q) \in Seq(X)
  <1>1. q \in Seq(Entries) /\ \A e \in ToSet(q) : e \in X
    BY DEF Closed, ToSet
  <1>2. /\ Mended(q) \in Seq(Entries)
        /\ \A e \in ToSet(Mended(q)) : e \in ToSet(q) \/
              \E c \in ToSet(q) : IsCall(c) /\ e = Void(c[2], c[3])
    BY <1>1, MendedElems
  <1>3. \A e \in ToSet(Mended(q)) : e \in X
    BY <1>1, <1>2 DEF Closed
  <1> DEFINE r == Mended(q)
  <1>4. \A i \in DOMAIN r : r[i] \in X
    BY <1>3 DEF ToSet
  <1> HIDE DEF r
  <1> QED BY <1>2, <1>4, SeqMembers DEF r

\* The lists over a closed set are stable.
LEMMA ClosedStable ==
    ASSUME NEW X, Closed(X)
    PROVE  Stable(Seq(X))
  <1>1. Seq(X) \subseteq Seq(Entries) /\ <<>> \in Seq(X)
    BY SeqWider DEF Closed
  <1>2. \A q \in Seq(X) : Mended(q) \in Seq(X)
    BY MendedWithin
  <1>3. \A q \in Seq(X) : \A n \in 0 .. Len(q) : SubSeq(q, 1, n) \in Seq(X)
    BY Beginning
  <1>4. \A q \in Seq(X), e \in X : Append(q, e) \in Seq(X)
    OBVIOUS
  <1>5. /\ \A q \in Seq(X), m \in Msgs : Append(q, User(m)) \in Seq(X)
        /\ \A q \in Seq(X), t \in Turns : /\ Append(q, Reply(t)) \in Seq(X)
                                          /\ Append(q, Sorry(t)) \in Seq(X)
    BY <1>4 DEF Closed
  <1> QED BY <1>1, <1>2, <1>3, <1>5 DEF Stable

\* A step keeps the lists within a set that has what the model, the tools and
\* the user add in it.
LEMMA WithinStep ==
    ASSUME TypeInv, NEW X, NEW Y, Within(X), X \subseteq Y, Closed(Y), [Next]_vars,
           \A t \in Turns, tool \in {"tool", "ask"} : LlmCalls(t, tool) => Call(t, hops[t]) \in Y,
           \A t \in Turns : ToolReturns(t) => Result(t, hops[t]) \in Y,
           \A t \in Turns : LlmDrafts(t) => Draft(t, hops[t]) \in Y,
           \A t \in Turns, m \in Msgs : Splices(t, m) => Steer(m) \in Y
    PROVE  NextWithin(Y)
  <1>1. Lists(Seq(Y))
    <2>1. Seq(X) \subseteq Seq(Y)
      BY SeqWider
    <2>2. /\ \A t \in Turns : msgs[t] \in Seq(Y) /\ save[t] \in Seq(Y)
          /\ hist \in Seq(Y) \cup {None} /\ disk \in Seq(Y) /\ log \in Seq(Y)
          /\ writes \subseteq Seq(Y)
          /\ msgs \in [Turns -> Seq(X)] /\ save \in [Turns -> Seq(X)]
      BY <2>1 DEF Within, Lists
    <2> QED BY <2>2 DEF Lists
  <1>2. \A t \in Turns : msgs[t] \in Seq(Y) /\ log \in Seq(Y)
    BY <1>1 DEF Lists
  <1>3. \A q \in Seq(Y), e \in Y : Append(q, e) \in Seq(Y)
    OBVIOUS
  <1> QED BY <1>1, <1>2, <1>3, ClosedStable, ListsStep DEF NextWithin

\* A call and its answers are of a hop the turn has made, or is making while it
\* waits for the tool or after it stopped there.
Asking == {"ask", "tool", "recover", "save", "done", "over", "lost"}
Spoke(e) ==
    e[1] \in {"call", "result", "void"} =>
        e[3] < hops[e[2]] \/ (e[3] = hops[e[2]] /\ pc[e[2]] \in Asking)
Said == {e \in Entries : Spoke(e)}

\* What the kind of a message says of it.
LEMMA EntryKinds ==
    ASSUME NEW e \in Entries
    PROVE  /\ e[1] \in {"call", "result", "void"} => e[2] \in Turns /\ e[3] \in 0 .. MaxHops
           /\ IsCall(e) => /\ e = Call(e[2], e[3]) /\ Void(e[2], e[3]) \in Entries
                           /\ Void(e[2], e[3])[2] = e[2] /\ Void(e[2], e[3])[3] = e[3]
           /\ e[1] = "steer" => e = Steer(e[2]) /\ e[2] \in Msgs
  <1>1. CASE \E m \in Msgs : e \in {User(m), Steer(m)}
    BY <1>1 DEF User, Steer, IsCall
  <1>2. CASE \E t \in Turns : e \in {Reply(t), Sorry(t)}
    BY <1>2 DEF Reply, Sorry, IsCall
  <1>3. CASE \E t \in Turns, h \in 0 .. MaxHops :
               e \in {Call(t, h), Result(t, h), Void(t, h), Draft(t, h)}
    <2>1. PICK t \in Turns, h \in 0 .. MaxHops :
               e \in {Call(t, h), Result(t, h), Void(t, h), Draft(t, h)}
      BY <1>3
    <2>2. Void(t, h) \in Entries
      BY MakeEntries
    <2> QED BY <2>1, <2>2 DEF Call, Result, Void, Draft, IsCall
  <1> QED BY <1>1, <1>2, <1>3, EntryForms

\* The kinds of the messages, for a glance.
LEMMA Kinds ==
    /\ \A m : User(m)[1] = "user" /\ Steer(m)[1] = "steer"
    /\ \A t : Reply(t)[1] = "reply" /\ Sorry(t)[1] = "sorry"
    /\ \A t, h : /\ Call(t, h)[1] = "call" /\ Result(t, h)[1] = "result"
                 /\ Void(t, h)[1] = "void" /\ Draft(t, h)[1] = "draft"
                 /\ Call(t, h)[2] = t /\ Result(t, h)[2] = t /\ Void(t, h)[2] = t
                 /\ Call(t, h)[3] = h /\ Result(t, h)[3] = h /\ Void(t, h)[3] = h
  BY DEF User, Steer, Reply, Sorry, Call, Result, Void, Draft

\* Hops only add up, and a turn that waits for its tool goes on to the next or
\* stops there.
LEMMA HopsGrow ==
    ASSUME TypeInv, [Next]_vars, NEW u \in Turns
    PROVE  \/ hops'[u] = hops[u] /\ (pc[u] \in Asking => pc'[u] \in Asking)
           \/ hops'[u] > hops[u]
  <1>0. /\ pc \in [Turns -> Alive \cup {"unused", "done", "over", "lost"}]
        /\ hops \in [Turns -> 0 .. MaxHops] /\ MaxHops \in Nat
    BY ConstantsAssumption DEF TypeInv, Types, RunTypes, TaskTypes
  <1>1. ASSUME NEW c \in Conns, Gate(c)
        PROVE  hops'[u] = hops[u] /\ (pc[u] \in Asking => pc'[u] \in Asking)
    <2>1. UNCHANGED hops
      BY <1>1 DEF Gate, Connect, Disconnect, HangUp, Announced, Stop, WatchdogFires,
                  LoopEnds, SendUser, TurnStarts, taskVars
    <2>2. \/ pc'[u] = pc[u] \/ (pc[u] = "ask" /\ pc'[u] = "tool") \/ pc[u] = "unused"
      BY <1>0, <1>1 DEF Gate, Connect, Disconnect, HangUp, Announced, Stop, WatchdogFires,
                  LoopEnds, SendUser, TurnStarts, runVars
    <2> QED BY <2>1, <2>2 DEF Asking
  <1>2. ASSUME NEW t \in Turns, TurnOver(t)
        PROVE  hops'[u] = hops[u] /\ (pc[u] \in Asking => pc'[u] \in Asking)
    BY <1>0, <1>2 DEF TurnOver, Asking, taskVars
  <1>3. CASE Else
    <2>1. hops' = hops /\ (pc' = pc \/ Crash)
      BY <1>3 DEF Else, WriteLands, Rewind, ClearSession, Crash, StoreFails, StoreServes,
                  vars, taskVars, runVars
    <2> QED BY <1>0, <2>1 DEF Crash, Asking
  <1>4. ASSUME NEW t \in Turns, Works(t)
        PROVE  \/ hops'[u] = hops[u] /\ (pc[u] \in Asking => pc'[u] \in Asking)
               \/ hops'[u] > hops[u]
    <2>1. CASE HopRefused(t) \/ ToolCancelled(t) \/ Returns(t) \/ Fails(t)
      BY <1>0, <2>1 DEF HopRefused, ToolCancelled, Returns, Fails, Leave, Asking, taskVars
    <2>2. CASE Begin(t) \/ Load(t) \/ Prepare(t) \/ Splicing(t) \/ Saved(t)
      BY <1>0, <2>2 DEF Begin, Load, Prepare, Splicing, HopStarts, SpliceNext, SpliceEnds,
                        Saved, Asking, taskVars, runVars
    <2>3. CASE Outcome(t) /\ ~Fails(t)
      <3>1. \/ ToolReturns(t) \/ LlmDrafts(t)
            \/ hops' = hops /\ pc[t] = "llm" /\ \E y \in Working : pc' = [pc EXCEPT ![t] = y]
        BY <2>3 DEF Outcome, LlmCalls, LlmAnswers, Working
      <3>2. CASE ToolReturns(t) \/ LlmDrafts(t)
        BY <1>0, <3>2 DEF ToolReturns, LlmDrafts, Asking
      <3> QED BY <1>0, <3>1, <3>2 DEF Asking
    <2>4. CASE RecoverySaved(t) \/ Ends(t)
      BY <1>0, <2>4 DEF RecoverySaved, Ends, Done, Asking, taskVars
    <2>5. CASE Killed(t)
      BY <1>0, <2>5 DEF Killed, Leave, Done, Asking, taskVars
    <2> QED BY <1>4, <2>1, <2>2, <2>3, <2>4, <2>5 DEF Works, TurnStep, Outcome, Splicing
  <1> QED BY <1>1, <1>2, <1>3, <1>4, Actors

\* What turns have said, they have said.
LEMMA SaidGrows ==
    ASSUME TypeInv, [Next]_vars
    PROVE  Said \subseteq Said'
  <1> SUFFICES ASSUME NEW e \in Entries, Spoke(e), e[1] \in {"call", "result", "void"}
               PROVE  e[3] < hops'[e[2]] \/ (e[3] = hops'[e[2]] /\ pc'[e[2]] \in Asking)
    BY DEF Said, Spoke
  <1>1. e[2] \in Turns /\ e[3] \in 0 .. MaxHops
    BY EntryKinds
  <1>2. \/ hops'[e[2]] = hops[e[2]] /\ (pc[e[2]] \in Asking => pc'[e[2]] \in Asking)
        \/ hops'[e[2]] > hops[e[2]]
    BY <1>1, HopsGrow
  <1>3. hops[e[2]] \in Nat /\ hops'[e[2]] \in Nat /\ e[3] \in Nat
    BY <1>1, TypeStep, ConstantsAssumption DEF TypeInv, Types, TaskTypes
  <1> QED BY <1>2, <1>3 DEF Spoke

\* A call that was made has its stub among what may be said.
LEMMA SaidClosed == TypeInv => Closed(Said)
  <1>1. \A e \in Said : IsCall(e) => Void(e[2], e[3]) \in Said
    BY EntryKinds, Kinds DEF Said, Spoke, IsCall
  <1>2. /\ \A m \in Msgs : User(m) \in Said
        /\ \A t \in Turns : Reply(t) \in Said /\ Sorry(t) \in Said
    BY MakeEntries, Kinds DEF Said, Spoke
  <1> QED BY <1>1, <1>2 DEF Closed, Said

\* No step puts into a list what its turn has not said.
LEMMA SaidStep ==
    ASSUME TypeInv, Within(Said), [Next]_vars
    PROVE  Within(Said)'
  <1> DEFINE Y == Said'
  <1>0. /\ pc \in [Turns -> Alive \cup {"unused", "done", "over", "lost"}]
        /\ hops \in [Turns -> 0 .. MaxHops] /\ MaxHops \in Nat
        /\ \A t \in Turns : pc[t] \in {"llm", "ask", "tool"} => hops[t] < MaxHops
    BY ConstantsAssumption DEF TypeInv, Types, RunTypes, TaskTypes, TurnData
  <1>1. Said \subseteq Y
    BY SaidGrows
  <1>2. Closed(Y)
    <2>1. TypeInv'
      BY TypeStep
    <2>2. Closed(Said)'
      BY <2>1, SaidClosed, PTL
    <2> QED BY <2>2 DEF Closed
  <1>3. ASSUME NEW t \in Turns, NEW tool \in {"tool", "ask"}, LlmCalls(t, tool)
        PROVE  Call(t, hops[t]) \in Y
    <2>1. Call(t, hops[t]) \in Entries
      BY <1>0, MakeEntries
    <2>2. hops'[t] = hops[t] /\ pc'[t] \in Asking
      BY <1>0, <1>3 DEF LlmCalls, Asking
    <2> QED BY <2>1, <2>2, Kinds DEF Said, Spoke
  <1>4. ASSUME NEW t \in Turns, ToolReturns(t)
        PROVE  Result(t, hops[t]) \in Y
    <2>1. Result(t, hops[t]) \in Entries
      BY <1>0, MakeEntries
    <2>2. hops'[t] > hops[t]
      BY <1>0, <1>4 DEF ToolReturns
    <2> QED BY <1>0, <2>1, <2>2, Kinds DEF Said, Spoke
  <1>5. ASSUME NEW t \in Turns, LlmDrafts(t)
        PROVE  Draft(t, hops[t]) \in Y
    BY <1>0, MakeEntries, Kinds DEF Said, Spoke
  <1>6. ASSUME NEW m \in Msgs
        PROVE  Steer(m) \in Y
    BY MakeEntries, Kinds DEF Said, Spoke
  <1> HIDE DEF Y
  <1>7. NextWithin(Y)
    BY <1>1, <1>2, <1>3, <1>4, <1>5, <1>6, WithinStep
  <1> QED BY <1>7 DEF Within, NextWithin, Lists, NextLists, Y

\* Nothing is in a list before its turn has said it.
LEMMA SaidCorrect == Spec => []Within(Said)
  <1>1. Init => Within(Said)
    <2>1. \A X : <<>> \in Seq(X)
      OBVIOUS
    <2> QED BY <2>1 DEF Init, Within, Lists
  <1>2. TypeInv /\ Within(Said) /\ [Next]_vars => Within(Said)'
    BY SaidStep
  <1>3. Spec => []TypeInv
    BY TypeInit, TypeStep, PTL DEF Spec
  <1> QED BY <1>1, <1>2, <1>3, PTL DEF Spec

-----------------------------------------------------------------------------
(* Calls and their results *)

\* A list whose last message may be a call that nothing answers yet.
WellMade(q) == NearlyPaired(q) /\ (q # <<>> /\ IsCall(q[Len(q)]) => Open(q[Len(q)], q))

\* The list ends with the call of turn t's present hop, of which it has nothing
\* else.
Asks(q, t) ==
    /\ q # <<>> /\ q[Len(q)] = Call(t, hops[t])
    /\ \A i \in DOMAIN q : i < Len(q) /\ q[i][1] \in {"call", "result", "void"} =>
          q[i][2] # t \/ q[i][3] # hops[t]

\* A list can be cut behind its first n messages.
CutAt(q, n) == n <= Len(q) /\ (n # 0 => ~IsCall(q[n]))

\* Neither a call nor an answer.
Plain(e) == e[1] \notin {"call", "result", "void"}

\* The elements of a concatenation.
LEMMA Joined ==
    ASSUME NEW X, NEW q \in Seq(X), NEW r \in Seq(X)
    PROVE  /\ q \o r \in Seq(X)
           /\ DOMAIN (q \o r) = 1 .. Len(q) + Len(r)
           /\ Len(q \o r) = Len(q) + Len(r) /\ Len(q) \in Nat /\ Len(r) \in Nat
           /\ \A i \in 1 .. Len(q) : (q \o r)[i] = q[i]
           /\ \A i \in 1 .. Len(q \o r) : i > Len(q) => (q \o r)[i] = r[i - Len(q)]
  OBVIOUS

\* A paired list and messages that are no calls and no results.
LEMMA PairedConcat ==
    ASSUME NEW q \in Seq(Entries), NEW r \in Seq(Entries), Paired(q),
           \A i \in DOMAIN r : Plain(r[i])
    PROVE  Paired(q \o r)
  <1> DEFINE p == q \o r
  <1>1. /\ DOMAIN p = 1 .. Len(p) /\ Len(p) = Len(q) + Len(r)
        /\ Len(q) \in Nat /\ Len(r) \in Nat /\ DOMAIN q = 1 .. Len(q) /\ DOMAIN r = 1 .. Len(r)
        /\ \A i \in 1 .. Len(q) : p[i] = q[i]
        /\ \A i \in 1 .. Len(p) : i > Len(q) => p[i] = r[i - Len(q)]
    OBVIOUS
  <1> HIDE DEF p
  <1> SUFFICES ASSUME NEW i \in 1 .. Len(p)
               PROVE  /\ IsCall(p[i]) => i < Len(p) /\ AnswersCall(p[i + 1], p[i])
                      /\ p[i][1] \in {"result", "void"} =>
                            i > 1 /\ IsCall(p[i - 1]) /\ AnswersCall(p[i], p[i - 1])
    BY <1>1 DEF Paired, p
  <1>2. CASE i > Len(q)
    <2>1. i - Len(q) \in DOMAIN r
      BY <1>1, <1>2
    <2> QED BY <1>1, <1>2, <2>1 DEF Plain, IsCall
  <1>3. CASE i \in 1 .. Len(q)
    <2>1. p[i] = q[i]
      BY <1>1, <1>3
    <2>2. IsCall(q[i]) => i < Len(q) /\ i + 1 \in 1 .. Len(q) /\ AnswersCall(q[i + 1], q[i])
      BY <1>1, <1>3 DEF Paired
    <2>3. q[i][1] \in {"result", "void"} =>
             i > 1 /\ i - 1 \in 1 .. Len(q) /\ IsCall(q[i - 1]) /\ AnswersCall(q[i], q[i - 1])
      BY <1>1, <1>3 DEF Paired
    <2> QED BY <1>1, <2>1, <2>2, <2>3
  <1> QED BY <1>1, <1>2, <1>3

\* One such message.
LEMMA PairedAppend ==
    ASSUME NEW q \in Seq(Entries), NEW e \in Entries, Paired(q), Plain(e)
    PROVE  Paired(Append(q, e))
  <1>1. NearlyPaired(q) /\ (q # <<>> => ~IsCall(q[Len(q)]))
    BY PairedNearly
  <1>2. NearlyPaired(Append(q, e))
    BY <1>1, NearlyAppend DEF Plain
  <1>3. /\ Append(q, e) \in Seq(Entries) /\ Len(Append(q, e)) = Len(q) + 1
        /\ Append(q, e)[Len(q) + 1] = e
    OBVIOUS
  <1> QED BY <1>2, <1>3, PairedNearly DEF Plain, IsCall

\* A paired list is one whose last message may be an open call.
LEMMA PairedWellMade ==
    ASSUME NEW q \in Seq(Entries), Paired(q)
    PROVE  WellMade(q)
  BY PairedNearly DEF WellMade

\* Such a list has its calls answered at once or not at all.
LEMMA WellMadeRegular ==
    ASSUME NEW q \in Seq(Entries), WellMade(q)
    PROVE  Regular(q)
  <1>1. DOMAIN q = 1 .. Len(q) /\ Len(q) \in Nat /\ (q = <<>> => Len(q) = 0)
    OBVIOUS
  <1> SUFFICES ASSUME NEW i \in 1 .. Len(q)
               PROVE  /\ IsCall(q[i]) =>
                            Open(q[i], q) \/ (i < Len(q) /\ AnswersCall(q[i + 1], q[i]))
                      /\ q[i][1] \in {"result", "void"} =>
                            i > 1 /\ IsCall(q[i - 1]) /\ AnswersCall(q[i], q[i - 1])
    BY <1>1 DEF Regular
  <1>2. CASE i < Len(q)
    BY <1>1, <1>2 DEF WellMade, NearlyPaired
  <1>3. CASE i = Len(q)
    BY <1>1, <1>3 DEF WellMade, NearlyPaired
  <1> QED BY <1>1, <1>2, <1>3

\* The call at the end is open, and its result closes the list.
LEMMA AsksWellMade ==
    ASSUME NEW q \in Seq(Entries), NEW t, NearlyPaired(q), Asks(q, t)
    PROVE  WellMade(q)
  <1>1. DOMAIN q = 1 .. Len(q) /\ Len(q) \in Nat /\ q[Len(q)] = Call(t, hops[t])
    BY DEF Asks
  <1>2. ASSUME NEW i \in DOMAIN q, AnswersCall(q[i], q[Len(q)])
        PROVE  FALSE
    <2>1. q[i][1] \in {"result", "void"} /\ q[i][2] = t /\ q[i][3] = hops[t]
      BY <1>1, <1>2, Kinds DEF AnswersCall
    <2>2. i # Len(q)
      BY <1>1, <2>1, Kinds
    <2> QED BY <1>1, <2>1, <2>2 DEF Asks
  <1>3. ~Answered(q[Len(q)], q)
    BY <1>2 DEF Answered, ToSet
  <1> QED BY <1>3 DEF WellMade, Open

\* The result of the present call pairs the list.
LEMMA AsksResult ==
    ASSUME NEW q \in Seq(Entries), NEW t \in Turns, hops[t] \in 0 .. MaxHops,
           NearlyPaired(q), Asks(q, t)
    PROVE  Paired(Append(q, Result(t, hops[t])))
  <1> DEFINE e == Result(t, hops[t])
  <1>1. e \in Entries /\ AnswersCall(e, q[Len(q)]) /\ ~IsCall(e) /\ q # <<>> /\ IsCall(q[Len(q)])
    BY MakeEntries, Kinds DEF Asks, AnswersCall, IsCall
  <1> HIDE DEF e
  <1>2. NearlyPaired(Append(q, e))
    BY <1>1, NearlyAppend
  <1>3. /\ Append(q, e) \in Seq(Entries) /\ Len(Append(q, e)) = Len(q) + 1
        /\ Append(q, e)[Len(q) + 1] = e
    BY <1>1
  <1> QED BY <1>1, <1>2, <1>3, PairedNearly DEF e

\* A turn the model has not answered at this hop has no message of the hop.
LEMMA CallAsks ==
    ASSUME NEW q \in Seq(Said), NEW t \in Turns, pc[t] = "llm"
    PROVE  /\ Asks(Append(q, Call(t, hops[t])), t)
           /\ \A e \in ToSet(q) : ~AnswersCall(e, Call(t, hops[t]))
  <1> DEFINE c == Call(t, hops[t])
             r == Append(q, c)
  <1>1. /\ Len(r) = Len(q) + 1 /\ r[Len(q) + 1] = c /\ Len(q) \in Nat
        /\ DOMAIN r = 1 .. Len(q) + 1 /\ \A i \in 1 .. Len(q) : r[i] = q[i] /\ q[i] \in Said
        /\ r # <<>> /\ DOMAIN q = 1 .. Len(q)
    OBVIOUS
  <1>2. \A e \in Said : e[1] \in {"call", "result", "void"} => e[2] # t \/ e[3] # hops[t]
    <2> SUFFICES ASSUME NEW e \in Said, e[1] \in {"call", "result", "void"},
                        e[2] = t, e[3] = hops[t]
                 PROVE  FALSE
      OBVIOUS
    <2>1. e[3] \in 0 .. MaxHops
      BY EntryKinds DEF Said
    <2>2. hops[t] < hops[t] \/ pc[t] \in Asking
      BY DEF Said, Spoke
    <2> QED BY <2>1, <2>2, ConstantsAssumption DEF Asking
  <1>3. c[2] = t /\ c[3] = hops[t]
    BY Kinds
  <1> HIDE DEF c, r
  <1>4. Asks(r, t)
    BY <1>1, <1>2 DEF Asks, c
  <1>5. \A e \in ToSet(q) : ~AnswersCall(e, c)
    BY <1>1, <1>2, <1>3 DEF ToSet, AnswersCall
  <1> QED BY <1>4, <1>5 DEF c, r

\* The log stays regular: an answer may only follow its call.
LEMMA RegularAppend ==
    ASSUME NEW q \in Seq(Entries), NEW e \in Entries, Regular(q),
           e[1] \notin {"result", "void"},
           IsCall(e) => \A x \in ToSet(q) : ~AnswersCall(x, e)
    PROVE  Regular(Append(q, e))
  <1> DEFINE r == Append(q, e)
  <1>1. /\ Len(r) = Len(q) + 1 /\ r[Len(q) + 1] = e /\ Len(q) \in Nat
        /\ DOMAIN r = 1 .. Len(q) + 1 /\ \A i \in 1 .. Len(q) : r[i] = q[i]
        /\ DOMAIN q = 1 .. Len(q)
    OBVIOUS
  <1>2. ToSet(r) = ToSet(q) \cup {e}
    BY ToSetAppend
  <1> HIDE DEF r
  <1>3. \A x : ~AnswersCall(e, x)
    BY DEF AnswersCall
  <1>4. \A x : Open(x, q) => Open(x, r)
    BY <1>2, <1>3 DEF Open, Answered
  <1>5. IsCall(e) => Open(e, r)
    BY <1>2, <1>3 DEF Open, Answered
  <1> SUFFICES ASSUME NEW i \in 1 .. Len(q) + 1
               PROVE  /\ IsCall(r[i]) =>
                            Open(r[i], r) \/ (i < Len(r) /\ AnswersCall(r[i + 1], r[i]))
                      /\ r[i][1] \in {"result", "void"} =>
                            i > 1 /\ IsCall(r[i - 1]) /\ AnswersCall(r[i], r[i - 1])
    BY <1>1 DEF Regular, r
  <1>6. CASE i = Len(q) + 1
    BY <1>1, <1>5, <1>6
  <1>7. CASE i \in 1 .. Len(q)
    <2>1. IsCall(q[i]) => Open(q[i], q) \/ (i < Len(q) /\ i + 1 \in 1 .. Len(q) /\ AnswersCall(q[i + 1], q[i]))
      BY <1>1, <1>7 DEF Regular
    <2>2. q[i][1] \in {"result", "void"} =>
             i > 1 /\ i - 1 \in 1 .. Len(q) /\ IsCall(q[i - 1]) /\ AnswersCall(q[i], q[i - 1])
      BY <1>1, <1>7 DEF Regular
    <2> QED BY <1>1, <1>4, <1>7, <2>1, <2>2
  <1> QED BY <1>6, <1>7

\* It keeps a list regular that ends with the call.
LEMMA RegularResult ==
    ASSUME NEW q \in Seq(Entries), NEW t \in Turns, hops[t] \in 0 .. MaxHops,
           Regular(q), Asks(q, t)
    PROVE  Regular(Append(q, Result(t, hops[t])))
  <1> DEFINE e == Result(t, hops[t])
             r == Append(q, e)
  <1>0. e \in Entries /\ e[1] = "result" /\ e[2] = t /\ e[3] = hops[t]
    BY MakeEntries, Kinds
  <1> HIDE DEF e
  <1>1. /\ Len(r) = Len(q) + 1 /\ r[Len(q) + 1] = e /\ Len(q) \in Nat
        /\ DOMAIN r = 1 .. Len(q) + 1 /\ \A i \in 1 .. Len(q) : r[i] = q[i]
        /\ DOMAIN q = 1 .. Len(q) /\ (q # <<>> => Len(q) # 0)
    OBVIOUS
  <1>2. ToSet(r) = ToSet(q) \cup {e}
    BY <1>0, ToSetAppend
  <1> HIDE DEF r
  <1>3. /\ q # <<>> /\ IsCall(q[Len(q)]) /\ AnswersCall(e, q[Len(q)])
        /\ \A i \in 1 .. Len(q) : i < Len(q) /\ IsCall(q[i]) => ~AnswersCall(e, q[i])
    BY <1>0, <1>1, Kinds DEF Asks, IsCall, AnswersCall
  <1>4. \A x : Open(x, q) /\ ~AnswersCall(e, x) => Open(x, r)
    BY <1>2 DEF Open, Answered
  <1> SUFFICES ASSUME NEW i \in 1 .. Len(q) + 1
               PROVE  /\ IsCall(r[i]) =>
                            Open(r[i], r) \/ (i < Len(r) /\ AnswersCall(r[i + 1], r[i]))
                      /\ r[i][1] \in {"result", "void"} =>
                            i > 1 /\ IsCall(r[i - 1]) /\ AnswersCall(r[i], r[i - 1])
    BY <1>1 DEF Regular, r, e
  <1>5. CASE i = Len(q) + 1
    BY <1>0, <1>1, <1>3, <1>5 DEF IsCall
  <1>6. CASE i = Len(q)
    BY <1>0, <1>1, <1>3, <1>6 DEF IsCall
  <1>7. CASE i \in 1 .. Len(q) /\ i < Len(q)
    <2>1. IsCall(q[i]) => Open(q[i], q) \/ (i + 1 \in 1 .. Len(q) /\ AnswersCall(q[i + 1], q[i]))
      BY <1>1, <1>7 DEF Regular
    <2>2. q[i][1] \in {"result", "void"} =>
             i > 1 /\ i - 1 \in 1 .. Len(q) /\ IsCall(q[i - 1]) /\ AnswersCall(q[i], q[i - 1])
      BY <1>1, <1>7 DEF Regular
    <2> QED BY <1>1, <1>3, <1>4, <1>7, <2>1, <2>2
  <1>8. i = Len(q) + 1 \/ i = Len(q) \/ (i \in 1 .. Len(q) /\ i < Len(q))
    <2>1. Len(q) \in Nat
      OBVIOUS
    <2> QED BY <2>1
  <1> QED BY <1>5, <1>6, <1>7, <1>8

\* A recovered list is paired, and has its apology at the end.
LEMMA RecoveredPaired ==
    ASSUME NEW q \in Seq(Entries), NEW t \in Turns, WellMade(q)
    PROVE  /\ Paired(Recovered(q, t)) /\ Recovered(q, t) \in Seq(Entries)
           /\ Len(Recovered(q, t)) = Len(Mended(q)) + 1
  <1>1. /\ Mended(q) \in Seq(Entries) /\ Paired(Mended(q))
        /\ Sorry(t) \in Entries /\ Plain(Sorry(t))
    BY MendedElems, MendedPaired, WellMadeRegular, MakeEntries, Kinds DEF Plain
  <1>2. Paired(Append(Mended(q), Sorry(t)))
    BY <1>1, PairedAppend
  <1> QED BY <1>1, <1>2 DEF Recovered

\* Cutting a list behind a message that is no call.
LEMMA CutPaired ==
    ASSUME NEW q \in Seq(Entries), NEW n \in Nat, Paired(q), CutAt(q, n)
    PROVE  SubSeq(q, 1, n) \in Seq(Entries) /\ Paired(SubSeq(q, 1, n)) /\ Len(SubSeq(q, 1, n)) = n
  <1> DEFINE p == SubSeq(q, 1, n)
  <1>1. /\ n \in 0 .. Len(q) /\ Len(q) \in Nat /\ DOMAIN q = 1 .. Len(q)
        /\ p \in Seq(Entries) /\ Len(p) = n /\ DOMAIN p = 1 .. n
        /\ \A i \in 1 .. n : p[i] = q[i]
    BY Beginning DEF CutAt
  <1> HIDE DEF p
  <1>2. ASSUME NEW i \in 1 .. n
        PROVE  /\ IsCall(p[i]) => i < n /\ AnswersCall(p[i + 1], p[i])
               /\ p[i][1] \in {"result", "void"} =>
                      i > 1 /\ IsCall(p[i - 1]) /\ AnswersCall(p[i], p[i - 1])
    <2>1. i \in 1 .. Len(q) /\ p[i] = q[i]
      BY <1>1
    <2>2. IsCall(q[i]) => i < n /\ i + 1 \in 1 .. n /\ AnswersCall(q[i + 1], q[i])
      BY <1>1, <2>1 DEF Paired, CutAt
    <2>3. q[i][1] \in {"result", "void"} =>
             i > 1 /\ i - 1 \in 1 .. n /\ IsCall(q[i - 1]) /\ AnswersCall(q[i], q[i - 1])
      BY <1>1, <2>1 DEF Paired
    <2> QED BY <1>1, <2>1, <2>2, <2>3
  <1>3. Paired(p)
    BY <1>1, <1>2 DEF Paired
  <1> QED BY <1>1, <1>3 DEF p

\* A paired list can be cut at its end.
LEMMA CutEnd ==
    ASSUME NEW q \in Seq(Entries), Paired(q)
    PROVE  CutAt(q, Len(q))
  BY PairedNearly DEF CutAt

\* A longer list can be cut where its beginning can.
LEMMA CutLonger ==
    ASSUME NEW q \in Seq(Entries), NEW r \in Seq(Entries), NEW n \in Nat, CutAt(q, n),
           Len(r) >= Len(q), \A i \in 1 .. Len(q) : r[i] = q[i]
    PROVE  CutAt(r, n)
  <1>1. n \in 0 .. Len(q) /\ Len(q) \in Nat /\ Len(r) \in Nat
    BY DEF CutAt
  <1>2. n # 0 => n \in 1 .. Len(q)
    BY <1>1
  <1> QED BY <1>1, <1>2 DEF CutAt

\* So can a recovered list, which keeps what is before the cut.
LEMMA CutRecovered ==
    ASSUME NEW q \in Seq(Entries), NEW t \in Turns, NEW n \in Nat, WellMade(q), CutAt(q, n)
    PROVE  /\ CutAt(Recovered(q, t), n)
           /\ \A i \in 1 .. n : Recovered(q, t)[i] = q[i]
  <1>1. n \in 0 .. Len(q) /\ Len(q) \in Nat /\ DOMAIN q = 1 .. Len(q)
    BY DEF CutAt
  <1>2. ASSUME NEW i \in 1 .. n
        PROVE  ~Open(q[i], q)
    <2> SUFFICES ASSUME IsCall(q[i]) PROVE Answered(q[i], q)
      BY DEF Open
    <2>1. i \in DOMAIN q /\ i < Len(q) /\ i + 1 \in DOMAIN q
      BY <1>1 DEF CutAt
    <2>2. AnswersCall(q[i + 1], q[i])
      BY <2>1 DEF WellMade, NearlyPaired
    <2> QED BY <2>1, <2>2 DEF Answered, ToSet
  <1>3. Len(Mended(q)) >= Len(q) /\ \A i \in 1 .. n : Mended(q)[i] = q[i]
    BY <1>1, <1>2, MendedBeginning
  <1> DEFINE m == Mended(q)
             e == Sorry(t)
  <1>4. m \in Seq(Entries) /\ e \in Entries
    BY MendedElems, MakeEntries
  <1> HIDE DEF m, e
  <1>5. /\ Len(Append(m, e)) = Len(m) + 1 /\ Len(m) \in Nat
        /\ \A i \in 1 .. Len(m) : Append(m, e)[i] = m[i]
    BY <1>4
  <1>6. \A i \in 1 .. n : i \in 1 .. Len(m)
    BY <1>1, <1>3, <1>5 DEF m
  <1>7. \A i \in 1 .. n : Append(m, e)[i] = q[i]
    BY <1>3, <1>5, <1>6 DEF m
  <1>8. n <= Len(Append(m, e)) /\ (n # 0 => n \in 1 .. n)
    BY <1>1, <1>3, <1>5 DEF m
  <1> QED BY <1>7, <1>8 DEF Recovered, CutAt, m, e

\* Whose recovery it is makes no difference to where the list can be cut.
LEMMA CutWhose ==
    ASSUME NEW q \in Seq(Entries), NEW t \in Turns, NEW u \in Turns, NEW n \in Nat,
           CutAt(Recovered(q, t), n)
    PROVE  CutAt(Recovered(q, u), n)
  <1> DEFINE m == Mended(q)
             a == Append(m, Sorry(t))
             b == Append(m, Sorry(u))
  <1>1. m \in Seq(Entries) /\ Sorry(t) \in Entries /\ Sorry(u) \in Entries
        /\ ~IsCall(Sorry(u))
    BY MendedElems, MakeEntries, Kinds DEF IsCall
  <1> HIDE DEF m
  <1>2. /\ Len(a) = Len(m) + 1 /\ Len(b) = Len(m) + 1 /\ Len(m) \in Nat
        /\ b[Len(m) + 1] = Sorry(u)
        /\ \A i \in 1 .. Len(m) : a[i] = m[i] /\ b[i] = m[i]
    BY <1>1
  <1>3. CutAt(a, n)
    BY DEF Recovered, m
  <1> HIDE DEF a, b
  <1>4. n = 0 \/ n \in 1 .. Len(m) \/ n = Len(m) + 1
    BY <1>2, <1>3 DEF CutAt
  <1>5. CutAt(b, n)
    BY <1>1, <1>2, <1>3, <1>4 DEF CutAt
  <1> QED BY <1>5 DEF Recovered, m, b

\* A list is recovered at its end, and behind it.
LEMMA CutRecoveredEnd ==
    ASSUME NEW q \in Seq(Entries), NEW t \in Turns, Paired(q)
    PROVE  CutAt(Recovered(q, t), Len(q)) /\ CutAt(Recovered(q, t), Len(Recovered(q, t)))
  <1>1. CutAt(q, Len(q)) /\ WellMade(q) /\ Len(q) \in Nat
    BY CutEnd, PairedWellMade
  <1>2. CutAt(Recovered(q, t), Len(q))
    BY <1>1, CutRecovered
  <1>3. Paired(Recovered(q, t)) /\ Recovered(q, t) \in Seq(Entries)
    BY <1>1, RecoveredPaired
  <1> QED BY <1>2, <1>3, CutEnd

\* What the finally block makes of a history without a stash extends it.
LEMMA ApologyExtends ==
    ASSUME NEW q \in Seq(Entries), NEW m \in Msgs, NEW t \in Turns
    PROVE  /\ Apology(q, m, t) \in Seq(Entries)
           /\ Paired(q) => Paired(Apology(q, m, t))
           /\ Len(Apology(q, m, t)) > Len(q)
           /\ \A i \in 1 .. Len(q) : Apology(q, m, t)[i] = q[i]
           /\ {User(m), Sorry(t)} \subseteq ToSet(Apology(q, m, t))
  <1>1. User(m) \in Entries /\ Sorry(t) \in Entries /\ Plain(User(m)) /\ Plain(Sorry(t))
    BY MakeEntries, Kinds DEF Plain
  <1> DEFINE u == User(m)
             s == Sorry(t)
  <1>2. CASE q # <<>> /\ Last(q) = User(m)
    <2>1. Apology(q, m, t) = Append(q, s)
      BY <1>2 DEF Apology
    <2>2. Len(q) \in DOMAIN q /\ q[Len(q)] = u
      BY <1>2 DEF Last
    <2>3. u \in ToSet(q)
      BY <2>2 DEF ToSet
    <2> HIDE DEF u, s
    <2>4. /\ Append(q, s) \in Seq(Entries) /\ Len(Append(q, s)) > Len(q)
          /\ \A i \in 1 .. Len(q) : Append(q, s)[i] = q[i]
      BY <1>1 DEF s
    <2>5. Paired(q) => Paired(Append(q, s))
      BY <1>1, PairedAppend DEF s
    <2>6. {u, s} \subseteq ToSet(Append(q, s))
      BY <1>1, <2>3, ToSetAppend DEF s
    <2> QED BY <2>1, <2>4, <2>5, <2>6 DEF u, s
  <1>3. CASE ~(q # <<>> /\ Last(q) = User(m))
    <2> DEFINE r == <<u, s>>
               p == q \o r
    <2>1. Apology(q, m, t) = p
      BY <1>3 DEF Apology
    <2>2. r \in Seq(Entries) /\ Len(r) = 2 /\ r[1] = u /\ r[2] = s /\ DOMAIN r = 1 .. 2
      BY <1>1
    <2>3. \A i \in DOMAIN r : Plain(r[i])
      BY <1>1, <2>2
    <2> HIDE DEF r, u, s
    <2>4. /\ p \in Seq(Entries) /\ Len(p) = Len(q) + 2 /\ Len(q) \in Nat
          /\ \A i \in 1 .. Len(q) : p[i] = q[i]
          /\ p[Len(q) + 1] = u /\ p[Len(q) + 2] = s /\ DOMAIN p = 1 .. Len(q) + 2
      <3>1. /\ p \in Seq(Entries) /\ Len(p) = Len(q) + 2 /\ Len(q) \in Nat
            /\ \A i \in 1 .. Len(q) : p[i] = q[i]
            /\ DOMAIN p = 1 .. Len(q) + 2
            /\ \A i \in 1 .. Len(p) : i > Len(q) => p[i] = r[i - Len(q)]
        <4>1. /\ p \in Seq(Entries)
              /\ DOMAIN p = 1 .. Len(q) + Len(r)
              /\ Len(p) = Len(q) + Len(r) /\ Len(q) \in Nat
              /\ \A i \in 1 .. Len(q) : p[i] = q[i]
              /\ \A i \in 1 .. Len(p) : i > Len(q) => p[i] = r[i - Len(q)]
          <5>1. q \in Seq(Entries) /\ r \in Seq(Entries)
            BY <2>2
          <5> QED BY <5>1, Joined, Zenon
        <4> HIDE DEF p
        <4> QED BY <2>2, <4>1
      <3> HIDE DEF p
      <3>3. /\ Len(q) + 1 \in 1 .. Len(p) /\ Len(q) + 2 \in 1 .. Len(p)
            /\ Len(q) + 1 > Len(q) /\ Len(q) + 2 > Len(q)
            /\ (Len(q) + 1) - Len(q) = 1 /\ (Len(q) + 2) - Len(q) = 2
        BY <3>1
      <3>4. p[Len(q) + 1] = r[1] /\ p[Len(q) + 2] = r[2]
        BY <3>1, <3>3
      <3> QED BY <2>2, <3>1, <3>4
    <2>5. Paired(q) => Paired(p)
      BY <2>2, <2>3, PairedConcat
    <2> HIDE DEF p
    <2>6. {u, s} \subseteq ToSet(p)
      BY <2>4 DEF ToSet
    <2> QED BY <2>1, <2>4, <2>5, <2>6 DEF u, s
  <1> QED BY <1>2, <1>3

KeptPaired ==
    /\ Paired(Hist) /\ Paired(disk) /\ \A q \in writes : Paired(q)
    /\ \A t \in Turns : pc[t] \in Ending => Paired(save[t])
AtWork ==
    \A t \in Turns : pc[t] \in Working =>
        /\ stash # None /\ stash.turn = t
        /\ pc[t] \in {"ask", "tool"} =>
              NearlyPaired(msgs[t]) /\ Asks(msgs[t], t) /\ Asks(log, t)
        /\ pc[t] \notin {"ask", "tool"} => Paired(msgs[t])
        /\ pc[t] \in {"answer", "post"} => Hist = msgs[t]
        /\ pc[t] = "post" => Stashed = msgs[t]
        /\ \A i \in DOMAIN cps : CutAt(Stashed, cps[i].len)
Recoverable == Regular(log) /\ (stash # None => WellMade(Stashed))

\* Checkpoints only grow, and the history can be cut at each of them, also the
\* one that a stash left behind by a kill would make.
Cuts ==
    /\ \A i \in DOMAIN cps : CutAt(Hist, cps[i].len)
    /\ \A i, j \in DOMAIN cps : i <= j => cps[i].len <= cps[j].len
    /\ stash # None /\ (\A t \in Turns : pc[t] \notin Working) =>
          \A i \in DOMAIN cps : CutAt(Recovered(Stashed, stash.turn), cps[i].len)
    /\ stash # None /\ (\A t \in Turns : pc[t] \notin {"prep"} \cup Working) =>
          CutAt(Recovered(Stashed, stash.turn), Len(Hist))

PairsNow == KeptPaired /\ AtWork /\ Recoverable /\ Cuts
Pairs == Orderly({"meddled"}) => PairsNow

\* The types the steps below need, spelled out.
LEMMA ListTypes ==
    ASSUME TypeInv
    PROVE  /\ pc \in [Turns -> Alive \cup {"unused", "done", "over", "lost"}]
           /\ msgs \in [Turns -> Seq(Entries)] /\ save \in [Turns -> Seq(Entries)]
           /\ hops \in [Turns -> 0 .. MaxHops]
           /\ hist \in Seq(Entries) \cup {None} /\ Hist \in Seq(Entries)
           /\ disk \in Seq(Entries) /\ log \in Seq(Entries) /\ writes \subseteq Seq(Entries)
           /\ Len(cps) \in Nat /\ DOMAIN cps = 1 .. Len(cps)
           /\ \A i \in DOMAIN cps : cps[i].len \in Nat
           /\ stash # None => /\ stash.turn \in Turns /\ stash.len \in Nat
                              /\ stash.len <= Len(msgs[stash.turn])
                              /\ Stashed \in Seq(Entries)
  <1>1. /\ pc \in [Turns -> Alive \cup {"unused", "done", "over", "lost"}]
        /\ msgs \in [Turns -> Seq(Entries)] /\ save \in [Turns -> Seq(Entries)]
        /\ hops \in [Turns -> 0 .. MaxHops]
        /\ hist \in Seq(Entries) \cup {None} /\ Hist \in Seq(Entries)
        /\ disk \in Seq(Entries) /\ log \in Seq(Entries) /\ writes \subseteq Seq(Entries)
    BY DEF TypeInv, Types, RunTypes, TaskTypes, AgentTypes, StoreTypes, Hist
  <1>2. /\ Len(cps) \in Nat /\ DOMAIN cps = 1 .. Len(cps)
        /\ \A i \in DOMAIN cps : cps[i].len \in Nat
    <2>1. cps \in Seq([turn : Turns, len : Nat, blind : BOOLEAN])
      BY DEF TypeInv, Types, AgentTypes
    <2>2. \A i \in DOMAIN cps : cps[i] \in [turn : Turns, len : Nat, blind : BOOLEAN]
      BY <2>1, Beginning
    <2> QED BY <2>1, <2>2
  <1>3. stash # None => /\ stash.turn \in Turns /\ stash.len \in Nat
                        /\ stash.len <= Len(msgs[stash.turn])
    BY DEF TypeInv, Types, AgentTypes, TurnData
  <1>4. stash # None => Stashed \in Seq(Entries)
    BY StashedType
  <1> QED BY <1>1, <1>2, <1>3, <1>4

\* No other turn has lists at stake, and a step leaves it where it is.
Solo(t) ==
    \A u \in Turns : u # t =>
        pc[u] \notin {"prep"} \cup Working \cup Ending /\ pc'[u] = pc[u]

\* Steps that touch no list.
LEMMA PairsFrame ==
    ASSUME TypeInv, PairsNow,
           UNCHANGED <<msgs, save, hops, stash, hist, cps, disk, writes, log>>,
           \A t \in Turns : \/ pc'[t] = pc[t]
                            \/ pc[t] = "ask" /\ pc'[t] = "tool"
                            \/ /\ pc[t] \notin {"prep"} \cup Working \cup Ending
                               /\ pc'[t] \notin {"prep"} \cup Working \cup Ending
    PROVE  PairsNow'
  <1>1. Hist' = Hist /\ Stashed' = Stashed
    BY DEF Hist, Stashed
  <1>2. \A t \in Turns : /\ pc'[t] \in Ending => pc[t] \in Ending
                         /\ pc'[t] \in Working <=> pc[t] \in Working
                         /\ pc'[t] \in {"prep"} \cup Working <=> pc[t] \in {"prep"} \cup Working
                         /\ pc'[t] \in {"ask", "tool"} <=> pc[t] \in {"ask", "tool"}
                         /\ pc'[t] \in {"answer", "post"} => pc[t] = pc'[t]
    BY DEF Working, Ending
  <1>3. KeptPaired'
    BY <1>1, <1>2 DEF PairsNow, KeptPaired
  <1>4. AtWork'
    BY <1>1, <1>2 DEF PairsNow, AtWork, Asks
  <1>5. Recoverable' /\ Cuts'
    BY <1>1, <1>2 DEF PairsNow, Recoverable, Cuts
  <1> QED BY <1>3, <1>4, <1>5 DEF PairsNow

\* The checkpoints after a turn's beginning and after a rewind.
LEMMA CheckpointTaken ==
    ASSUME TypeInv, NEW t \in Turns, Begin(t)
    PROVE  /\ DOMAIN cps' = 1 .. Len(cps) + 1 /\ Len(cps) \in Nat
           /\ \A i \in 1 .. Len(cps) : cps'[i] = cps[i] /\ i \in DOMAIN cps
           /\ cps'[Len(cps) + 1] =
                 [turn |-> t, len |-> Len(Hist), blind |-> hist = None /\ disk # <<>>]
           /\ cps'[Len(cps) + 1].turn = t /\ cps'[Len(cps) + 1].len = Len(Hist)
           /\ cps'[Len(cps) + 1].blind = (hist = None /\ disk # <<>>)
  <1> DEFINE r == [turn |-> t, len |-> Len(Hist), blind |-> hist = None /\ disk # <<>>]
  <1>1. cps' = Append(cps, r)
    BY DEF Begin
  <1>4. r.turn = t /\ r.len = Len(Hist) /\ r.blind = (hist = None /\ disk # <<>>)
    OBVIOUS
  <1> HIDE DEF r
  <1>2. cps \in Seq([turn : Turns, len : Nat, blind : BOOLEAN])
    BY DEF TypeInv, Types, AgentTypes
  <1>3. \A x : /\ DOMAIN Append(cps, x) = 1 .. Len(cps) + 1
               /\ Append(cps, x)[Len(cps) + 1] = x
               /\ \A i \in 1 .. Len(cps) : Append(cps, x)[i] = cps[i]
    BY <1>2
  <1>5. /\ DOMAIN cps' = 1 .. Len(cps) + 1 /\ Len(cps) \in Nat
        /\ \A i \in 1 .. Len(cps) : cps'[i] = cps[i] /\ i \in DOMAIN cps
        /\ cps'[Len(cps) + 1] = r
    BY <1>1, <1>3, ListTypes
  <1> QED BY <1>4, <1>5 DEF r

\* A rewind drops the later checkpoints and keeps the others.
LEMMA CheckpointsDropped ==
    ASSUME TypeInv, NEW i \in DOMAIN cps, Rewind(i)
    PROVE  \A j \in DOMAIN cps' : j \in DOMAIN cps /\ cps'[j] = cps[j] /\ j <= i
  <1> DEFINE R == [turn : Turns, len : Nat, blind : BOOLEAN]
  <1>1. cps \in Seq(R)
    BY DEF TypeInv, Types, AgentTypes
  <1> HIDE DEF R
  <1>2. Len(cps) \in Nat /\ DOMAIN cps = 1 .. Len(cps)
    BY <1>1
  <1>3. i \in 0 .. Len(cps) /\ i \in Nat
    BY <1>2
  <1>4. cps' = SubSeq(cps, 1, i)
    BY DEF Rewind
  <1>5. /\ SubSeq(cps, 1, i) \in Seq(R) /\ Len(SubSeq(cps, 1, i)) = i
        /\ \A j \in 1 .. i : SubSeq(cps, 1, i)[j] = cps[j]
    BY <1>1, <1>3, Beginning
  <1>6. DOMAIN SubSeq(cps, 1, i) = 1 .. i
    BY <1>5, LenProperties
  <1>7. \A j \in 1 .. i : j \in 1 .. Len(cps)
    BY <1>2, <1>3
  <1> QED BY <1>2, <1>3, <1>4, <1>5, <1>6, <1>7

\* The calls and results of all lists, action by action: a turn begins.
LEMMA PairsBegin ==
    ASSUME TypeInv, PairsNow, NEW t \in Turns, Solo(t), Begin(t)
    PROVE  PairsNow'
  <1> DEFINE r == [turn |-> t, len |-> Len(Hist), blind |-> hist = None /\ disk # <<>>]
  <1>0. /\ pc[t] = "created" /\ pc'[t] = "early" /\ cps' = Append(cps, r)
        /\ UNCHANGED <<msgs, save, hops, stash, hist, disk, writes, log>>
        /\ Hist' = Hist /\ Stashed' = Stashed /\ r.len = Len(Hist)
        /\ Len(Hist) \in Nat
    BY ListTypes DEF Begin, taskVars, storeVars, Hist, Stashed
  <1>1. /\ DOMAIN cps' = 1 .. Len(cps) + 1 /\ Len(cps) \in Nat
        /\ \A i \in 1 .. Len(cps) : cps'[i] = cps[i] /\ cps[i].len \in Nat /\ i \in DOMAIN cps
        /\ cps'[Len(cps) + 1] = r
    BY CheckpointTaken, ListTypes
  <1> HIDE DEF r
  <1>2. \A i \in DOMAIN cps' : (i \in DOMAIN cps /\ cps'[i] = cps[i]) \/ cps'[i].len = Len(Hist)
    BY <1>0, <1>1
  <1>3. KeptPaired'
    BY <1>0 DEF PairsNow, KeptPaired, Solo, Ending
  <1>4. AtWork'
    BY <1>0 DEF AtWork, Solo, Working
  <1>5. Recoverable'
    BY <1>0 DEF PairsNow, Recoverable
  <1>6. CutAt(Hist, Len(Hist))
    BY CutEnd, ListTypes DEF PairsNow, KeptPaired
  <1>7. \A i \in DOMAIN cps' : CutAt(Hist, cps'[i].len)
    BY <1>2, <1>6 DEF PairsNow, Cuts
  <1>8. \A i, j \in DOMAIN cps' : i <= j => cps'[i].len <= cps'[j].len
    <2> SUFFICES ASSUME NEW i \in DOMAIN cps', NEW j \in DOMAIN cps', i <= j
                 PROVE  cps'[i].len <= cps'[j].len
      OBVIOUS
    <2>1. CASE j \in 1 .. Len(cps)
      BY <1>1, <2>1 DEF PairsNow, Cuts
    <2>2. CASE j = Len(cps) + 1
      BY <1>0, <1>1, <1>7, <2>2 DEF CutAt
    <2> QED BY <1>1, <2>1, <2>2
  <1>9. stash # None =>
           /\ CutAt(Recovered(Stashed, stash.turn), Len(Hist))
           /\ \A i \in DOMAIN cps : CutAt(Recovered(Stashed, stash.turn), cps[i].len)
    BY <1>0 DEF PairsNow, Cuts, Solo, Working
  <1>10. Cuts'
    BY <1>0, <1>2, <1>7, <1>8, <1>9 DEF Cuts
  <1> QED BY <1>3, <1>4, <1>5, <1>10 DEF PairsNow

\* It loads the history.
LEMMA PairsLoad ==
    ASSUME TypeInv, PairsNow, NEW t \in Turns, Solo(t), Load(t)
    PROVE  PairsNow'
  <1>0. /\ pc[t] = "early" /\ pc'[t] = "prep" /\ log' = Append(log, User(user[t]))
        /\ UNCHANGED <<msgs, save, hops, stash, cps, disk, writes>>
        /\ Stashed' = Stashed /\ user[t] \in Msgs
    BY ListTypes DEF Load, taskVars, Stashed, TypeInv, TurnData
  <1>1. log' \in Seq(Entries) /\ Regular(log')
    <2>1. User(user[t]) \in Entries /\ User(user[t])[1] = "user" /\ log \in Seq(Entries)
      BY <1>0, MakeEntries, Kinds, ListTypes
    <2>2. Append(log, User(user[t])) \in Seq(Entries)
      BY <2>1
    <2> QED BY <1>0, <2>1, <2>2, RegularAppend DEF PairsNow, Recoverable, IsCall
  <1>2. \/ Hist' = Hist
        \/ Hist = <<>> /\ Hist' \in Seq(Entries) /\ Paired(Hist')
    <2>1. CASE hist # None
      BY <1>0, <2>1 DEF Load, Hist
    <2>2. CASE hist = None
      <3>1. Hist = <<>>
        BY <2>2 DEF Hist
      <3>2. hist' = disk \/ hist' = Mended(log') \/ hist' = None
        BY <2>2 DEF Load
      <3>3. Mended(log') \in Seq(Entries) /\ Paired(Mended(log'))
        BY <1>1, MendedElems, MendedPaired
      <3>4. disk \in Seq(Entries) /\ Paired(disk)
        BY ListTypes DEF PairsNow, KeptPaired
      <3>5. hist' = None \/ (hist' \in Seq(Entries) /\ Paired(hist'))
        BY <3>2, <3>3, <3>4
      <3> QED BY <3>1, <3>5, ListsLoaded DEF Hist
    <2> QED BY <2>1, <2>2
  <1>3. KeptPaired'
    BY <1>0, <1>2 DEF PairsNow, KeptPaired, Solo, Ending
  <1>4. AtWork'
    BY <1>0 DEF AtWork, Solo, Working
  <1>5. Recoverable'
    BY <1>0, <1>1 DEF PairsNow, Recoverable
  <1>6. \A i \in DOMAIN cps : CutAt(Hist', cps[i].len)
    <2>1. CASE Hist' = Hist
      BY <2>1 DEF PairsNow, Cuts
    <2>2. CASE Hist = <<>> /\ Hist' \in Seq(Entries)
      <3>1. \A i \in DOMAIN cps : cps[i].len = 0
        BY <2>2, ListTypes DEF PairsNow, Cuts, CutAt
      <3> QED BY <2>2, <3>1 DEF CutAt
    <2> QED BY <1>2, <2>1, <2>2
  <1>7. Cuts'
    BY <1>0, <1>6 DEF PairsNow, Cuts, Solo, Working
  <1> QED BY <1>3, <1>4, <1>5, <1>7 DEF PairsNow

\* It builds its messages.
LEMMA PairsPrepare ==
    ASSUME TypeInv, PairsNow, NEW t \in Turns, Solo(t), Prepare(t)
    PROVE  PairsNow'
  <1> DEFINE e == User(user[t])
             x == Append(Hist, e)
  <1>0. /\ pc[t] = "prep" /\ pc'[t] = "hop" /\ msgs'[t] = x
        /\ stash'.turn = t /\ stash'.len = 0 /\ stash' # None
        /\ UNCHANGED <<save, hops, hist, cps, disk, writes, log>>
        /\ Hist' = Hist /\ user[t] \in Msgs
    <2>1. stash' \in [turn : Turns, len : Nat]
      BY DEF Prepare, Live
    <2> QED BY <2>1, ListTypes, ConstantsAssumption
            DEF Prepare, storeVars, Hist, TypeInv, TurnData, Live
  <1>1. e \in Entries /\ Plain(e) /\ Hist \in Seq(Entries) /\ Paired(Hist)
    BY <1>0, MakeEntries, Kinds, ListTypes DEF Plain, PairsNow, KeptPaired
  <1> HIDE DEF e
  <1>2. x \in Seq(Entries) /\ Paired(x) /\ Len(x) >= Len(Hist)
        /\ \A i \in 1 .. Len(Hist) : x[i] = Hist[i]
    BY <1>1, PairedAppend
  <1>3. Stashed' = x
    BY <1>0 DEF Stashed, Live
  <1> HIDE DEF x
  <1>4. \A i \in DOMAIN cps : CutAt(x, cps[i].len)
    BY <1>1, <1>2, CutLonger, ListTypes DEF PairsNow, Cuts
  <1>5. KeptPaired'
    BY <1>0 DEF PairsNow, KeptPaired, Solo, Ending
  <1>6. AtWork'
    BY <1>0, <1>2, <1>3, <1>4 DEF AtWork, Solo
  <1>7. Recoverable'
    BY <1>0, <1>2, <1>3, PairedWellMade DEF PairsNow, Recoverable
  <1>8. Cuts'
    BY <1>0 DEF PairsNow, Cuts, Working
  <1> QED BY <1>5, <1>6, <1>7, <1>8 DEF PairsNow

\* The stash is a beginning of its turn's list.
LEMMA StashBegins ==
    ASSUME TypeInv, NEW t \in Turns, stash # None, stash.turn = t
    PROVE  /\ Len(Stashed) <= Len(msgs[t])
           /\ \A i \in 1 .. Len(Stashed) : Stashed[i] = msgs[t][i]
  <1> DEFINE q == SubSeq(msgs[t], 1, stash.len)
  <1>0. msgs[t] \in Seq(Entries) /\ Len(msgs[t]) \in Nat
    BY ListTypes
  <1>1. stash.len \in 0 .. Len(msgs[t])
    BY <1>0, ListTypes
  <1>2. q \in Seq(Entries) /\ Len(q) = stash.len /\ \A i \in 1 .. stash.len : q[i] = msgs[t][i]
    BY <1>0, <1>1, Beginning
  <1>3. Stashed = msgs[t] \/ Stashed = q
    BY DEF Stashed
  <1> HIDE DEF q
  <1> QED BY <1>0, <1>1, <1>2, <1>3

\* A turn at work adds to its messages: the stash holds the longer list, or
\* what it held.
LEMMA StashGrows ==
    ASSUME TypeInv, NEW t \in Turns, NEW x \in Seq(Entries), stash # None, stash.turn = t,
           stash' = stash, msgs' = [msgs EXCEPT ![t] = x],
           Len(x) >= Len(msgs[t]), \A i \in 1 .. Len(msgs[t]) : x[i] = msgs[t][i]
    PROVE  /\ Stashed' = x \/ Stashed' = Stashed
           /\ Len(Stashed) <= Len(msgs[t])
           /\ \A i \in 1 .. Len(Stashed) : Stashed[i] = msgs[t][i]
  <1>1. /\ msgs[t] \in Seq(Entries) /\ stash.len \in 0 .. Len(msgs[t])
        /\ Len(msgs[t]) \in Nat /\ Len(x) \in Nat /\ msgs'[t] = x
    BY ListTypes
  <1> DEFINE n == stash.len
             p == SubSeq(msgs[t], 1, n)
             q == SubSeq(x, 1, n)
  <1>2. /\ p \in Seq(Entries) /\ Len(p) = n /\ \A i \in 1 .. n : p[i] = msgs[t][i]
    BY <1>1, Beginning
  <1>3. /\ q \in Seq(Entries) /\ Len(q) = n /\ \A i \in 1 .. n : q[i] = x[i]
    <2>1. n \in 0 .. Len(x)
      BY <1>1
    <2> QED BY <2>1, Beginning
  <1>4. \A i \in 1 .. n : i \in 1 .. Len(msgs[t])
    BY <1>1
  <1> HIDE DEF p, q, n
  <1>5. p = q
    BY <1>2, <1>3, <1>4
  <1>6. CASE stash.len = Live
    BY <1>1, <1>6 DEF Stashed
  <1>7. CASE stash.len # Live
    <2>1. Stashed = p /\ Stashed' = q
      BY <1>1, <1>7 DEF Stashed, p, q, n
    <2> QED BY <1>1, <1>2, <1>4, <1>5, <2>1 DEF n
  <1> QED BY <1>6, <1>7

\* What a longer list of a turn at work does to the invariant.
LEMMA PairsGrow ==
    ASSUME TypeInv, PairsNow, NEW t \in Turns, Solo(t), NEW x \in Seq(Entries),
           pc[t] \in Working, pc'[t] \in Working,
           stash' = stash, msgs' = [msgs EXCEPT ![t] = x],
           Len(x) >= Len(msgs[t]), \A i \in 1 .. Len(msgs[t]) : x[i] = msgs[t][i],
           UNCHANGED <<save, cps, disk, writes>>,
           pc'[t] \in {"ask", "tool"} =>
              hops'[t] = hops[t] /\ NearlyPaired(x) /\ Asks(x, t) /\ Asks(log', t),
           pc'[t] \notin {"ask", "tool"} => Paired(x),
           pc'[t] \in {"answer", "post"} => Hist' = x,
           pc'[t] # "post",
           Hist' = Hist \/ (Hist' = x /\ Paired(x)),
           WellMade(x), Regular(log')
    PROVE  PairsNow'
  <1>0. stash # None /\ stash.turn = t /\ \A i \in DOMAIN cps : CutAt(Stashed, cps[i].len)
    BY DEF PairsNow, AtWork
  <1>1. /\ Stashed' = x \/ Stashed' = Stashed
        /\ Len(Stashed) <= Len(msgs[t])
        /\ \A i \in 1 .. Len(Stashed) : Stashed[i] = msgs[t][i]
    BY <1>0, StashGrows
  <1>2. Stashed \in Seq(Entries) /\ msgs[t] \in Seq(Entries) /\ msgs'[t] = x
        /\ \A i \in DOMAIN cps : cps[i].len \in Nat
    BY <1>0, ListTypes
  <1>3. \A i \in DOMAIN cps : CutAt(x, cps[i].len)
    <2>1. /\ Len(x) >= Len(Stashed) /\ Len(Stashed) \in Nat
          /\ \A i \in 1 .. Len(Stashed) : i \in 1 .. Len(msgs[t])
      BY <1>1, <1>2
    <2>2. \A i \in 1 .. Len(Stashed) : x[i] = Stashed[i]
      BY <1>1, <2>1
    <2> QED BY <1>0, <1>2, <2>1, <2>2, CutLonger
  <1>4. \A i \in DOMAIN cps : CutAt(Stashed', cps[i].len)
    BY <1>0, <1>1, <1>3
  <1>5. WellMade(Stashed')
    BY <1>0, <1>1 DEF PairsNow, Recoverable
  <1>6. KeptPaired'
    BY DEF PairsNow, KeptPaired, Solo, Working, Ending
  <1>7. AtWork'
    <2>1. stash' # None /\ stash'.turn = t
      BY <1>0
    <2>2. \A u \in Turns : u # t => pc'[u] \notin Working
      BY DEF Solo
    <2>3. \A i \in DOMAIN cps' : CutAt(Stashed', cps'[i].len)
      BY <1>4
    <2>4. pc'[t] \in {"ask", "tool"} => NearlyPaired(msgs'[t]) /\ Asks(msgs[t], t)' /\ Asks(log, t)'
      BY <1>2 DEF Asks
    <2> QED BY <1>2, <2>1, <2>2, <2>3, <2>4 DEF AtWork
  <1>8. Recoverable'
    BY <1>5 DEF Recoverable, WellMade, NearlyPaired, Open, Answered, Regular
  <1>9. Cuts'
    <2>1. \A i \in DOMAIN cps : CutAt(Hist', cps[i].len)
      BY <1>3 DEF PairsNow, Cuts
    <2>2. ~ \A u \in Turns : pc'[u] \notin Working
      OBVIOUS
    <2>3. ~ \A u \in Turns : pc'[u] \notin {"prep"} \cup Working
      OBVIOUS
    <2> QED BY <2>1, <2>2, <2>3 DEF PairsNow, Cuts
  <1> QED BY <1>6, <1>7, <1>8, <1>9 DEF PairsNow

\* A hop starts, and steering messages are spliced in one by one.
LEMMA PairsHop ==
    ASSUME TypeInv, PairsNow, NEW t \in Turns, Solo(t), Splicing(t)
    PROVE  PairsNow'
  <1>0. /\ pc[t] \in {"hop", "splice"} /\ pc'[t] \in {"splice", "llm"}
        /\ UNCHANGED <<save, hops, hist, cps, disk, writes, log, stash>>
        /\ Hist' = Hist
    BY ListTypes DEF Splicing, HopStarts, SpliceNext, SpliceEnds, storeVars, runVars, taskVars,
                     Hist
  <1>1. msgs[t] \in Seq(Entries) /\ Paired(msgs[t])
    BY <1>0, ListTypes DEF PairsNow, AtWork, Working
  <1>2. PICK x : /\ msgs' = [msgs EXCEPT ![t] = x]
                 /\ x \in Seq(Entries) /\ Paired(x) /\ Len(x) >= Len(msgs[t])
                 /\ \A i \in 1 .. Len(msgs[t]) : x[i] = msgs[t][i]
    <2>1. CASE msgs' = msgs
      <3>1. msgs' = [msgs EXCEPT ![t] = msgs[t]]
        BY <2>1, ListTypes
      <3>2. Len(msgs[t]) >= Len(msgs[t]) /\ \A i \in 1 .. Len(msgs[t]) : msgs[t][i] = msgs[t][i]
        BY <1>1
      <3> QED BY <1>1, <3>1, <3>2, Zenon
    <2>2. CASE \E m \in Msgs : Splices(t, m)
      <3>1. PICK m \in Msgs : Splices(t, m)
        BY <2>2
      <3>2. msgs' = [msgs EXCEPT ![t] = Append(msgs[t], Steer(m))]
        BY <3>1 DEF Splices, Splice
      <3>3. Steer(m) \in Entries /\ Plain(Steer(m))
        BY MakeEntries, Kinds DEF Plain
      <3>4. Paired(Append(msgs[t], Steer(m)))
        BY <1>1, <3>3, PairedAppend
      <3> HIDE DEF Steer
      <3>5. /\ Append(msgs[t], Steer(m)) \in Seq(Entries)
            /\ Len(Append(msgs[t], Steer(m))) >= Len(msgs[t])
            /\ \A i \in 1 .. Len(msgs[t]) : Append(msgs[t], Steer(m))[i] = msgs[t][i]
        BY <1>1, <3>3
      <3> QED BY <3>2, <3>4, <3>5
    <2> QED BY <2>1, <2>2, SpliceMessage DEF Splicing, Splices
  <1>3. WellMade(x) /\ Regular(log')
    BY <1>0, <1>2, PairedWellMade DEF PairsNow, Recoverable
  <1> QED BY <1>0, <1>2, <1>3, PairsGrow DEF Working

\* The model asks for a tool.
LEMMA PairsCall ==
    ASSUME TypeInv, Within(Said), PairsNow, NEW t \in Turns, Solo(t),
           NEW tool \in {"tool", "ask"}, LlmCalls(t, tool)
    PROVE  PairsNow'
  <1> DEFINE e == Call(t, hops[t])
             x == Append(msgs[t], e)
             l == Append(log, e)
  <1>0. /\ pc[t] = "llm" /\ pc'[t] = tool /\ msgs' = [msgs EXCEPT ![t] = x] /\ log' = l
        /\ UNCHANGED <<save, hops, hist, cps, disk, writes, stash>>
        /\ Hist' = Hist
    BY ListTypes DEF LlmCalls, agentVars, Hist
  <1>1. e \in Entries /\ IsCall(e)
    BY ListTypes, MakeEntries, Kinds DEF IsCall
  <1>2. msgs[t] \in Seq(Entries) /\ log \in Seq(Entries) /\ Paired(msgs[t])
    BY <1>0, ListTypes DEF PairsNow, AtWork, Working
  <1>3. /\ Asks(x, t) /\ Asks(l, t)
        /\ \A y \in ToSet(log) : ~AnswersCall(y, e)
    BY <1>0, CallAsks DEF Within, Lists
  <1>4. Regular(l)
    <2>1. e[1] \notin {"result", "void"}
      BY Kinds
    <2> HIDE DEF e
    <2> QED BY <1>1, <1>2, <1>3, <2>1, RegularAppend DEF PairsNow, Recoverable
  <1>5. NearlyPaired(x)
    <2>1. NearlyPaired(msgs[t]) /\ (msgs[t] # <<>> => ~IsCall(msgs[t][Len(msgs[t])]))
      BY <1>2, PairedNearly
    <2>2. e[1] \notin {"result", "void"}
      BY Kinds
    <2> HIDE DEF e
    <2> QED BY <1>1, <1>2, <2>1, <2>2, NearlyAppend
  <1> HIDE DEF e
  <1>6. /\ x \in Seq(Entries) /\ Len(x) >= Len(msgs[t])
        /\ \A i \in 1 .. Len(msgs[t]) : x[i] = msgs[t][i]
    BY <1>1, <1>2
  <1> HIDE DEF x, l
  <1>7. WellMade(x)
    BY <1>3, <1>5, <1>6, AsksWellMade
  <1>8. Asks(log', t) /\ hops'[t] = hops[t]
    BY <1>0, <1>3
  <1>9. Regular(log') /\ pc[t] \in Working /\ pc'[t] \in Working /\ pc'[t] \in {"ask", "tool"}
    BY <1>0, <1>4 DEF Working
  <1> QED BY <1>0, <1>3, <1>5, <1>6, <1>7, <1>8, <1>9, PairsGrow

\* The tool returns.
LEMMA PairsResult ==
    ASSUME TypeInv, PairsNow, NEW t \in Turns, Solo(t), ToolReturns(t)
    PROVE  PairsNow'
  <1> DEFINE e == Result(t, hops[t])
             x == Append(msgs[t], e)
  <1>0. /\ pc[t] \in {"ask", "tool"} /\ pc'[t] = "midsave" /\ msgs' = [msgs EXCEPT ![t] = x]
        /\ log' = Append(log, e) /\ hist' = msgs'[t]
        /\ UNCHANGED <<save, cps, disk, writes, stash>>
    BY ListTypes DEF ToolReturns
  <1>1. /\ msgs[t] \in Seq(Entries) /\ log \in Seq(Entries) /\ e \in Entries
        /\ hops[t] \in 0 .. MaxHops
        /\ NearlyPaired(msgs[t]) /\ Asks(msgs[t], t) /\ Asks(log, t) /\ Regular(log)
    BY <1>0, ListTypes, MakeEntries DEF PairsNow, AtWork, Recoverable, Working
  <1>2. Paired(x) /\ Regular(log')
    BY <1>0, <1>1, AsksResult, RegularResult
  <1> HIDE DEF e
  <1>3. /\ x \in Seq(Entries) /\ Len(x) >= Len(msgs[t])
        /\ \A i \in 1 .. Len(msgs[t]) : x[i] = msgs[t][i]
    BY <1>1
  <1>4. msgs'[t] = x
    BY <1>0, ListTypes
  <1> HIDE DEF x
  <1>5. Hist' = x
    BY <1>0, <1>3, <1>4, ListsLoaded DEF Hist
  <1>6. /\ pc[t] \in Working /\ pc'[t] \in Working /\ pc'[t] \notin {"ask", "tool", "answer", "post"}
        /\ WellMade(x)
    BY <1>0, <1>2, <1>3, PairedWellMade DEF Working
  <1> QED BY <1>0, <1>2, <1>3, <1>5, <1>6, PairsGrow

\* The model answers.
LEMMA PairsAnswer ==
    ASSUME TypeInv, PairsNow, NEW t \in Turns, Solo(t), LlmAnswers(t) \/ LlmDrafts(t)
    PROVE  PairsNow'
  <1> DEFINE e == IF LlmAnswers(t) THEN Reply(t) ELSE Draft(t, hops[t])
             x == Append(msgs[t], e)
  <1>0. /\ pc[t] = "llm" /\ msgs' = [msgs EXCEPT ![t] = x] /\ log' = Append(log, e)
        /\ UNCHANGED <<save, cps, disk, writes, stash>>
        /\ \/ pc'[t] = "answer" /\ hist' = msgs'[t]
           \/ pc'[t] = "hop" /\ hist' = hist
    BY ListTypes DEF LlmAnswers, LlmDrafts, agentVars
  <1>1. /\ msgs[t] \in Seq(Entries) /\ log \in Seq(Entries) /\ e \in Entries
        /\ Paired(msgs[t]) /\ Regular(log) /\ Plain(e)
    BY <1>0, ListTypes, MakeEntries, Kinds DEF PairsNow, AtWork, Recoverable, Working, Plain
  <1> HIDE DEF e
  <1>2. Paired(x) /\ Regular(log')
    BY <1>0, <1>1, PairedAppend, RegularAppend DEF Plain, IsCall
  <1>3. /\ x \in Seq(Entries) /\ Len(x) >= Len(msgs[t])
        /\ \A i \in 1 .. Len(msgs[t]) : x[i] = msgs[t][i]
    BY <1>1
  <1>4. msgs'[t] = x
    BY <1>0, ListTypes
  <1> HIDE DEF x
  <1>5. (pc'[t] = "answer" /\ Hist' = x) \/ (pc'[t] = "hop" /\ Hist' = Hist)
    BY <1>0, <1>3, <1>4, ListsLoaded DEF Hist
  <1>6. /\ pc[t] \in Working /\ pc'[t] \in Working /\ pc'[t] \notin {"ask", "tool", "post"}
        /\ WellMade(x)
    BY <1>0, <1>2, <1>3, PairedWellMade DEF Working
  <1> QED BY <1>0, <1>2, <1>3, <1>5, <1>6, PairsGrow

\* The copy that a save leaves is the turn's list.
LEMMA SavedStash ==
    ASSUME TypeInv, NEW t \in Turns, Saved(t)
    PROVE  Stashed' = msgs[t] /\ stash' # None /\ stash'.turn = t
  <1> DEFINE n == Len(msgs[t])
             q == SubSeq(msgs[t], 1, n)
  <1>0. msgs[t] \in Seq(Entries) /\ msgs' = msgs /\ stash' = [turn |-> t, len |-> Len(msgs[t])]
    BY ListTypes DEF Saved, taskVars
  <1>1. n \in 0 .. n /\ n \in Nat /\ DOMAIN msgs[t] = 1 .. n
    BY <1>0
  <1>2. q \in Seq(Entries) /\ Len(q) = n /\ \A i \in 1 .. n : q[i] = msgs[t][i]
    BY <1>0, <1>1, Beginning
  <1>3. q = msgs[t]
    BY <1>0, <1>1, <1>2
  <1>4. stash' \in [turn : Turns, len : Nat] /\ stash'.turn = t /\ stash'.len = n
    BY <1>0, <1>1
  <1>5. stash' # None
    BY <1>4, ConstantsAssumption
  <1> QED BY <1>0, <1>3, <1>4, <1>5 DEF Stashed

\* A save in the middle of the turn is over.
LEMMA PairsSaved ==
    ASSUME TypeInv, PairsNow, NEW t \in Turns, Solo(t), Saved(t)
    PROVE  PairsNow'
  <1>0. /\ (pc[t] = "midsave" /\ pc'[t] = "hop") \/ (pc[t] = "answer" /\ pc'[t] = "post")
        /\ disk' \in {disk, msgs[t]} /\ stash' = [turn |-> t, len |-> Len(msgs[t])]
        /\ UNCHANGED <<msgs, save, hops, cps, writes, log>> /\ Hist' = Hist
    <2>1. pc[t] = "answer" => Hist = msgs[t] /\ msgs[t] # None
      BY ListTypes, ListsLoaded DEF PairsNow, AtWork, Working
    <2> QED BY <2>1, ListTypes DEF Saved, Saves, taskVars, Hist
  <1>1. /\ msgs[t] \in Seq(Entries) /\ Paired(msgs[t])
        /\ stash # None /\ stash.turn = t /\ \A i \in DOMAIN cps : CutAt(Stashed, cps[i].len)
        /\ pc[t] = "answer" => Hist = msgs[t]
    BY <1>0, ListTypes DEF PairsNow, AtWork, Working
  <1>2. /\ Len(Stashed) <= Len(msgs[t])
        /\ \A i \in 1 .. Len(Stashed) : Stashed[i] = msgs[t][i]
    BY <1>1, StashBegins
  <1>3. \A i \in DOMAIN cps : CutAt(msgs[t], cps[i].len)
    BY <1>1, <1>2, CutLonger, ListTypes
  <1>4. Stashed' = msgs[t] /\ stash' # None /\ stash'.turn = t
    BY SavedStash
  <1>5. KeptPaired'
    BY <1>0, <1>1 DEF PairsNow, KeptPaired, Solo, Working, Ending
  <1>6. AtWork'
    BY <1>0, <1>1, <1>3, <1>4 DEF AtWork, Solo
  <1>7. Recoverable'
    BY <1>0, <1>1, <1>4, PairedWellMade DEF PairsNow, Recoverable
  <1>8. Cuts'
    BY <1>0 DEF PairsNow, Cuts, Working
  <1> QED BY <1>5, <1>6, <1>7, <1>8 DEF PairsNow

\* The history a turn leaves with, and is going to save.
LEMMA LeftHist ==
    ASSUME TypeInv, NEW t \in Turns, NEW ok \in BOOLEAN,
           pc[t] \in Early \cup Working, Leave(t, ok)
    PROVE  /\ Hist' \in Seq(Entries) /\ save'[t] = Hist'
           /\ \/ ok /\ Hist' = Hist
              \/ ~ok /\ stash # None /\ Hist' = Recovered(Stashed, t)
              \/ ~ok /\ stash = None /\ Hist' = Apology(Hist, user[t], t)
  <1>0. /\ user[t] \in Msgs /\ Hist \in Seq(Entries)
        /\ stash # None => Stashed \in Seq(Entries)
    BY ListTypes DEF TypeInv, TurnData, Early, Working
  <1>1. CASE ok
    BY <1>0, <1>1, ListTypes DEF Leave, Hist
  <1>2. CASE ~ok /\ stash # None
    <2>1. hist' = Recovered(Stashed, t) /\ save' = [save EXCEPT ![t] = hist']
      BY <1>2 DEF Leave
    <2>2. hist' \in Seq(Entries)
      BY <1>0, <1>2, <2>1, RecoveredType
    <2>3. Hist' = hist'
      BY <2>2, ListsLoaded DEF Hist
    <2> QED BY <1>2, <2>1, <2>2, <2>3, ListTypes
  <1>3. CASE ~ok /\ stash = None
    <2>1. hist' = Apology(Hist, user[t], t) /\ save' = [save EXCEPT ![t] = hist']
      BY <1>3 DEF Leave
    <2>2. hist' \in Seq(Entries)
      BY <1>0, <2>1, ApologyType
    <2>3. Hist' = hist'
      BY <2>2, ListsLoaded DEF Hist
    <2> QED BY <1>3, <2>1, <2>2, <2>3, ListTypes
  <1> QED BY <1>1, <1>2, <1>3

\* A turn leaves with a paired history, whatever it was at.
LEMMA PairsLeave ==
    ASSUME TypeInv, PairsNow, NEW t \in Turns, Solo(t), NEW ok \in BOOLEAN,
           pc[t] \in Early \cup Working, Leave(t, ok), ok => pc[t] = "post",
           UNCHANGED <<msgs, hops, stash, cps, log>>, Paired(disk'),
           \A q \in writes' : q \in writes \/ Paired(q)
    PROVE  PairsNow'
  <1>0. /\ Stashed' = Stashed /\ user[t] \in Msgs /\ Hist \in Seq(Entries) /\ Paired(Hist)
        /\ pc'[t] \in Ending
        /\ pc[t] \in Working => stash # None /\ stash.turn = t
        /\ stash # None => stash.turn \in Turns /\ Stashed \in Seq(Entries) /\ WellMade(Stashed)
        /\ \A i \in DOMAIN cps : cps[i].len \in Nat
    BY ListTypes DEF Stashed, TypeInv, TurnData, Early, Working, PairsNow, KeptPaired, AtWork,
                     Recoverable, Leave, Ending
  <1>1. /\ Hist' \in Seq(Entries) /\ Paired(Hist') /\ save'[t] = Hist'
        /\ \/ ok /\ Hist' = Hist
           \/ ~ok /\ stash # None /\ Hist' = Recovered(Stashed, t)
           \/ ~ok /\ stash = None /\ Hist' = Apology(Hist, user[t], t)
    <2>1. /\ Hist' \in Seq(Entries) /\ save'[t] = Hist'
          /\ \/ ok /\ Hist' = Hist
             \/ ~ok /\ stash # None /\ Hist' = Recovered(Stashed, t)
             \/ ~ok /\ stash = None /\ Hist' = Apology(Hist, user[t], t)
      BY LeftHist
    <2>2. stash # None => Paired(Recovered(Stashed, t))
      BY <1>0, RecoveredPaired
    <2>3. Paired(Apology(Hist, user[t], t))
      BY <1>0, ApologyExtends
    <2> QED BY <1>0, <2>1, <2>2, <2>3
  <1>2. stash # None =>
           \A i \in DOMAIN cps : CutAt(Recovered(Stashed, stash.turn), cps[i].len)
    <2> SUFFICES ASSUME stash # None, NEW i \in DOMAIN cps
                 PROVE  CutAt(Recovered(Stashed, stash.turn), cps[i].len)
      OBVIOUS
    <2>1. CASE pc[t] \in Working
      <3>1. CutAt(Stashed, cps[i].len)
        BY <2>1 DEF PairsNow, AtWork
      <3> QED BY <1>0, <3>1, CutRecovered
    <2>2. CASE pc[t] \notin Working
      BY <2>2 DEF PairsNow, Cuts, Solo
    <2> QED BY <2>1, <2>2
  <1>3. \A i \in DOMAIN cps : CutAt(Hist', cps[i].len)
    <2> SUFFICES ASSUME NEW i \in DOMAIN cps PROVE CutAt(Hist', cps[i].len)
      OBVIOUS
    <2>1. CASE Hist' = Hist
      BY <2>1 DEF PairsNow, Cuts
    <2>2. CASE stash # None /\ Hist' = Recovered(Stashed, t)
      <3>1. CutAt(Recovered(Stashed, stash.turn), cps[i].len)
        BY <1>2, <2>2
      <3>2. CutAt(Recovered(Stashed, t), cps[i].len)
        BY <1>0, <2>2, <3>1, CutWhose
      <3> QED BY <2>2, <3>2
    <2>3. CASE Hist' = Apology(Hist, user[t], t)
      <3> DEFINE x == Apology(Hist, user[t], t)
      <3>1. x \in Seq(Entries) /\ Len(x) > Len(Hist)
            /\ \A j \in 1 .. Len(Hist) : x[j] = Hist[j]
        BY <1>0, ApologyExtends
      <3>2. CutAt(Hist, cps[i].len)
        BY DEF PairsNow, Cuts
      <3> HIDE DEF x
      <3>3. Len(x) >= Len(Hist)
        BY <1>0, <3>1
      <3>4. CutAt(x, cps[i].len)
        BY <1>0, <3>1, <3>2, <3>3, CutLonger
      <3> QED BY <2>3, <3>4 DEF x
    <2> QED BY <1>1, <2>1, <2>2, <2>3
  <1>4. stash # None => CutAt(Recovered(Stashed, stash.turn), Len(Hist'))
    <2> SUFFICES ASSUME stash # None PROVE CutAt(Recovered(Stashed, stash.turn), Len(Hist'))
      OBVIOUS
    <2>1. CASE ok
      <3>1. Hist' = Stashed /\ Paired(Stashed)
        BY <1>0, <1>1, <2>1 DEF PairsNow, AtWork, Working
      <3> QED BY <1>0, <3>1, CutRecoveredEnd
    <2>2. CASE ~ok
      <3>1. Hist' = Recovered(Stashed, t) /\ Len(Hist') \in Nat
        BY <1>1, <2>2
      <3>2. CutAt(Hist', Len(Hist'))
        BY <1>1, CutEnd
      <3> QED BY <1>0, <3>1, <3>2, CutWhose
    <2> QED BY <2>1, <2>2
  <1>5. KeptPaired'
    BY <1>0, <1>1 DEF PairsNow, KeptPaired, Solo
  <1>6. AtWork'
    BY <1>0 DEF AtWork, Solo, Working, Ending
  <1>7. Recoverable'
    BY <1>0 DEF PairsNow, Recoverable
  <1>8. Cuts'
    BY <1>0, <1>2, <1>3, <1>4 DEF PairsNow, Cuts
  <1> QED BY <1>5, <1>6, <1>7, <1>8 DEF PairsNow

\* The finally block saves what it made, or is killed and leaves the save to
\* its thread.
LEMMA PairsEnd ==
    ASSUME TypeInv, PairsNow, NEW t \in Turns, Solo(t),
           RecoverySaved(t) \/ Ends(t) \/ (Killed(t) /\ pc[t] \in Ending)
    PROVE  PairsNow'
  <1>0. /\ pc[t] \in Ending /\ pc'[t] \in {"save", "done"} /\ (stash' = stash \/ stash' = None)
        /\ disk' = disk \/ disk' = save[t]
        /\ \A q \in writes' : q \in writes \/ q = save[t]
        /\ pc'[t] = "save" => save'[t] = Hist
        /\ UNCHANGED <<msgs, hops, hist, cps, log>>
        /\ Hist' = Hist /\ (stash' = stash => Stashed' = Stashed)
    <2>1. CASE RecoverySaved(t)
      BY <2>1, ListTypes DEF RecoverySaved, Saves, Ending, taskVars, agentVars, Hist, Stashed
    <2>2. CASE Ends(t)
      BY <2>2, ListTypes DEF Ends, Saves, Done, Ending, taskVars, Hist, Stashed
    <2>3. CASE Killed(t) /\ pc[t] \in Ending
      BY <2>3, ListTypes DEF Killed, Done, Early, Working, Ending, taskVars, Hist, Stashed
    <2> QED BY <2>1, <2>2, <2>3
  <1>1. Paired(save[t]) /\ Paired(Hist)
    BY <1>0 DEF PairsNow, KeptPaired
  <1>2. KeptPaired'
    <2>1. \A u \in Turns : pc'[u] \in Ending => Paired(save'[u])
      <3>1. \A u \in Turns : u # t => pc'[u] \notin Ending
        BY DEF Solo
      <3> QED BY <1>0, <1>1, <3>1 DEF Ending
    <2>2. Paired(Hist') /\ Paired(disk') /\ \A q \in writes' : Paired(q)
      BY <1>0, <1>1 DEF PairsNow, KeptPaired
    <2> QED BY <2>1, <2>2 DEF KeptPaired
  <1>3. AtWork'
    BY <1>0 DEF AtWork, Solo, Working, Ending
  <1>4. Recoverable'
    BY <1>0 DEF PairsNow, Recoverable
  <1>5. Cuts'
    BY <1>0 DEF PairsNow, Cuts, Solo, Working, Ending
  <1> QED BY <1>2, <1>3, <1>4, <1>5 DEF PairsNow

\* A rewind leaves the history noted in the checkpoint, and stores it.
LEMMA RewoundHist ==
    ASSUME TypeInv, PairsNow, NEW i \in DOMAIN cps, Rewind(i)
    PROVE  /\ Hist' \in Seq(Entries) /\ Paired(Hist') /\ disk' \in {disk, Hist'}
           /\ ~stale' => disk' = Hist'
           /\ Len(Hist') = cps[i].len /\ cps[i].len \in Nat
           /\ \A k \in 1 .. cps[i].len : Hist'[k] = Hist[k]
           /\ hist' # None
  <1> DEFINE n == cps[i].len
             h == SubSeq(Hist, 1, n)
  <1>0. /\ Hist \in Seq(Entries) /\ Len(Hist) \in Nat /\ n \in Nat /\ CutAt(Hist, n)
        /\ Paired(Hist) /\ n <= Len(Hist)
    BY ListTypes DEF PairsNow, Cuts, CutAt, KeptPaired
  <1>1. h \in Seq(Entries) /\ Paired(h) /\ Len(h) = n
    BY <1>0, CutPaired
  <1>2. \A j \in 1 .. n : h[j] = Hist[j]
    BY <1>0, Beginning
  <1>3. hist' = h /\ disk' \in {disk, h} /\ (~stale' => disk' = h)
    <2>1. (IF n < Len(Hist) THEN n ELSE Len(Hist)) = n
      BY <1>0
    <2> QED BY <2>1 DEF Rewind, Saves
  <1> HIDE DEF h
  <1>4. Hist' = h /\ hist' # None
    BY <1>1, <1>3, ListsLoaded DEF Hist
  <1> QED BY <1>0, <1>1, <1>2, <1>3, <1>4

\* A rewind keeps a beginning of the history that ends with no call.
LEMMA PairsRewind ==
    ASSUME TypeInv, PairsNow, NEW i \in DOMAIN cps, Rewind(i), Running = {}
    PROVE  PairsNow'
  <1> DEFINE n == cps[i].len
             h == Hist'
  <1>0. /\ UNCHANGED <<msgs, save, hops, stash, writes, log, pc>> /\ Stashed' = Stashed
        /\ Hist \in Seq(Entries) /\ Len(Hist) \in Nat /\ n \in Nat /\ CutAt(Hist, n)
        /\ Paired(Hist) /\ n <= Len(Hist)
        /\ \A t \in Turns : pc[t] \notin {"prep"} \cup Working \cup Ending
    BY ListTypes DEF Rewind, taskVars, runVars, Stashed, PairsNow, Cuts, CutAt, KeptPaired,
                     Running, Alive, Early
  <1>1. /\ h \in Seq(Entries) /\ Paired(h) /\ Len(h) = n /\ disk' \in {disk, h}
        /\ \A j \in 1 .. n : h[j] = Hist[j]
    BY RewoundHist
  <1> HIDE DEF h
  <1>4. Hist' = h
    BY DEF h
  <1>5. \A j \in DOMAIN cps' : j \in DOMAIN cps /\ cps'[j] = cps[j] /\ j <= i
    BY CheckpointsDropped
  <1>6. \A j \in DOMAIN cps' : CutAt(h, cps'[j].len)
    <2> SUFFICES ASSUME NEW j \in DOMAIN cps' PROVE CutAt(h, cps'[j].len)
      OBVIOUS
    <2>1. cps'[j].len <= n /\ CutAt(Hist, cps'[j].len) /\ cps'[j].len \in Nat
      BY <1>5, ListTypes DEF PairsNow, Cuts
    <2>2. cps'[j].len # 0 => cps'[j].len \in 1 .. n
      BY <1>0, <2>1
    <2> QED BY <1>1, <2>1, <2>2 DEF CutAt
  <1>7. KeptPaired'
    BY <1>0, <1>1, <1>4 DEF PairsNow, KeptPaired
  <1>8. AtWork' /\ Recoverable'
    BY <1>0 DEF PairsNow, AtWork, Recoverable
  <1>9. Cuts'
    <2>1. stash # None => CutAt(Recovered(Stashed, stash.turn), Len(h))
      BY <1>0, <1>1 DEF PairsNow, Cuts
    <2> QED BY <1>0, <1>4, <1>5, <1>6, <2>1 DEF PairsNow, Cuts
  <1> QED BY <1>7, <1>8, <1>9 DEF PairsNow

\* The actions that are no turn's.
LEMMA PairsElse ==
    ASSUME TypeInv, PairsNow, Else, Orderly({"meddled"})'
    PROVE  PairsNow'
  <1>1. CASE \E q \in writes : WriteLands(q)
    <2>1. PICK q \in writes : WriteLands(q)
      BY <1>1
    <2>2. /\ UNCHANGED <<msgs, save, hops, stash, hist, cps, log, pc>> /\ disk' \in {disk, q}
          /\ writes' \subseteq writes /\ Hist' = Hist /\ Stashed' = Stashed
      BY <2>1 DEF WriteLands, Saves, taskVars, runVars, agentVars, Hist, Stashed
    <2>3. KeptPaired'
      BY <2>2 DEF PairsNow, KeptPaired
    <2>4. AtWork' /\ Recoverable' /\ Cuts'
      BY <2>2 DEF PairsNow, AtWork, Recoverable, Cuts, Asks
    <2> QED BY <2>3, <2>4 DEF PairsNow
  <1>2. CASE \E i \in DOMAIN cps : Rewind(i)
    <2>1. PICK i \in DOMAIN cps : Rewind(i)
      BY <1>2
    <2>2. Running = {}
      BY <2>1 DEF Rewind, Meddled, Orderly
    <2> QED BY <2>1, <2>2, PairsRewind
  <1>3. Paired(<<>>) /\ Regular(<<>>) /\ \A q : CutAt(q, 0) <=> 0 <= Len(q)
    BY DEF Paired, Regular, CutAt
  <1>4. CASE ClearSession
    <2>1. Running = {}
      BY <1>4 DEF ClearSession, Meddled, Orderly
    <2>2. /\ UNCHANGED <<msgs, save, hops, stash, writes, pc>> /\ disk' \in {disk, <<>>}
          /\ log' = <<>>
          /\ Hist' = <<>> /\ cps' = <<>> /\ Stashed' = Stashed
          /\ \A t \in Turns : pc[t] \notin {"prep"} \cup Working \cup Ending
      BY <1>4, <2>1 DEF ClearSession, Saves, taskVars, runVars, Hist, Stashed, Running, Alive,
                        Early
    <2>3. KeptPaired' /\ AtWork' /\ Recoverable'
      BY <1>3, <2>2 DEF PairsNow, KeptPaired, AtWork, Recoverable
    <2>4. stash # None => CutAt(Recovered(Stashed, stash.turn), 0)
      <3> SUFFICES ASSUME stash # None PROVE CutAt(Recovered(Stashed, stash.turn), 0)
        OBVIOUS
      <3>1. Recovered(Stashed, stash.turn) \in Seq(Entries)
        BY ListTypes, RecoveredType
      <3>2. Len(Recovered(Stashed, stash.turn)) \in Nat
        BY <3>1, Beginning
      <3> QED BY <3>2 DEF CutAt
    <2>5. DOMAIN cps' = {} /\ Len(Hist') = 0
      BY <2>2
    <2>6. Cuts'
      BY <2>2, <2>4, <2>5 DEF Cuts
    <2> QED BY <2>3, <2>6 DEF PairsNow
  <1>5. CASE Crash
    <2>0. \A t \in Turns : pc'[t] \notin Alive
      BY <1>5 DEF Crash, Alive, Early, Working, Ending
    <2>4. hist' = None => Hist' = <<>>
      BY DEF Hist
    <2>1. /\ UNCHANGED <<save, disk, log>> /\ stash' = None /\ writes' = {} /\ cps' = <<>>
          /\ Hist' = <<>>
          /\ \A t \in Turns : pc'[t] \notin Working \cup Ending
      BY <1>5, <2>0, <2>4 DEF Crash, Alive
    <2>2. KeptPaired' /\ AtWork' /\ Recoverable'
      BY <1>3, <2>1 DEF PairsNow, KeptPaired, AtWork, Recoverable
    <2>3. DOMAIN cps' = {}
      BY <2>1
    <2> QED BY <2>1, <2>2, <2>3 DEF PairsNow, Cuts
  <1>6. CASE StoreFails \/ StoreServes \/ UNCHANGED vars
    BY <1>6, PairsFrame DEF StoreFails, StoreServes, vars, taskVars, runVars, agentVars
  <1> QED BY <1>1, <1>2, <1>4, <1>5, <1>6 DEF Else

\* Every step of a turn keeps the invariant.
LEMMA PairsTurn ==
    ASSUME TypeInv, Within(Said), PairsNow, NEW t \in Turns, Solo(t), Works(t)
    PROVE  PairsNow'
  <1>1. CASE HopRefused(t) \/ ToolCancelled(t) \/ Returns(t) \/ Fails(t)
    <2>1. /\ UNCHANGED <<msgs, hops, stash, cps, log, writes>>
          /\ disk' = disk \/ (disk' = msgs[t] /\ pc[t] = "post")
          /\ pc[t] \in Early \cup Working
          /\ \E ok \in BOOLEAN : Leave(t, ok) /\ (ok => pc[t] = "post")
      BY <1>1 DEF HopRefused, ToolCancelled, Returns, Fails, Saves, taskVars, storeVars, Early,
                  Working
    <2>2. Paired(disk')
      BY <2>1 DEF PairsNow, KeptPaired, AtWork, Working
    <2> QED BY <2>1, <2>2, PairsLeave
  <1>2. CASE Killed(t) /\ pc[t] \in Early \cup Working
    <2>1. /\ UNCHANGED <<msgs, hops, stash, cps, disk, log>> /\ Leave(t, FALSE)
          /\ \A q \in writes' : q \in writes \/
                (q = msgs[t] /\ pc[t] \in {"midsave", "answer", "post"})
      BY <1>2 DEF Killed, taskVars, Early, Working, Ending
    <2>2. pc[t] \in {"midsave", "answer", "post"} => Paired(msgs[t])
      BY DEF PairsNow, AtWork, Working
    <2>3. \A q \in writes' : q \in writes \/ Paired(q)
      BY <2>1, <2>2
    <2>4. FALSE \in BOOLEAN /\ Paired(disk')
      BY <2>1 DEF PairsNow, KeptPaired
    <2> QED BY <1>2, <2>1, <2>3, <2>4, PairsLeave
  <1>3. CASE RecoverySaved(t) \/ Ends(t) \/ (Killed(t) /\ pc[t] \notin Early \cup Working)
    <2>1. Killed(t) /\ pc[t] \notin Early \cup Working => pc[t] \in Ending
      BY DEF Killed
    <2> QED BY <1>3, <2>1, PairsEnd
  <1> QED BY <1>1, <1>2, <1>3, PairsBegin, PairsLoad, PairsPrepare, PairsHop, PairsCall,
             PairsResult, PairsAnswer, PairsSaved
          DEF Works, TurnStep, Outcome, Splicing

\* Every step keeps it.
LEMMA PairsStep ==
    ASSUME TypeInv, Control, Within(Said), Pairs, [Next]_vars
    PROVE  Pairs'
  <1> SUFFICES ASSUME Orderly({"meddled"})' PROVE PairsNow'
    BY DEF Pairs
  <1>0. Orderly({"meddled"}) /\ PairsNow /\ used["overlap"] = 0
    BY Remembered DEF Orderly, Pairs
  <1>1. ASSUME NEW c \in Conns, Gate(c)
        PROVE  PairsNow'
    <2>1. UNCHANGED <<msgs, save, hops, stash, hist, cps, disk, writes, log>>
      BY <1>1 DEF Gate, Connect, Disconnect, HangUp, Announced, Stop, WatchdogFires,
                  LoopEnds, SendUser, TurnStarts, taskVars, agentVars, storeVars, runVars
    <2>2. \A t \in Turns : \/ pc'[t] = pc[t] \/ (pc[t] = "ask" /\ pc'[t] = "tool")
                           \/ (pc[t] = "unused" /\ pc'[t] = "created")
      BY <1>1, ListTypes DEF Gate, Connect, Disconnect, HangUp, Announced, Stop, WatchdogFires,
                  LoopEnds, SendUser, TurnStarts, runVars
    <2> QED BY <1>0, <2>1, <2>2, PairsFrame DEF Working, Ending
  <1>2. ASSUME NEW t \in Turns, TurnOver(t)
        PROVE  PairsNow'
    <2>1. UNCHANGED <<msgs, save, hops, stash, hist, cps, disk, writes, log>>
      BY <1>2 DEF TurnOver, taskVars, agentVars, storeVars
    <2>2. \A u \in Turns : pc'[u] = pc[u] \/ (pc[u] = "done" /\ pc'[u] = "over")
      BY <1>2, ListTypes DEF TurnOver
    <2> QED BY <1>0, <2>1, <2>2, PairsFrame DEF Working, Ending
  <1>3. ASSUME NEW t \in Turns, Works(t)
        PROVE  PairsNow'
    <2>1. Solo(t)
      <3>1. pc[t] \in Alive /\ pc' = [pc EXCEPT ![t] = pc'[t]]
        BY <1>3, TurnMoves
      <3>2. \A u \in Turns : u # t => pc[u] \notin Alive \cup {"done"}
        BY <1>0, <3>1, Alone
      <3> QED BY <3>1, <3>2, ListTypes DEF Solo, Alive, Early
    <2> QED BY <1>0, <1>3, <2>1, PairsTurn
  <1>4. CASE Else
    BY <1>0, <1>4, PairsElse
  <1> QED BY <1>1, <1>2, <1>3, <1>4, Actors

\* Calls and results are always as Pairs says.
LEMMA PairsCorrect == Spec => []Pairs
  <1>1. Init => Pairs
    BY DEF Init, Pairs, PairsNow, KeptPaired, AtWork, Recoverable, Cuts, Hist, Paired, Regular,
           Working, Ending
  <1>2. TypeInv /\ Control /\ Within(Said) /\ Pairs /\ [Next]_vars => Pairs'
    BY PairsStep
  <1>3. Spec => []TypeInv
    BY TypeInit, TypeStep, PTL DEF Spec
  <1> QED BY <1>1, <1>2, <1>3, ControlCorrect, SaidCorrect, PTL DEF Spec

\* Whatever stops a turn, and at whatever point of it, the history in memory
\* and the stored one have each tool call directly followed by its result, also
\* when a second kill cuts the recovery short, a save lands late, the history is
\* rebuilt from the event log, or the user rewinds (agent_loop.py:1494-1498).
THEOREM AlwaysPaired == Spec => []HistoryPaired
  <1>1. Pairs => HistoryPaired
    BY DEF Pairs, PairsNow, KeptPaired, HistoryPaired
  <1> QED BY <1>1, PairsCorrect, PTL

-----------------------------------------------------------------------------
(* What the history keeps *)

\* Turns start one after the other; checkpoints and answers are of started ones.
Order ==
    /\ used["overlap"] = 0 =>
          \A t, u \in Turns : t < u /\ pc[u] # "unused" =>
              pc[t] \notin Alive \cup {"unused", "done"}
    /\ \A i \in DOMAIN cps : pc[cps[i].turn] # "unused"
    /\ \A t \in answered : pc[t] # "unused"

\* The first n messages of a list have e among them.
Has(q, n, e) == \E k \in 1 .. n : q[k] = e

\* Message e is in what the next turn is given.
Recalled(e) ==
    IF hist = None THEN e \in ToSet(disk) /\ e \in ToSet(log) ELSE e \in ToSet(Hist)

\* Message e, owed to turn u, is recalled, and stored unless the last save was
\* refused; it is in what a rewind to a later turn would leave, and in the list a
\* turn at work would save.
KeptOne(u, e) ==
    /\ Recalled(e) /\ (~stale => e \in ToSet(disk))
    /\ \A i \in DOMAIN cps :
          u < cps[i].turn => cps[i].blind \/ Has(Hist, cps[i].len, e)
    /\ \A t \in Turns : pc[t] \in Working => e \in ToSet(Stashed)

\* The answers and, as long as the daemon lives, the messages of the turns that
\* are over.
OverTurns == IF used["crash"] = 0 THEN {t \in Turns : pc[t] \in {"done", "over"}} ELSE {}
Owed ==
    {<<u, Reply(u)>> : u \in answered \ removed} \cup
    {<<u, User(user[u])>> : u \in OverTurns \ removed}

\* A turn at work has the history its checkpoints refer to, and its own message;
\* it works without a history only if none is stored.
Mine ==
    \A t \in Turns :
        /\ pc[t] \in Working =>
              /\ \A i \in DOMAIN cps : \A k \in 1 .. cps[i].len : Stashed[k] = Hist[k]
              /\ User(user[t]) \in ToSet(Stashed)
        /\ pc[t] \in {"prep"} \cup Working /\ hist = None => disk = <<>>
        /\ pc[t] \in {"answer", "post"} =>
              Reply(t) \in ToSet(msgs[t]) /\ Reply(t) \in ToSet(log)
        /\ pc[t] \in Ending => User(user[t]) \in ToSet(Hist)

\* The log has the answers, and a living daemon the history of the turns before.
Recorded ==
    /\ \A u \in answered \ removed : Reply(u) \in ToSet(log)
    /\ hist = None => OverTurns \subseteq removed

KeptNow == Mine /\ Recorded /\ \A p \in Owed : KeptOne(p[1], p[2])
Kept == Orderly({"cut", "meddled", "blind", "lost"}) => KeptNow

\* What a step that is neither a turn's beginning nor a rewind does to the
\* checkpoints.
LEMMA CheckpointsStay ==
    ASSUME [Next]_vars, \A t \in Turns : ~Begin(t), \A i \in DOMAIN cps : ~Rewind(i)
    PROVE  cps' = cps \/ cps' = <<>>
  <1>1. CASE \E c \in Conns : Gate(c)
    BY <1>1 DEF Gate, Connect, Disconnect, HangUp, Announced, Stop, WatchdogFires,
                LoopEnds, SendUser, TurnStarts, agentVars
  <1>2. ASSUME NEW t \in Turns, Works(t)
        PROVE  cps' = cps
    <2>1. CASE TurnStep(t)
      BY <2>1 DEF TurnStep, Load, Prepare, HopStarts, SpliceNext, SpliceEnds, HopRefused,
                  ToolCancelled, Saved, Returns, RecoverySaved, Ends, agentVars
    <2>2. CASE Outcome(t) \/ Killed(t)
      BY <2>2 DEF Outcome, LlmCalls, ToolReturns, LlmAnswers, LlmDrafts, Fails, Killed,
                  agentVars
    <2> QED BY <1>2, <2>1, <2>2 DEF Works
  <1>3. CASE \E t \in Turns : TurnOver(t)
    BY <1>3 DEF TurnOver, agentVars
  <1>4. CASE Else
    BY <1>4 DEF Else, WriteLands, ClearSession, Crash, StoreFails, StoreServes, vars, agentVars
  <1> QED BY <1>1, <1>2, <1>3, <1>4, Actors

\* No turn is unstarted again.
LEMMA Started ==
    ASSUME TypeInv, [Next]_vars
    PROVE  \A t \in Turns : pc[t] # "unused" => pc'[t] # "unused"
  <1>0. pc \in [Turns -> Alive \cup {"unused", "done", "over", "lost"}]
    BY ListTypes
  <1>1. ASSUME NEW c \in Conns, Gate(c)
        PROVE  \A t \in Turns : pc[t] # "unused" => pc'[t] # "unused"
    BY <1>0, <1>1 DEF Gate, Connect, Disconnect, HangUp, Announced, Stop, WatchdogFires,
                      LoopEnds, SendUser, TurnStarts, runVars
  <1>2. ASSUME NEW t \in Turns, Works(t)
        PROVE  \A u \in Turns : pc[u] # "unused" => pc'[u] # "unused"
    BY <1>0, <1>2, TurnMoves DEF Alive, Early, Working, Ending
  <1>3. ASSUME NEW t \in Turns, TurnOver(t)
        PROVE  \A u \in Turns : pc[u] # "unused" => pc'[u] # "unused"
    BY <1>0, <1>3 DEF TurnOver
  <1>4. CASE Else
    BY <1>0, <1>4 DEF Else, WriteLands, Rewind, ClearSession, Crash, StoreFails, StoreServes,
                      vars, runVars
  <1> QED BY <1>1, <1>2, <1>3, <1>4, Actors

\* Every step keeps the order of turns.
LEMMA OrderStep ==
    ASSUME TypeInv, Order, [Next]_vars
    PROVE  Order'
  <1>0. pc \in [Turns -> Alive \cup {"unused", "done", "over", "lost"}]
    BY ListTypes
  <1>1. ASSUME used'["overlap"] = 0
        PROVE  \A t, u \in Turns : t < u /\ pc'[u] # "unused" =>
                   pc'[t] \notin Alive \cup {"unused", "done"}
    <2>0. \A t, u \in Turns : t < u /\ pc[u] # "unused" =>
              pc[t] \notin Alive \cup {"unused", "done"}
      BY <1>1, Remembered DEF Order
    <2>1. ASSUME NEW c \in Conns, NEW v \in Turns, TurnStarts(c, v)
          PROVE  \A t, u \in Turns : t < u /\ pc'[u] # "unused" =>
                     pc'[t] \notin Alive \cup {"unused", "done"}
      <3>1. /\ pc[v] = "unused" /\ \A u \in Turns : u < v => pc[u] # "unused"
            /\ pc' = [pc EXCEPT ![v] = "created"] /\ Idle
        BY <1>1, <2>1 DEF TurnStarts, Spend, TypeInv, Types, UserTypes, Events
      <3>2. \A t, u \in Turns : t < u /\ u # v => t = v \/ pc'[t] = pc[t]
        BY <1>0, <3>1
      <3>3. ASSUME NEW t \in Turns, NEW u \in Turns, t < u, pc'[u] # "unused"
            PROVE  pc'[t] \notin Alive \cup {"unused", "done"}
        <4>1. u # v => pc[u] # "unused" /\ t # v
          BY <1>0, <2>0, <3>1, <3>3
        <4>2. t # v
          BY <3>3, <4>1 DEF Turns
        <4>3. pc'[t] = pc[t] /\ pc[t] \notin Alive \cup {"done"}
          BY <1>0, <3>1, <4>2 DEF Idle
        <4> QED BY <2>0, <3>1, <3>3, <4>1, <4>3
      <3> QED BY <3>3
    <2>2. ASSUME NEW c \in Conns, Gate(c), \A v \in Turns : ~TurnStarts(c, v)
          PROVE  \A t, u \in Turns : t < u /\ pc'[u] # "unused" =>
                     pc'[t] \notin Alive \cup {"unused", "done"}
      <3>1. \A t \in Turns : pc'[t] = pc[t] \/ (pc[t] = "ask" /\ pc'[t] = "tool")
        BY <1>0, <2>2 DEF Gate, Connect, Disconnect, HangUp, Announced, Stop, WatchdogFires,
                          LoopEnds, SendUser, runVars
      <3> QED BY <2>0, <3>1 DEF Alive, Working
    <2>3. ASSUME NEW v \in Turns, Works(v) \/ TurnOver(v)
          PROVE  \A t, u \in Turns : t < u /\ pc'[u] # "unused" =>
                     pc'[t] \notin Alive \cup {"unused", "done"}
      <3>1. /\ pc[v] \in Alive \cup {"done"}
            /\ \A t \in Turns : t # v => pc'[t] = pc[t]
        <4>1. CASE Works(v)
          <5>1. pc' = [pc EXCEPT ![v] = pc'[v]] /\ pc[v] \in Alive
            BY <4>1, TurnMoves
          <5> QED BY <1>0, <5>1
        <4>2. CASE TurnOver(v)
          BY <1>0, <4>2 DEF TurnOver
        <4> QED BY <2>3, <4>1, <4>2
      <3>2. pc[v] # "unused"
        BY <3>1 DEF Alive, Early, Working, Ending
      <3> QED BY <2>0, <3>1, <3>2
    <2>4. CASE Else
      BY <1>0, <2>0, <2>4 DEF Else, WriteLands, Rewind, ClearSession, Crash, StoreFails,
                              StoreServes, vars, runVars, Alive, Early, Working, Ending
    <2> QED BY <2>1, <2>2, <2>3, <2>4, Actors DEF Gate
  <1>2. \A i \in DOMAIN cps' : pc'[cps'[i].turn] # "unused"
    <2>0. \A i \in DOMAIN cps : cps[i].turn \in Turns
      <3>1. \A i \in DOMAIN cps : cps[i] \in [turn : Turns, len : Nat, blind : BOOLEAN]
        BY Beginning DEF TypeInv, Types, AgentTypes
      <3> QED BY <3>1
    <2>1. CASE \E t \in Turns : Begin(t)
      <3>1. PICK t \in Turns : Begin(t)
        BY <2>1
      <3>2. pc'[t] # "unused" /\ \A u \in Turns : pc[u] # "unused" => pc'[u] # "unused"
        BY <1>0, <3>1 DEF Begin
      <3>3. /\ DOMAIN cps' = 1 .. Len(cps) + 1 /\ Len(cps) \in Nat
            /\ \A i \in 1 .. Len(cps) : cps'[i] = cps[i] /\ i \in DOMAIN cps
            /\ cps'[Len(cps) + 1].turn = t
        BY <3>1, CheckpointTaken
      <3>4. \A i \in DOMAIN cps' : i \in 1 .. Len(cps) \/ i = Len(cps) + 1
        BY <3>3
      <3> QED BY <2>0, <3>2, <3>3, <3>4 DEF Order
    <2>2. CASE \E i \in DOMAIN cps : Rewind(i)
      <3>1. pc' = pc
        BY <2>2 DEF Rewind, runVars
      <3> QED BY <2>2, <3>1, CheckpointsDropped DEF Order
    <2>3. CASE ~(\E t \in Turns : Begin(t)) /\ ~(\E i \in DOMAIN cps : Rewind(i))
      <3>1. \A i \in DOMAIN cps' : i \in DOMAIN cps /\ cps'[i] = cps[i]
        <4>1. cps' = cps \/ cps' = <<>>
          BY <2>3, CheckpointsStay
        <4> QED BY <4>1
      <3> QED BY <2>0, <3>1, Started DEF Order
    <2> QED BY <2>1, <2>2, <2>3
  <1>3. \A t \in answered' : pc'[t] # "unused"
    <2>1. \A t \in answered' : t \in answered \/ pc[t] \in Working
      <3>1. CASE \E c \in Conns : Gate(c)
        BY <3>1 DEF Gate, Connect, Disconnect, HangUp, Announced, Stop, WatchdogFires,
                    LoopEnds, SendUser, TurnStarts, userVars
      <3>2. CASE \E t \in Turns : Works(t)
        BY <3>2 DEF Works, TurnStep, Outcome, Begin, Load, Prepare, HopStarts, SpliceNext,
                    SpliceEnds, HopRefused, ToolCancelled, Saved, Returns, RecoverySaved, Ends,
                    LlmCalls, ToolReturns, LlmAnswers, LlmDrafts, Fails, Killed, Leave, Working,
                    userVars
      <3>3. CASE \E t \in Turns : TurnOver(t)
        BY <3>3 DEF TurnOver
      <3>4. CASE Else
        BY <3>4 DEF Else, WriteLands, Rewind, ClearSession, Crash, StoreFails, StoreServes,
                    vars, userVars
      <3> QED BY <3>1, <3>2, <3>3, <3>4, Actors
    <2>2. answered' \subseteq Turns
      BY TypeStep DEF TypeInv, Types, UserTypes
    <2> QED BY <2>1, <2>2, Started DEF Order, Working
  <1> QED BY <1>1, <1>2, <1>3 DEF Order

\* Turns always start one after the other.
LEMMA OrderCorrect == Spec => []Order
  <1>1. Init => Order
    BY DEF Init, Order
  <1>2. TypeInv /\ Order /\ [Next]_vars => Order'
    BY OrderStep
  <1>3. Spec => []TypeInv
    BY TypeInit, TypeStep, PTL DEF Spec
  <1> QED BY <1>1, <1>2, <1>3, PTL DEF Spec

\* The daemon died if it died, and only then are refused saves lost.
LEMMA CrashRemembered ==
    ASSUME TypeInv, [Next]_vars
    PROVE  /\ used'["crash"] = 0 => used["crash"] = 0 /\ ~Crash
           /\ "lost" \in spoiled' => "lost" \in spoiled \/ Crash
  <1>0. used \in [Events -> Nat] /\ "crash" \in Events
    BY DEF TypeInv, Types, UserTypes, Events
  <1>1. \A e \in Events : Spend(e) => used'["crash"] >= used["crash"]
    BY <1>0 DEF Spend
  <1>2. ASSUME NEW c \in Conns, Gate(c)
        PROVE  ((\E e \in Events : Spend(e)) \/ used' = used) /\ spoiled' = spoiled
    BY <1>2 DEF Gate, Connect, Disconnect, HangUp, Announced, Stop, WatchdogFires,
                LoopEnds, SendUser, TurnStarts, Events
  <1>3. ASSUME NEW t \in Turns, Works(t) \/ TurnOver(t)
        PROVE  /\ (\E e \in Events : Spend(e)) \/ used' = used
               /\ spoiled' \subseteq spoiled \cup {"blind", "cut"}
    <2>1. CASE TurnStep(t)
      BY <2>1 DEF TurnStep, Begin, Load, Prepare, HopStarts, SpliceNext, SpliceEnds, HopRefused,
                  ToolCancelled, Saved, Returns, RecoverySaved, Ends
    <2>2. CASE Outcome(t) \/ Killed(t) \/ TurnOver(t)
      BY <2>2 DEF Outcome, LlmCalls, ToolReturns, LlmAnswers, LlmDrafts, Fails, Killed,
                  TurnOver, Events
    <2> QED BY <1>3, <2>1, <2>2 DEF Works
  <1>4. CASE Else
    <2>1. (\E e \in Events : Spend(e)) \/ used' = used
      BY <1>4 DEF Else, WriteLands, Rewind, ClearSession, Crash, StoreFails, StoreServes, vars,
                  Events
    <2>2. Crash \/ spoiled' \subseteq spoiled \cup {"meddled", "blind"}
      BY <1>4 DEF Else, WriteLands, Rewind, ClearSession, StoreFails, StoreServes, vars, Meddled
    <2>3. Crash => used'["crash"] # 0
      BY <1>0 DEF Crash, Spend
    <2> QED BY <1>0, <1>1, <2>1, <2>2, <2>3
  <1>5. Crash => used'["crash"] # 0
    BY <1>0 DEF Crash, Spend
  <1>6. /\ (\E e \in Events : Spend(e)) \/ used' = used
        /\ Crash \/ spoiled' \subseteq spoiled \cup {"meddled", "blind", "cut"}
    <2>1. CASE Else
      BY <2>1 DEF Else, WriteLands, Rewind, ClearSession, Crash, StoreFails, StoreServes, vars,
                  Events, Meddled
    <2> QED BY <1>2, <1>3, <2>1, Actors
  <1> QED BY <1>0, <1>1, <1>5, <1>6

\* No save is lost while the daemon lives.
LostByCrash == "lost" \in spoiled => used["crash"] # 0

\* Saves are always lost as LostByCrash says.
LEMMA LostCorrect == Spec => []LostByCrash
  <1>1. Init => LostByCrash
    BY DEF Init, LostByCrash
  <1>2. TypeInv /\ LostByCrash /\ [Next]_vars => LostByCrash'
    BY CrashRemembered DEF LostByCrash
  <1>3. Spec => []TypeInv
    BY TypeInit, TypeStep, PTL DEF Spec
  <1> QED BY <1>1, <1>2, <1>3, PTL DEF Spec

\* A turn takes nothing from the log and unloads no history.
LEMMA LogGrows ==
    ASSUME TypeInv, NEW t \in Turns, Works(t)
    PROVE  /\ ToSet(log) \subseteq ToSet(log')
           /\ hist' = None => hist = None
  <1>0. log \in Seq(Entries) /\ hops \in [Turns -> 0 .. MaxHops] /\ msgs \in [Turns -> Seq(Entries)]
    BY ListTypes
  <1>1. log' = log \/ \E e \in Entries : log' = Append(log, e)
    <2>1. CASE Load(t)
      <3>1. User(user[t]) \in Entries
        BY <2>1, MakeEntries DEF Load, TypeInv, TurnData
      <3> QED BY <2>1, <3>1 DEF Load
    <2>2. CASE Outcome(t) /\ ~Fails(t)
      <3>1. /\ Call(t, hops[t]) \in Entries /\ Result(t, hops[t]) \in Entries
            /\ Draft(t, hops[t]) \in Entries /\ Reply(t) \in Entries
        BY <1>0, MakeEntries
      <3> QED BY <2>2, <3>1 DEF Outcome, LlmCalls, ToolReturns, LlmAnswers, LlmDrafts
    <2>3. CASE ~Load(t) /\ ~(Outcome(t) /\ ~Fails(t))
      BY <2>3 DEF Works, TurnStep, Outcome, Begin, Prepare, HopStarts, SpliceNext, SpliceEnds,
              HopRefused, ToolCancelled, Saved, Returns, RecoverySaved, Ends, Fails, Killed,
              storeVars
    <2> QED BY <2>1, <2>2, <2>3
  <1>2. ToSet(log) \subseteq ToSet(log')
    <2>1. ASSUME NEW e \in Entries, log' = Append(log, e)
          PROVE  ToSet(log) \subseteq ToSet(log')
      BY <1>0, <2>1, ToSetAppend
    <2> QED BY <1>1, <2>1
  <1>3. hist' = None => hist = None
    <2>1. CASE \E ok \in BOOLEAN : Leave(t, ok) /\ pc[t] \in Early \cup Working
      <3>1. PICK ok \in BOOLEAN : Leave(t, ok) /\ pc[t] \in Early \cup Working
        BY <2>1
      <3>2. ok /\ hist = None => hist = None
        OBVIOUS
      <3> QED BY <3>1, <3>2, LeaveSaves, ListsLoaded
    <2>2. CASE Outcome(t) /\ ~Fails(t)
      <3>1. \A e \in Entries : Append(msgs[t], e) \in Seq(Entries)
        BY <1>0
      <3>2. /\ Result(t, hops[t]) \in Entries /\ Reply(t) \in Entries
        BY <1>0, MakeEntries
      <3>3. ToolReturns(t) => hist' = Append(msgs[t], Result(t, hops[t]))
        BY <1>0 DEF ToolReturns
      <3>4. LlmAnswers(t) => hist' = Append(msgs[t], Reply(t))
        BY <1>0 DEF LlmAnswers
      <3>5. ~ToolReturns(t) /\ ~LlmAnswers(t) => hist' = hist
        BY <2>2 DEF Outcome, LlmCalls, LlmDrafts, agentVars
      <3> QED BY <3>1, <3>2, <3>3, <3>4, <3>5, ListsLoaded
    <2>3. CASE Saved(t)
      BY <1>0, <2>3, ListsLoaded DEF Saved
    <2>4. CASE \/ Begin(t) \/ Load(t) \/ Prepare(t) \/ Splicing(t) \/ RecoverySaved(t) \/ Ends(t)
               \/ (Killed(t) /\ pc[t] \notin Early \cup Working)
      BY <2>4 DEF Begin, Load, Prepare, Splicing, HopStarts, SpliceNext, SpliceEnds,
              RecoverySaved, Ends, Killed, agentVars
    <2>5. HopRefused(t) \/ ToolCancelled(t) \/ Returns(t) \/ Fails(t)
          \/ (Killed(t) /\ pc[t] \in Early \cup Working)
          => \E ok \in BOOLEAN : Leave(t, ok) /\ pc[t] \in Early \cup Working
      BY DEF HopRefused, ToolCancelled, Returns, Fails, Killed, Early, Working, Ending
    <2> QED BY <2>1, <2>2, <2>3, <2>4, <2>5 DEF Works, TurnStep, Outcome, Splicing
  <1> QED BY <1>2, <1>3

\* What a step that takes nothing back does to what is owed.
Keeps == \A u \in Turns, e \in Entries : KeptOne(u, e) => KeptOne(u, e)'

\* What a turn saves is the history.
Loaded ==
    \A t \in Turns : /\ pc[t] \in Ending => save[t] = hist /\ hist # None
                     /\ pc[t] \in Saving => hist = msgs[t]

\* A turn at work knows what is kept.
LEMMA KnownAtWork ==
    ASSUME Mine, NEW t \in Turns, pc[t] \in {"prep"} \cup Working,
           NEW u \in Turns, NEW e \in Entries, KeptOne(u, e)
    PROVE  hist # None /\ e \in ToSet(Hist) /\ (pc[t] \in Working => e \in ToSet(Stashed))
  <1>1. hist # None
    <2>1. e \notin ToSet(<<>>)
      BY DEF ToSet
    <2> QED BY <2>1 DEF Mine, KeptOne, Recalled
  <1> QED BY <1>1 DEF KeptOne, Recalled

\* A longer list has the members of its beginning.
LEMMA InLonger ==
    ASSUME NEW X, NEW q \in Seq(X), NEW r \in Seq(X), Len(r) >= Len(q),
           \A i \in 1 .. Len(q) : r[i] = q[i]
    PROVE  ToSet(q) \subseteq ToSet(r)
  <1>1. /\ DOMAIN q = 1 .. Len(q) /\ DOMAIN r = 1 .. Len(r) /\ Len(q) \in Nat /\ Len(r) \in Nat
    OBVIOUS
  <1>2. \A i \in 1 .. Len(q) : i \in 1 .. Len(r)
    BY <1>1
  <1> QED BY <1>1, <1>2 DEF ToSet

\* A message stays kept where the checkpoints stay and the lists hold it.
LEMMA KeptMoves ==
    ASSUME NEW u \in Turns, NEW e \in Entries, KeptOne(u, e), cps' = cps,
           \A i \in DOMAIN cps : \A k \in 1 .. cps[i].len : Hist'[k] = Hist[k],
           ~stale' => e \in ToSet(disk'), Recalled(e)',
           \A t \in Turns : pc'[t] \in Working => e \in ToSet(Stashed')
    PROVE  KeptOne(u, e)'
  <1>1. \A i \in DOMAIN cps : u < cps[i].turn => cps[i].blind \/ Has(Hist', cps[i].len, e)
    BY DEF KeptOne, Has
  <1> QED BY <1>1 DEF KeptOne, Has

\* Steps that touch no list.
LEMMA KeptFrame ==
    ASSUME TypeInv, Mine, UNCHANGED <<msgs, stash, hist, cps, disk, stale, log>>,
           \A t \in Turns : pc[t] \in Working \cup Ending => user'[t] = user[t],
           \A t \in Turns : \/ pc'[t] = pc[t]
                            \/ pc[t] = "ask" /\ pc'[t] = "tool"
                            \/ /\ pc[t] \notin {"prep"} \cup Working \cup Ending
                               /\ pc'[t] \notin {"prep"} \cup Working \cup Ending
    PROVE  Mine' /\ Keeps
  <1>1. Hist' = Hist /\ Stashed' = Stashed
    BY DEF Hist, Stashed
  <1>2. \A t \in Turns : /\ pc'[t] \in Ending => pc[t] \in Ending
                         /\ pc'[t] \in Working => pc[t] \in Working
                         /\ pc'[t] \in {"prep"} \cup Working => pc[t] \in {"prep"} \cup Working
                         /\ pc'[t] \in {"answer", "post"} => pc[t] = pc'[t]
    BY DEF Working, Ending
  <1>3. Mine'
    BY <1>1, <1>2 DEF Mine
  <1>4. ASSUME NEW u \in Turns, NEW e \in Entries, KeptOne(u, e)
        PROVE  KeptOne(u, e)'
    BY <1>1, <1>2, <1>4 DEF KeptOne, Recalled
  <1> QED BY <1>3, <1>4 DEF Keeps

\* What is owed to the turns, action by action: a turn begins.
LEMMA KeptBegin ==
    ASSUME TypeInv, PairsNow, Mine, NEW t \in Turns, Solo(t), Begin(t)
    PROVE  Mine' /\ Keeps
  <1>0. /\ pc[t] = "created" /\ pc'[t] = "early"
        /\ UNCHANGED <<msgs, stash, hist, disk, stale, log, user>>
        /\ Hist' = Hist /\ Stashed' = Stashed
    BY ListTypes DEF Begin, taskVars, storeVars, Hist, Stashed
  <1>1. \A v \in Turns : pc'[v] \notin {"prep"} \cup Working \cup Ending
    BY <1>0 DEF Solo, Working, Ending
  <1>2. /\ DOMAIN cps' = 1 .. Len(cps) + 1 /\ Len(cps) \in Nat
        /\ \A i \in 1 .. Len(cps) : cps'[i] = cps[i] /\ i \in DOMAIN cps
        /\ cps'[Len(cps) + 1].turn = t /\ cps'[Len(cps) + 1].len = Len(Hist)
        /\ cps'[Len(cps) + 1].blind = (hist = None /\ disk # <<>>)
    BY CheckpointTaken
  <1>3. Mine'
    BY <1>1 DEF Mine, Working
  <1>4. ASSUME NEW u \in Turns, NEW e \in Entries, KeptOne(u, e)
        PROVE  KeptOne(u, e)'
    <2>1. cps'[Len(cps) + 1].blind \/ Has(Hist, Len(Hist), e)
      <3>1. hist = None => disk # <<>>
        BY <1>4 DEF KeptOne, Recalled, ToSet
      <3>2. e \in ToSet(Hist) => Has(Hist, Len(Hist), e)
        BY ListTypes DEF ToSet, Has
      <3> QED BY <1>2, <1>4, <3>1, <3>2 DEF KeptOne, Recalled
    <2>2. \A i \in DOMAIN cps' : i \in 1 .. Len(cps) \/ i = Len(cps) + 1
      BY <1>2
    <2>3. \A i \in DOMAIN cps' :
              u < cps'[i].turn => cps'[i].blind \/ Has(Hist, cps'[i].len, e)
      BY <1>2, <1>4, <2>1, <2>2 DEF KeptOne
    <2> QED BY <1>0, <1>1, <1>4, <2>3 DEF KeptOne, Recalled, Has
  <1> QED BY <1>3, <1>4 DEF Keeps

\* It loads the history.
LEMMA KeptLoad ==
    ASSUME TypeInv, PairsNow, Mine, NEW t \in Turns, Solo(t), Load(t), "blind" \notin spoiled'
    PROVE  Mine' /\ Keeps
  <1>0. /\ pc[t] = "early" /\ pc'[t] = "prep"
        /\ UNCHANGED <<msgs, stash, cps, disk, stale, user>>
        /\ hist # None => hist' = hist
        /\ hist = None => hist' \in {None, disk, Mended(log')}
        /\ hist' = None => disk = <<>>
        /\ hist = None /\ disk # <<>> => hist' # None
    BY ListTypes DEF Load, taskVars
  <1>1. \A v \in Turns : /\ pc'[v] \notin Working \cup Ending
                         /\ v # t => pc'[v] # "prep"
    BY <1>0 DEF Solo, Working, Ending
  <1>2. Mine'
    BY <1>0, <1>1 DEF Mine, Working
  <1>3. log' \in Seq(Entries) /\ ToSet(log) \subseteq ToSet(log')
    <2>1. User(user[t]) \in Entries /\ log \in Seq(Entries)
      BY <1>0, MakeEntries, ListTypes DEF TypeInv, TurnData
    <2>2. log' = Append(log, User(user[t]))
      BY DEF Load
    <2> HIDE DEF User
    <2>3. Append(log, User(user[t])) \in Seq(Entries)
      BY <2>1
    <2> QED BY <2>1, <2>2, <2>3, ToSetAppend
  <1>4. ASSUME NEW u \in Turns, NEW e \in Entries, KeptOne(u, e)
        PROVE  KeptOne(u, e)'
    <2>1. CASE hist # None
      <3>1. Hist' = Hist /\ hist' = hist
        BY <1>0, <2>1 DEF Hist
      <3> QED BY <1>0, <1>1, <1>4, <2>1, <3>1 DEF KeptOne, Recalled, Has
    <2>2. CASE hist = None
      <3>1. disk # <<>> /\ e \in ToSet(disk) /\ e \in ToSet(log)
        BY <1>4, <2>2 DEF KeptOne, Recalled, ToSet
      <3>2. hist' \in {disk, Mended(log')} /\ hist' # None
        BY <1>0, <2>2, <3>1
      <3>3. \A i \in DOMAIN cps : cps[i].len = 0
        <4>1. Hist = <<>>
          BY <2>2 DEF Hist
        <4> QED BY <4>1, ListTypes DEF PairsNow, Cuts, CutAt
      <3>4. \A i \in DOMAIN cps : \A k \in 1 .. cps[i].len : Hist'[k] = Hist[k]
        BY <3>3
      <3>5. e \in ToSet(hist')
        BY <1>3, <3>1, <3>2, MendedElems
      <3>6. e \in ToSet(disk') /\ Recalled(e)'
        BY <1>0, <3>1, <3>2, <3>5 DEF Recalled, Hist
      <3> QED BY <1>0, <1>1, <1>4, <3>4, <3>6, KeptMoves
    <2> QED BY <2>1, <2>2
  <1> QED BY <1>2, <1>4 DEF Keeps

\* It builds its messages.
LEMMA KeptPrepare ==
    ASSUME TypeInv, PairsNow, Mine, NEW t \in Turns, Solo(t), Prepare(t)
    PROVE  Mine' /\ Keeps
  <1> DEFINE m == User(user[t])
             x == Append(Hist, m)
  <1>0. /\ pc[t] = "prep" /\ pc'[t] = "hop" /\ msgs'[t] = x
        /\ stash'.turn = t /\ stash'.len = 0 /\ stash' # None
        /\ UNCHANGED <<hist, cps, disk, stale, log, user>>
        /\ Hist' = Hist /\ user[t] \in Msgs
    <2>1. stash' \in [turn : Turns, len : Nat]
      BY DEF Prepare, Live
    <2> QED BY <2>1, ListTypes, ConstantsAssumption
            DEF Prepare, storeVars, Hist, TypeInv, TurnData, Live
  <1>1. m \in Entries /\ Hist \in Seq(Entries)
    BY <1>0, MakeEntries, ListTypes
  <1>2. Stashed' = x
    BY <1>0 DEF Stashed, Live
  <1> HIDE DEF m
  <1>3. \A i \in 1 .. Len(Hist) : x[i] = Hist[i]
    BY <1>1
  <1>4. ToSet(x) = ToSet(Hist) \cup {m}
    BY <1>1, ToSetAppend
  <1> HIDE DEF x
  <1>5. \A v \in Turns : pc'[v] \in Working \cup Ending => v = t
    BY DEF Solo
  <1>6. \A i \in DOMAIN cps : \A k \in 1 .. cps[i].len : x[k] = Hist[k]
    <2>1. \A i \in DOMAIN cps : cps[i].len \in Nat /\ cps[i].len <= Len(Hist) /\ Len(Hist) \in Nat
      BY <1>1, ListTypes DEF PairsNow, Cuts, CutAt
    <2> QED BY <1>3, <2>1
  <1>7. Mine'
    <2>1. User(user'[t]) \in ToSet(Stashed') /\ pc'[t] \notin {"answer", "post"} \cup Ending
      BY <1>0, <1>2, <1>4 DEF Ending, m
    <2>2. \A i \in DOMAIN cps' : \A k \in 1 .. cps'[i].len : Stashed'[k] = Hist'[k]
      BY <1>0, <1>2, <1>6
    <2>3. \A v \in Turns : pc'[v] \in {"answer", "post"} => pc'[v] \in Working
      BY DEF Working
    <2>4. hist' = None => disk' = <<>>
      BY <1>0 DEF Mine
    <2>5. \A v \in Turns : pc'[v] = "prep" => v = t
      BY DEF Solo
    <2> QED BY <1>5, <2>1, <2>2, <2>3, <2>4, <2>5 DEF Mine
  <1>8. ASSUME NEW u \in Turns, NEW e \in Entries, KeptOne(u, e)
        PROVE  KeptOne(u, e)'
    <2>1. hist # None /\ e \in ToSet(Hist)
      BY <1>0, <1>8, KnownAtWork
    <2> QED BY <1>0, <1>2, <1>4, <1>8, <2>1 DEF KeptOne, Recalled, Has
  <1> QED BY <1>7, <1>8 DEF Keeps

\* It adds to its messages.
LEMMA KeptGrow ==
    ASSUME TypeInv, PairsNow, Mine, NEW t \in Turns, Solo(t), NEW x \in Seq(Entries),
           pc[t] \in Working, pc'[t] \in Working, pc'[t] # "post",
           stash' = stash, msgs' = [msgs EXCEPT ![t] = x],
           Len(x) >= Len(msgs[t]), \A i \in 1 .. Len(msgs[t]) : x[i] = msgs[t][i],
           UNCHANGED <<cps, disk, stale, user>>, Hist' = Hist \/ Hist' = x,
           hist' = None => hist = None, ToSet(log) \subseteq ToSet(log'),
           pc'[t] = "answer" => Reply(t) \in ToSet(x) /\ Reply(t) \in ToSet(log')
    PROVE  Mine' /\ Keeps
  <1>0. stash # None /\ stash.turn = t /\ \A i \in DOMAIN cps : CutAt(Stashed, cps[i].len)
    BY DEF PairsNow, AtWork
  <1>1. /\ Stashed' = x \/ Stashed' = Stashed
        /\ Len(Stashed) <= Len(msgs[t])
        /\ \A i \in 1 .. Len(Stashed) : Stashed[i] = msgs[t][i]
    BY <1>0, StashGrows
  <1>2. /\ Stashed \in Seq(Entries) /\ msgs[t] \in Seq(Entries) /\ msgs'[t] = x
        /\ Len(Stashed) \in Nat /\ Len(msgs[t]) \in Nat /\ Len(x) \in Nat
        /\ \A i \in DOMAIN cps : cps[i].len \in Nat
    BY <1>0, ListTypes
  <1>3. \A i \in 1 .. Len(Stashed) : x[i] = Stashed[i]
    <2>1. \A i \in 1 .. Len(Stashed) : i \in 1 .. Len(msgs[t])
      BY <1>1, <1>2
    <2> QED BY <1>1, <2>1
  <1>4. ToSet(Stashed) \subseteq ToSet(x) /\ ToSet(Stashed) \subseteq ToSet(Stashed')
    <2>1. Len(x) >= Len(Stashed)
      BY <1>1, <1>2
    <2> QED BY <1>1, <1>2, <1>3, <2>1, InLonger
  <1>5. \A i \in DOMAIN cps : \A k \in 1 .. cps[i].len :
            x[k] = Hist[k] /\ Stashed[k] = Hist[k]
    <2>1. \A i \in DOMAIN cps : \A k \in 1 .. cps[i].len : Stashed[k] = Hist[k]
      BY DEF Mine
    <2>2. \A i \in DOMAIN cps : \A k \in 1 .. cps[i].len : k \in 1 .. Len(Stashed)
      BY <1>0, <1>2 DEF CutAt
    <2> QED BY <1>3, <2>1, <2>2
  <1>6. \A i \in DOMAIN cps : \A k \in 1 .. cps[i].len :
            Hist'[k] = Hist[k] /\ Stashed'[k] = Hist'[k]
    BY <1>1, <1>5
  <1>7. \A v \in Turns : pc'[v] \in {"prep"} \cup Working \cup Ending => v = t
    BY DEF Solo
  <1>8. Mine'
    <2>1. pc'[t] \notin Ending
      BY DEF Working, Ending
    <2>2. User(user[t]) \in ToSet(Stashed')
      BY <1>4 DEF Mine
    <2>3. hist' = None => disk' = <<>>
      BY DEF Mine
    <2> QED BY <1>2, <1>6, <1>7, <2>1, <2>2, <2>3 DEF Mine, Working
  <1>9. ASSUME NEW u \in Turns, NEW e \in Entries, KeptOne(u, e)
        PROVE  KeptOne(u, e)'
    <2>1. /\ ~stale' => e \in ToSet(disk')
          /\ e \in ToSet(Stashed) /\ e \in ToSet(Hist) /\ hist # None
      BY <1>9, KnownAtWork DEF KeptOne
    <2>2. Recalled(e)'
      BY <1>4, <2>1 DEF Recalled
    <2>3. e \in ToSet(Stashed')
      BY <1>4, <2>1
    <2> QED BY <1>6, <1>9, <2>1, <2>2, <2>3, KeptMoves
  <1> QED BY <1>8, <1>9 DEF Keeps

\* A save in the middle of the turn is over.
LEMMA KeptSaved ==
    ASSUME TypeInv, PairsNow, Mine, Loaded, NEW t \in Turns, Solo(t), Saved(t)
    PROVE  Mine' /\ Keeps
  <1>0. /\ (pc[t] = "midsave" /\ pc'[t] = "hop") \/ (pc[t] = "answer" /\ pc'[t] = "post")
        /\ ~stale' => disk' = msgs[t]
        /\ Stashed' = msgs[t] /\ msgs' = msgs
        /\ UNCHANGED <<hist, cps, log, user>> /\ Hist' = Hist /\ hist # None
    <2>1. pc[t] \in {"midsave", "answer"} => hist = msgs[t] /\ msgs[t] # None
      BY ListTypes, ListsLoaded DEF Loaded, Saving
    <2> QED BY <2>1, ListTypes, SavedStash DEF Saved, Saves, taskVars, Hist
  <1>1. /\ msgs[t] \in Seq(Entries) /\ stash # None /\ stash.turn = t
        /\ \A i \in DOMAIN cps : CutAt(Stashed, cps[i].len)
    BY <1>0, ListTypes DEF PairsNow, AtWork, Working
  <1>2. /\ Len(Stashed) <= Len(msgs[t])
        /\ \A i \in 1 .. Len(Stashed) : Stashed[i] = msgs[t][i]
    BY <1>1, StashBegins
  <1>3. /\ Stashed \in Seq(Entries) /\ Len(Stashed) \in Nat /\ Len(msgs[t]) \in Nat
        /\ \A i \in DOMAIN cps : cps[i].len \in Nat
    BY <1>1, ListTypes
  <1>4. ToSet(Stashed) \subseteq ToSet(msgs[t])
    <2>1. Len(msgs[t]) >= Len(Stashed)
      BY <1>2, <1>3
    <2> QED BY <1>1, <1>2, <1>3, <2>1, InLonger
  <1>5. \A i \in DOMAIN cps : \A k \in 1 .. cps[i].len : msgs[t][k] = Hist[k]
    <2>1. \A i \in DOMAIN cps : \A k \in 1 .. cps[i].len : Stashed[k] = Hist[k]
      BY <1>0 DEF Mine, Working
    <2>2. \A i \in DOMAIN cps : \A k \in 1 .. cps[i].len : k \in 1 .. Len(Stashed)
      BY <1>1, <1>3 DEF CutAt
    <2> QED BY <1>2, <2>1, <2>2
  <1>6. \A v \in Turns : pc'[v] \in {"prep"} \cup Working \cup Ending => v = t
    BY DEF Solo
  <1>7. Mine'
    BY <1>0, <1>4, <1>5, <1>6 DEF Mine, Working, Ending
  <1>8. ASSUME NEW u \in Turns, NEW e \in Entries, KeptOne(u, e)
        PROVE  KeptOne(u, e)'
    <2>1. e \in ToSet(Stashed)
      BY <1>0, <1>8 DEF KeptOne, Working
    <2> QED BY <1>0, <1>4, <1>8, <2>1 DEF KeptOne, Recalled, Has
  <1> QED BY <1>7, <1>8 DEF Keeps

\* A turn leaves.
LEMMA KeptLeave ==
    ASSUME TypeInv, PairsNow, Mine, Loaded, NEW t \in Turns, Solo(t), NEW ok \in BOOLEAN,
           pc[t] \in Early \cup Working, Leave(t, ok), ok => pc[t] = "post",
           UNCHANGED <<msgs, stash, cps, log, user>>,
           \/ UNCHANGED <<disk, stale>>
           \/ pc[t] = "post" /\ (~stale' => disk' = msgs[t]),
           pc[t] \in Early => stash = None /\ ~Blind
    PROVE  Mine' /\ Keeps
  <1>0. /\ Hist' \in Seq(Entries) /\ hist \in Seq(Entries) \cup {None} /\ Hist \in Seq(Entries)
        /\ user[t] \in Msgs /\ pc'[t] \in Ending
        /\ \A i \in DOMAIN cps : cps[i].len \in Nat
        /\ hist' # None
    <2>1. pc[t] = "post" => hist # None
      BY ListTypes, ListsLoaded DEF Loaded, Saving
    <2>2. hist' # None
      BY <2>1, LeaveSaves, ListsLoaded
    <2> QED BY <2>2, ListTypes, LeftHist DEF TypeInv, TurnData, Early, Working, Leave, Ending
  <1>1. \A v \in Turns : pc'[v] \in {"prep"} \cup Working \cup Ending => v = t
    BY DEF Solo
  <1>2. pc'[t] \notin Working
    BY <1>0 DEF Working, Ending
  <1>3. SUFFICES /\ User(user[t]) \in ToSet(Hist')
                 /\ \A i \in DOMAIN cps : \A k \in 1 .. cps[i].len : Hist'[k] = Hist[k]
                 /\ \A u \in Turns, e \in Entries : KeptOne(u, e) => e \in ToSet(Hist')
    <2>1. Mine'
      <3>1. pc'[t] \notin {"prep"}
        BY <1>0 DEF Ending
      <3> QED BY <1>1, <1>2, <1>3, <3>1 DEF Mine, Working
    <2>2. ASSUME NEW u \in Turns, NEW e \in Entries, KeptOne(u, e)
          PROVE  KeptOne(u, e)'
      <3>1. (~stale' => e \in ToSet(disk')) /\ Recalled(e)'
        <4>1. pc[t] = "post" => e \in ToSet(msgs[t])
          BY <2>2, KnownAtWork DEF PairsNow, AtWork, Working
        <4> QED BY <1>0, <1>3, <2>2, <4>1 DEF KeptOne, Recalled
      <3> QED BY <1>1, <1>2, <1>3, <2>2, <3>1, KeptMoves
    <2> QED BY <2>1, <2>2 DEF Keeps
  <1>4. CASE ok
    <2>1. Hist' = Hist /\ Hist = msgs[t] /\ Stashed = msgs[t] /\ hist # None
      BY <1>4, LeftHist, ListTypes, ListsLoaded DEF PairsNow, AtWork, Working, Loaded, Saving
    <2>2. User(user[t]) \in ToSet(Stashed) /\ pc[t] \in Working
      BY <1>4 DEF Mine, Working
    <2> QED BY <2>1, <2>2 DEF KeptOne
  <1>5. CASE ~ok /\ stash # None
    <2>1. pc[t] \in Working /\ stash.turn = t /\ WellMade(Stashed) /\ Stashed \in Seq(Entries)
          /\ \A i \in DOMAIN cps : CutAt(Stashed, cps[i].len)
      BY <1>5, ListTypes DEF PairsNow, AtWork, Recoverable
    <2>2. Hist' = Recovered(Stashed, t)
      BY <1>5, LeftHist
    <2>3. ToSet(Stashed) \subseteq ToSet(Hist')
      <3>1. Mended(Stashed) \in Seq(Entries) /\ ToSet(Stashed) \subseteq ToSet(Mended(Stashed))
            /\ Sorry(t) \in Entries
        BY <2>1, MendedElems, MakeEntries
      <3> QED BY <2>2, <3>1, ToSetAppend DEF Recovered
    <2>4. \A i \in DOMAIN cps : \A k \in 1 .. cps[i].len : Hist'[k] = Hist[k]
      <3>1. \A i \in DOMAIN cps : \A k \in 1 .. cps[i].len : Hist'[k] = Stashed[k]
        BY <1>0, <2>1, <2>2, CutRecovered
      <3> QED BY <2>1, <3>1 DEF Mine
    <2>5. User(user[t]) \in ToSet(Stashed)
          /\ \A u \in Turns, e \in Entries : KeptOne(u, e) => e \in ToSet(Stashed)
      BY <2>1 DEF Mine, KeptOne
    <2> QED BY <2>3, <2>4, <2>5
  <1>6. CASE ~ok /\ stash = None
    <2>1. pc[t] \in Early
      BY <1>6 DEF PairsNow, AtWork
    <2>2. Hist' = Apology(Hist, user[t], t)
      BY <1>6, LeftHist
    <2>3. /\ Len(Hist') > Len(Hist) /\ \A k \in 1 .. Len(Hist) : Hist'[k] = Hist[k]
          /\ User(user[t]) \in ToSet(Hist')
      BY <1>0, <2>2, ApologyExtends
    <2>4. ToSet(Hist) \subseteq ToSet(Hist')
      <3>1. Len(Hist') >= Len(Hist)
        BY <1>0, <2>3
      <3> QED BY <1>0, <2>3, <3>1, InLonger
    <2>5. \A i \in DOMAIN cps : \A k \in 1 .. cps[i].len : Hist'[k] = Hist[k]
      <3>1. \A i \in DOMAIN cps : cps[i].len <= Len(Hist) /\ Len(Hist) \in Nat
        BY <1>0 DEF PairsNow, Cuts, CutAt
      <3> QED BY <1>0, <2>3, <3>1
    <2>6. ASSUME NEW u \in Turns, NEW e \in Entries, KeptOne(u, e)
          PROVE  e \in ToSet(Hist')
      <3>1. hist = None => disk # <<>>
        BY <2>6 DEF KeptOne, Recalled, ToSet
      <3>2. hist # None
        BY <1>6, <2>1, <3>1 DEF Blind
      <3> QED BY <2>4, <2>6, <3>2 DEF KeptOne, Recalled
    <2> QED BY <2>3, <2>5, <2>6
  <1> QED BY <1>4, <1>5, <1>6

\* Its finally block ends.
LEMMA KeptEnd ==
    ASSUME TypeInv, Mine, Loaded, NEW t \in Turns, Solo(t), RecoverySaved(t) \/ Ends(t)
    PROVE  Mine' /\ Keeps
  <1>0. /\ pc[t] \in Ending /\ pc'[t] \in {"save", "done"} 
        /\ ~stale' => disk' = save[t]
        /\ UNCHANGED <<hist, cps, log, user>> /\ Hist' = Hist
    BY ListTypes DEF RecoverySaved, Ends, Saves, Done, Ending, taskVars, agentVars, Hist
  <1>1. \A v \in Turns : pc'[v] \notin {"prep"} \cup Working /\ (pc'[v] \in Ending => v = t)
    BY <1>0 DEF Solo, Working, Ending
  <1>2. (~stale' => disk' = Hist) /\ hist # None
    BY <1>0 DEF Loaded, Hist
  <1>3. Mine'
    BY <1>0, <1>1 DEF Mine, Working
  <1>4. ASSUME NEW u \in Turns, NEW e \in Entries, KeptOne(u, e)
        PROVE  KeptOne(u, e)'
    BY <1>0, <1>1, <1>2, <1>4 DEF KeptOne, Recalled, Has
  <1> QED BY <1>3, <1>4 DEF Keeps

\* A rewind keeps what is owed to the turns before the one it goes back to.
LEMMA KeptRewind ==
    ASSUME TypeInv, PairsNow, NEW i \in DOMAIN cps, Rewind(i), Running = {}, ~cps[i].blind
    PROVE  /\ Mine'
           /\ \A u \in Turns, e \in Entries : u < cps[i].turn /\ KeptOne(u, e) => KeptOne(u, e)'
  <1>0. \A v \in Turns : pc'[v] \notin {"prep"} \cup Working \cup Ending
    BY DEF Rewind, runVars, Running, Alive, Early
  <1>1. Mine'
    BY <1>0 DEF Mine, Working
  <1>2. /\ Hist' \in Seq(Entries) /\ Len(Hist') = cps[i].len /\ cps[i].len \in Nat
        /\ \A k \in 1 .. cps[i].len : Hist'[k] = Hist[k]
        /\ hist' # None /\ (~stale' => disk' = Hist')
    BY RewoundHist
  <1>3. \A j \in DOMAIN cps' : /\ j \in DOMAIN cps /\ cps'[j] = cps[j]
                               /\ cps[j].len \in Nat /\ cps[j].len <= cps[i].len
    BY CheckpointsDropped, ListTypes DEF PairsNow, Cuts
  <1>4. ASSUME NEW u \in Turns, NEW e \in Entries, u < cps[i].turn, KeptOne(u, e)
        PROVE  KeptOne(u, e)'
    <2>1. Has(Hist, cps[i].len, e)
      BY <1>4 DEF KeptOne
    <2>2. e \in ToSet(Hist')
      <3>1. DOMAIN Hist' = 1 .. cps[i].len
        BY <1>2, LenProperties
      <3> QED BY <1>2, <2>1, <3>1 DEF Has, ToSet
    <2>3. \A j \in DOMAIN cps' :
              u < cps'[j].turn => cps'[j].blind \/ Has(Hist', cps'[j].len, e)
      <3> SUFFICES ASSUME NEW j \in DOMAIN cps', u < cps'[j].turn, ~cps'[j].blind
                   PROVE  Has(Hist', cps'[j].len, e)
        OBVIOUS
      <3>1. Has(Hist, cps[j].len, e)
        BY <1>3, <1>4 DEF KeptOne
      <3>2. \A k \in 1 .. cps[j].len : Hist'[k] = Hist[k]
        BY <1>2, <1>3
      <3> QED BY <1>3, <3>1, <3>2 DEF Has
    <2> QED BY <1>0, <1>2, <2>2, <2>3 DEF KeptOne, Recalled, Has
  <1> QED BY <1>1, <1>4

\* Every step of a turn keeps the invariant.
LEMMA KeptTurn ==
    ASSUME TypeInv, PairsNow, Mine, Loaded, NEW t \in Turns, Solo(t), Works(t),
           pc[t] \in Early => stash = None, {"cut", "blind"} \cap spoiled' = {}
    PROVE  Mine' /\ Keeps
  <1>0. /\ msgs[t] \in Seq(Entries) /\ Len(msgs[t]) \in Nat
        /\ pc \in [Turns -> Alive \cup {"unused", "done", "over", "lost"}]
    BY ListTypes
  <1>a. ToSet(log) \subseteq ToSet(log') /\ (hist' = None => hist = None)
    BY LogGrows
  <1>1. CASE Splicing(t)
    <2>1. /\ pc[t] \in {"hop", "splice"} /\ pc'[t] \in {"splice", "llm"}
          /\ UNCHANGED <<stash, cps, disk, stale, user>> /\ Hist' = Hist
      BY <1>0, <1>1 DEF Splicing, HopStarts, SpliceNext, SpliceEnds, storeVars, runVars,
                        taskVars, Hist
    <2>2. PICK x : /\ msgs' = [msgs EXCEPT ![t] = x] /\ x \in Seq(Entries)
                   /\ Len(x) >= Len(msgs[t]) /\ \A i \in 1 .. Len(msgs[t]) : x[i] = msgs[t][i]
      <3>1. CASE msgs' = msgs
        <4>1. msgs' = [msgs EXCEPT ![t] = msgs[t]]
          BY <3>1, ListTypes
        <4>2. Len(msgs[t]) >= Len(msgs[t]) /\ \A i \in 1 .. Len(msgs[t]) : msgs[t][i] = msgs[t][i]
          BY <1>0
        <4> QED BY <1>0, <4>1, <4>2, Zenon
      <3>2. CASE \E m \in Msgs : Splices(t, m)
        <4>1. PICK m \in Msgs : Splices(t, m)
          BY <3>2
        <4>2. msgs' = [msgs EXCEPT ![t] = Append(msgs[t], Steer(m))]
          BY <4>1 DEF Splices, Splice
        <4>3. Steer(m) \in Entries
          BY MakeEntries
        <4> HIDE DEF Steer
        <4>4. /\ Append(msgs[t], Steer(m)) \in Seq(Entries)
              /\ Len(Append(msgs[t], Steer(m))) >= Len(msgs[t])
              /\ \A i \in 1 .. Len(msgs[t]) : Append(msgs[t], Steer(m))[i] = msgs[t][i]
          BY <1>0, <4>3
        <4> QED BY <4>2, <4>4
      <3> QED BY <1>1, <3>1, <3>2, SpliceMessage DEF Splicing, Splices
    <2>3. pc[t] \in Working /\ pc'[t] \in Working /\ pc'[t] \notin {"answer", "post"}
      BY <2>1 DEF Working
    <2> QED BY <1>a, <2>1, <2>2, <2>3, KeptGrow
  <1>2. CASE Outcome(t) /\ ~Fails(t)
    <2>1. PICK e \in Entries :
            /\ msgs' = [msgs EXCEPT ![t] = Append(msgs[t], e)]
            /\ pc'[t] = "answer" => e = Reply(t) /\ log' = Append(log, e)
      <3>1. \A tool \in {"tool", "ask"} : LlmCalls(t, tool) =>
                /\ msgs' = [msgs EXCEPT ![t] = Append(msgs[t], Call(t, hops[t]))]
                /\ pc'[t] # "answer"
        BY <1>0 DEF LlmCalls
      <3>2. ToolReturns(t) =>
                /\ msgs' = [msgs EXCEPT ![t] = Append(msgs[t], Result(t, hops[t]))]
                /\ pc'[t] # "answer"
        BY <1>0 DEF ToolReturns
      <3>3. LlmDrafts(t) =>
                /\ msgs' = [msgs EXCEPT ![t] = Append(msgs[t], Draft(t, hops[t]))]
                /\ pc'[t] # "answer"
        BY <1>0 DEF LlmDrafts
      <3>4. LlmAnswers(t) => /\ msgs' = [msgs EXCEPT ![t] = Append(msgs[t], Reply(t))]
                             /\ log' = Append(log, Reply(t))
        BY DEF LlmAnswers
      <3>5. /\ Call(t, hops[t]) \in Entries /\ Result(t, hops[t]) \in Entries
            /\ Draft(t, hops[t]) \in Entries /\ Reply(t) \in Entries
        BY ListTypes, MakeEntries
      <3> QED BY <1>2, <3>1, <3>2, <3>3, <3>4, <3>5 DEF Outcome
    <2> DEFINE x == Append(msgs[t], e)
    <2>2. /\ x \in Seq(Entries) /\ Len(x) >= Len(msgs[t])
          /\ \A i \in 1 .. Len(msgs[t]) : x[i] = msgs[t][i]
      BY <1>0
    <2>3. pc'[t] = "answer" => Reply(t) \in ToSet(x) /\ Reply(t) \in ToSet(log')
      <3>1. e \in ToSet(Append(log, e))
        <4>1. log \in Seq(Entries)
          BY ListTypes
        <4> QED BY <4>1, ToSetAppend
      <3>2. e \in ToSet(x)
        BY <1>0, ToSetAppend
      <3> HIDE DEF x
      <3> QED BY <2>1, <3>1, <3>2
    <2>4. msgs' = [msgs EXCEPT ![t] = x] /\ msgs'[t] = x
      BY <2>1, ListTypes
    <2> HIDE DEF x
    <2>5. /\ pc[t] \in Working /\ pc'[t] \in Working /\ pc'[t] # "post"
          /\ UNCHANGED <<stash, cps, disk, stale, user>>
          /\ hist' = hist \/ hist' = msgs'[t]
      BY <1>0, <1>2 DEF Outcome, LlmCalls, ToolReturns, LlmAnswers, LlmDrafts, Working, agentVars
    <2>6. Hist' = Hist \/ Hist' = x
      BY <2>2, <2>4, <2>5, ListsLoaded DEF Hist
    <2> QED BY <1>a, <2>2, <2>3, <2>4, <2>5, <2>6, KeptGrow
  <1>3. CASE HopRefused(t) \/ ToolCancelled(t) \/ Returns(t) \/ Fails(t)
             \/ (Killed(t) /\ pc[t] \in Early \cup Working)
    <2>1. /\ pc[t] \in Early \cup Working /\ UNCHANGED <<msgs, stash, cps, log, user>>
          /\ \E ok \in BOOLEAN : Leave(t, ok) /\ (ok => pc[t] = "post")
      BY <1>3 DEF HopRefused, ToolCancelled, Returns, Fails, Killed, Early, Working, Ending,
                  taskVars, storeVars
    <2>2. pc[t] \in Early => ~Blind
      BY <1>3 DEF HopRefused, ToolCancelled, Returns, Fails, Killed, Early, Ending
    <2>3. \/ UNCHANGED <<disk, stale>>
          \/ pc[t] = "post" /\ (~stale' => disk' = msgs[t])
      <3>1. CASE Returns(t)
        BY <3>1 DEF Returns, Saves
      <3>2. CASE HopRefused(t) \/ ToolCancelled(t) \/ Fails(t)
        BY <3>2 DEF HopRefused, ToolCancelled, Fails, storeVars
      <3>3. CASE Killed(t)
        BY <3>3 DEF Killed
      <3> QED BY <1>3, <3>1, <3>2, <3>3
    <2> QED BY <2>1, <2>2, <2>3, KeptLeave
  <1>4. CASE Killed(t) /\ pc[t] \notin Early \cup Working
    BY <1>4 DEF Killed
  <1> QED BY <1>1, <1>2, <1>3, <1>4, KeptBegin, KeptLoad, KeptPrepare, KeptSaved, KeptEnd
          DEF Works, TurnStep, Outcome, Splicing

\* Which answers and messages a turn comes to owe.
LEMMA OwedNext ==
    ASSUME TypeInv, NEW t \in Turns, Works(t), "cut" \notin spoiled'
    PROVE  /\ UNCHANGED <<user, removed>>
           /\ \A u \in Turns : u # t => pc'[u] = pc[u]
           /\ pc'[t] # "over" /\ pc[t] \notin {"done", "over"}
           /\ OverTurns' \subseteq OverTurns \cup {t} /\ answered' \subseteq answered \cup {t}
           /\ t \in OverTurns' => Ends(t)
           /\ t \in answered' \ answered => Returns(t)
  <1>0. /\ pc \in [Turns -> Alive \cup {"unused", "done", "over", "lost"}]
        /\ pc[t] \in Alive /\ pc'[t] \in Alive \cup {"done"} /\ UNCHANGED <<user, removed>>
        /\ \A u \in Turns : u # t => pc'[u] = pc[u]
        /\ pc'[t] # "over" /\ pc[t] \notin {"done", "over"}
    <2>1. pc' = [pc EXCEPT ![t] = pc'[t]]
      BY TurnMoves
    <2> QED BY <2>1, ListTypes, TurnMoves DEF Alive, Early, Working, Ending
  <1>1. used'["crash"] = 0 => used["crash"] = 0
    <2>1. [Next]_vars
      BY DEF Works, Next
    <2> QED BY <2>1, CrashRemembered
  <1>2. OverTurns' \subseteq OverTurns \cup {t}
    BY <1>0, <1>1 DEF OverTurns
  <1>3. pc'[t] = "done" => Ends(t)
    <2>1. CASE TurnStep(t) /\ ~Ends(t)
      BY <1>0, <2>1 DEF TurnStep, Begin, Load, Prepare, HopStarts, SpliceNext, SpliceEnds,
              HopRefused, ToolCancelled, Saved, Returns, RecoverySaved, Leave, runVars
    <2>2. CASE Outcome(t)
      BY <1>0, <2>2 DEF Outcome, LlmCalls, ToolReturns, LlmAnswers, LlmDrafts, Fails, Leave
    <2>3. CASE Killed(t)
      BY <1>0, <2>3 DEF Killed, Leave
    <2> QED BY <2>1, <2>2, <2>3 DEF Works
  <1>4. answered' = answered \/ (answered' \subseteq answered \cup {t} /\ Returns(t))
    <2>1. CASE TurnStep(t)
      BY <2>1 DEF TurnStep, Begin, Load, Prepare, HopStarts, SpliceNext, SpliceEnds,
              HopRefused, ToolCancelled, Saved, Returns, RecoverySaved, Ends, Leave, userVars
    <2>2. CASE Outcome(t)
      BY <2>2 DEF Outcome, LlmCalls, ToolReturns, LlmAnswers, LlmDrafts, Fails, Leave, userVars
    <2>3. CASE Killed(t)
      BY <2>3 DEF Killed, Leave
    <2> QED BY <2>1, <2>2, <2>3 DEF Works
  <1>5. t \in OverTurns' => Ends(t)
    BY <1>0, <1>3 DEF OverTurns
  <1> QED BY <1>0, <1>2, <1>4, <1>5

\* What a turn at work comes to owe is in the lists by then.
LEMMA OwedTurn ==
    ASSUME TypeInv, PairsNow, Mine, Loaded, Order, used["overlap"] = 0,
           NEW t \in Turns, Works(t), "cut" \notin spoiled', Keeps, Solo(t),
           \A p \in Owed : KeptOne(p[1], p[2])
    PROVE  \A p \in Owed' : KeptOne(p[1], p[2])'
  <1>0. /\ pc \in [Turns -> Alive \cup {"unused", "done", "over", "lost"}]
        /\ pc[t] \in Alive /\ pc'[t] \in Alive \cup {"done"}
        /\ \A u \in Turns : u # t => pc'[u] = pc[u]
        /\ UNCHANGED <<user, removed>> /\ answered \subseteq Turns /\ answered' \subseteq Turns
    <2>1. answered' \subseteq Turns
      <3>1. [Next]_vars
        BY DEF Works, Next
      <3> QED BY <3>1, TypeStep DEF TypeInv, Types, UserTypes
    <2>2. answered \subseteq Turns
      BY DEF TypeInv, Types, UserTypes
    <2> QED BY <2>1, <2>2, ListTypes, TurnMoves DEF Solo
  <1>1. \A i \in DOMAIN cps : ~(t < cps[i].turn)
    <2>1. \A i \in DOMAIN cps : cps[i] \in [turn : Turns, len : Nat, blind : BOOLEAN]
      BY Beginning DEF TypeInv, Types, AgentTypes
    <2> QED BY <1>0, <2>1 DEF Order
  <1>2. \A u \in Turns : pc'[u] \in Working => u = t
    BY <1>0 DEF Solo
  <1> SUFFICES ASSUME NEW p \in Owed' PROVE KeptOne(p[1], p[2])'
    OBVIOUS
  <1>3. CASE p \in Owed
    <2>1. p[1] \in Turns /\ p[2] \in Entries
      <3>1. \A u \in Turns : pc[u] \in {"done", "over"} => user[u] \in Msgs
        BY DEF TypeInv, TurnData
      <3> QED BY <1>0, <1>3, <3>1, MakeEntries DEF Owed, OverTurns
    <2> QED BY <1>3, <2>1 DEF Keeps
  <1>4. CASE p = <<t, Reply(t)>> /\ Returns(t)
    <2>1. /\ pc[t] = "post" /\ Leave(t, TRUE) /\ UNCHANGED cps /\ (~stale' => disk' = msgs[t])
      BY <1>4 DEF Returns, Saves
    <2>2. hist = msgs[t] /\ hist # None
      BY <2>1, ListTypes, ListsLoaded DEF Loaded, Saving
    <2>3. hist' = hist /\ Hist' = msgs[t] /\ pc'[t] \in Ending
      <3>1. pc[t] \in Early \cup Working
        BY <2>1 DEF Working
      <3> QED BY <2>1, <2>2, <3>1, LeaveSaves DEF Hist
    <2>4. Reply(t) \in ToSet(msgs[t])
      BY <2>1 DEF Mine
    <2>5. \A u \in Turns : pc'[u] \notin Working
      BY <1>2, <2>3 DEF Working, Ending
    <2>6. KeptOne(t, Reply(t))'
      BY <1>1, <2>1, <2>2, <2>3, <2>4, <2>5 DEF KeptOne, Recalled
    <2> QED BY <1>4, <2>6
  <1>5. CASE p = <<t, User(user[t])>> /\ Ends(t)
    <2>1. /\ pc[t] = "save" /\ pc'[t] = "done" /\ (~stale' => disk' = save[t])
          /\ UNCHANGED <<hist, cps>>
      BY <1>0, <1>5 DEF Ends, Saves, Done
    <2>2. /\ ~stale' => disk' = Hist
          /\ Hist' = Hist /\ hist' # None /\ User(user[t]) \in ToSet(Hist)
      BY <2>1 DEF Loaded, Mine, Ending, Hist
    <2>3. \A u \in Turns : pc'[u] \notin Working
      BY <1>2, <2>1 DEF Working
    <2>4. p[1] = t /\ p[2] = User(user[t])
      BY <1>5
    <2>5. Recalled(p[2])' /\ (~stale' => p[2] \in ToSet(disk'))
      BY <2>2, <2>4 DEF Recalled
    <2>6. \A i \in DOMAIN cps' : ~(p[1] < cps'[i].turn)
      BY <1>1, <2>1, <2>4
    <2> QED BY <2>3, <2>5, <2>6 DEF KeptOne
  <1>6. p \in Owed \/ (p = <<t, Reply(t)>> /\ Returns(t))
                   \/ (p = <<t, User(user[t])>> /\ Ends(t))
    <2>1. /\ OverTurns' \subseteq OverTurns \cup {t} /\ answered' \subseteq answered \cup {t}
          /\ t \in OverTurns' => Ends(t)
          /\ t \in answered' \ answered => Returns(t)
      BY OwedNext
    <2>2. CASE p \in {<<u, Reply(u)>> : u \in answered' \ removed'}
      BY <1>0, <2>1, <2>2 DEF Owed
    <2>3. CASE p \in {<<u, User(user'[u])>> : u \in OverTurns' \ removed'}
      BY <1>0, <2>1, <2>3 DEF Owed
    <2> QED BY <2>2, <2>3 DEF Owed
  <1> QED BY <1>3, <1>4, <1>5, <1>6

\* A turn at work records its answer.
LEMMA RecordedTurn ==
    ASSUME TypeInv, Mine, Loaded, Recorded, NEW t \in Turns, Works(t), "cut" \notin spoiled'
    PROVE  Recorded'
  <1>0. /\ ToSet(log) \subseteq ToSet(log') /\ (hist' = None => hist = None)
        /\ UNCHANGED removed
        /\ OverTurns' \subseteq OverTurns \cup {t} /\ answered' \subseteq answered \cup {t}
        /\ t \in OverTurns' => Ends(t)
        /\ t \in answered' \ answered => Returns(t)
    BY LogGrows, OwedNext
  <1>1. Returns(t) => Reply(t) \in ToSet(log)
    BY DEF Returns, Mine
  <1>2. Ends(t) => hist # None
    BY DEF Ends, Loaded, Ending
  <1>3. \A u \in answered' \ removed' : Reply(u) \in ToSet(log')
    BY <1>0, <1>1 DEF Recorded
  <1>4. hist' = None => OverTurns' \subseteq removed'
    BY <1>0, <1>2 DEF Recorded
  <1> QED BY <1>3, <1>4 DEF Recorded

\* So do the steps that answer nothing and take nothing back.
LEMMA RecordedFrame ==
    ASSUME Recorded, removed \subseteq removed', answered' \subseteq answered,
           ToSet(log) \subseteq ToSet(log'), hist' = None => hist = None,
           OverTurns' \subseteq OverTurns
    PROVE  Recorded'
  <1>1. \A u \in answered' \ removed' : Reply(u) \in ToSet(log')
    BY DEF Recorded
  <1>2. hist' = None => OverTurns' \subseteq removed'
    BY DEF Recorded
  <1> QED BY <1>1, <1>2 DEF Recorded

\* Every step keeps it.
LEMMA KeptStep ==
    ASSUME TypeInv, Control, Stored, Pairs, Order, Kept, [Next]_vars
    PROVE  Kept'
  <1> SUFFICES ASSUME Orderly({"cut", "meddled", "blind", "lost"})' PROVE KeptNow'
    BY DEF Kept
  <1>0. /\ used["overlap"] = 0 /\ spoiled \subseteq spoiled'
        /\ {"cut", "meddled", "blind", "lost"} \cap spoiled' = {}
        /\ used'["crash"] = 0 => used["crash"] = 0
    BY Remembered, CrashRemembered DEF Orderly
  <1>1. /\ PairsNow /\ Mine /\ Recorded /\ \A p \in Owed : KeptOne(p[1], p[2])
        /\ stash # None => pc[stash.turn] \in Working \cup Ending
        /\ writes = {}
    BY <1>0 DEF Pairs, Kept, KeptNow, Control, Dropped, Orderly
  <1>2. Loaded
    BY <1>0 DEF Stored, Orderly, Loaded
  <1>3. \A p \in Owed : p[1] \in Turns /\ p[2] \in Entries /\ pc[p[1]] # "unused"
                        /\ p[1] \notin removed
    <2>1. \A u \in Turns : pc[u] \in {"done", "over"} => user[u] \in Msgs
      BY DEF TypeInv, TurnData
    <2>2. answered \subseteq Turns
      BY DEF TypeInv, Types, UserTypes
    <2> QED BY <2>1, <2>2, MakeEntries DEF Owed, OverTurns, Order
  <1>4. ASSUME Mine', Recorded', Keeps, Owed' \subseteq Owed
        PROVE  KeptNow'
    BY <1>1, <1>3, <1>4 DEF KeptNow, Keeps
  <1>5. ASSUME NEW c \in Conns, Gate(c)
        PROVE  KeptNow'
    <2>1. UNCHANGED <<msgs, stash, hist, cps, disk, stale, log, answered, removed>>
      BY <1>5 DEF Gate, Connect, Disconnect, HangUp, Announced, Stop, WatchdogFires,
                  LoopEnds, SendUser, TurnStarts, taskVars, agentVars, storeVars, userVars
    <2>2. \A t \in Turns :
             \/ user'[t] = user[t] /\ (pc'[t] = pc[t] \/ (pc[t] = "ask" /\ pc'[t] = "tool"))
             \/ pc[t] = "unused" /\ pc'[t] = "created"
      BY <1>5, ListTypes DEF Gate, Connect, Disconnect, HangUp, Announced, Stop, WatchdogFires,
                  LoopEnds, SendUser, TurnStarts, runVars, taskVars, TypeInv, Types, TaskTypes
    <2>3. Mine' /\ Keeps
      BY <1>1, <2>1, <2>2, KeptFrame DEF Working, Ending
    <2>4. \A u \in Turns : pc'[u] \in {"done", "over"} =>
              pc[u] \in {"done", "over"} /\ user'[u] = user[u]
      BY <2>2
    <2>5. OverTurns' \subseteq OverTurns /\ \A u \in OverTurns' : user'[u] = user[u]
      BY <1>0, <2>4 DEF OverTurns
    <2>6. Owed' \subseteq Owed
      BY <2>1, <2>5 DEF Owed
    <2>7. Recorded'
      BY <1>1, <2>1, <2>5, RecordedFrame
    <2> QED BY <1>4, <2>3, <2>6, <2>7
  <1>6. ASSUME NEW t \in Turns, TurnOver(t)
        PROVE  KeptNow'
    <2>1. /\ UNCHANGED <<msgs, stash, hist, cps, disk, stale, log, answered, removed, user>>
          /\ pc[t] = "done" /\ pc' = [pc EXCEPT ![t] = "over"]
      BY <1>6 DEF TurnOver, taskVars, agentVars, storeVars
    <2>2. Mine' /\ Keeps
      BY <1>1, <2>1, ListTypes, KeptFrame DEF Working, Ending
    <2>3. OverTurns' \subseteq OverTurns
      BY <1>0, <2>1, ListTypes DEF OverTurns
    <2>4. Owed' \subseteq Owed
      BY <2>1, <2>3 DEF Owed
    <2>5. Recorded'
      BY <1>1, <2>1, <2>3, RecordedFrame
    <2> QED BY <1>4, <2>2, <2>4, <2>5
  <1>7. ASSUME NEW t \in Turns, Works(t)
        PROVE  KeptNow'
    <2>1. Solo(t) /\ (pc[t] \in Early => stash = None)
      <3>1. pc[t] \in Alive /\ pc' = [pc EXCEPT ![t] = pc'[t]]
        BY <1>7, TurnMoves
      <3>2. \A u \in Turns : u # t => pc[u] \notin Alive \cup {"done"}
        BY <1>0, <3>1, Alone
      <3>3. stash # None => stash.turn \in Turns
        BY ListTypes
      <3>4. pc[t] \in Early => pc[t] \notin Working \cup Ending
        BY DEF Early, Working, Ending
      <3> QED BY <1>1, <3>1, <3>2, <3>3, <3>4, ListTypes DEF Solo, Alive, Early
    <2>2. Mine' /\ Keeps
      BY <1>0, <1>1, <1>2, <1>7, <2>1, KeptTurn
    <2>3. \A p \in Owed' : KeptOne(p[1], p[2])'
      BY <1>0, <1>1, <1>2, <1>7, <2>1, <2>2, OwedTurn
    <2>4. Recorded'
      BY <1>0, <1>1, <1>2, <1>7, RecordedTurn
    <2> QED BY <2>2, <2>3, <2>4 DEF KeptNow
  <1>8. CASE Else
    <2>1. CASE \E q \in writes : WriteLands(q)
      BY <1>1, <2>1
    <2>2. CASE \E i \in DOMAIN cps : Rewind(i)
      <3>1. PICK i \in DOMAIN cps : Rewind(i)
        BY <2>2
      <3>2. /\ Running = {} /\ ~cps[i].blind /\ UNCHANGED <<pc, user, answered, log>>
            /\ removed' = removed \cup {t \in Turns : t >= cps[i].turn /\ pc[t] # "unused"}
        BY <1>0, <3>1 DEF Rewind, Meddled, taskVars, runVars
      <3>3. /\ Mine'
            /\ \A u \in Turns, e \in Entries : u < cps[i].turn /\ KeptOne(u, e) => KeptOne(u, e)'
        BY <1>1, <3>1, <3>2, KeptRewind
      <3>4. OverTurns' \subseteq OverTurns
        BY <1>0, <3>2 DEF OverTurns
      <3>5. \A p \in Owed' : p \in Owed /\ p[1] \notin removed'
        BY <3>2, <3>4 DEF Owed
      <3>6. cps[i].turn \in Turns
        <4>1. cps[i] \in [turn : Turns, len : Nat, blind : BOOLEAN]
          BY Beginning DEF TypeInv, Types, AgentTypes
        <4> QED BY <4>1
      <3>7. \A p \in Owed' : p[1] < cps[i].turn
        BY <1>3, <3>2, <3>5, <3>6 DEF Turns
      <3>8. Recorded'
        <4>1. hist' # None
          BY <1>1, <3>1, RewoundHist
        <4> QED BY <1>1, <3>2, <3>4, <4>1, RecordedFrame
      <3> QED BY <1>1, <1>3, <3>3, <3>5, <3>7, <3>8 DEF KeptNow
    <2>3. CASE ClearSession
      <3>1. /\ Running = {} /\ UNCHANGED <<pc, user, answered>>
            /\ removed' = {t \in Turns : pc[t] # "unused"}
        BY <1>0, <2>3 DEF ClearSession, Meddled, taskVars, runVars
      <3>2. \A t \in Turns : pc'[t] \notin {"prep", "answer", "post"} \cup Working \cup Ending
        BY <3>1 DEF Running, Alive, Working, Early
      <3>3. Mine'
        BY <3>2 DEF Mine
      <3>4. answered' \ removed' = {}
        BY <3>1 DEF Order, TypeInv, Types, UserTypes
      <3>5. OverTurns' \subseteq removed'
        BY <3>1 DEF OverTurns
      <3>6. Owed' = {}
        BY <3>4, <3>5 DEF Owed
      <3>7. Recorded'
        BY <3>4, <3>5 DEF Recorded
      <3> QED BY <3>3, <3>6, <3>7 DEF KeptNow
    <2>4. CASE Crash
      <3>1. /\ UNCHANGED <<disk, log, user, answered, removed>> /\ cps' = <<>> /\ hist' = None
            /\ ~stale /\ \A t \in Turns : pc'[t] \notin {"prep"} \cup Working \cup Ending
        BY <1>0, <2>4, ListTypes DEF Crash, taskVars, userVars, Alive, Early, Working, Ending
      <3>2. used'["crash"] # 0
        BY <2>4 DEF Crash, Spend, TypeInv, Types, UserTypes, Events
      <3>3. OverTurns' = {}
        BY <3>2 DEF OverTurns
      <3>4. Mine'
        BY <3>1 DEF Mine, Working
      <3>5. Recorded'
        BY <1>1, <3>1, <3>3 DEF Recorded
      <3>6. ASSUME NEW p \in Owed'
            PROVE  KeptOne(p[1], p[2])'
        <4>1. PICK u \in answered \ removed : p = <<u, Reply(u)>>
          BY <3>1, <3>3, <3>6 DEF Owed
        <4>2. p \in Owed
          BY <4>1 DEF Owed
        <4>3. KeptOne(p[1], p[2]) /\ p[1] = u /\ p[2] = Reply(u)
          BY <1>1, <4>1, <4>2
        <4>4. p[2] \in ToSet(disk) /\ p[2] \in ToSet(log)
          BY <1>1, <3>1, <4>3 DEF KeptOne, Recorded
        <4>5. DOMAIN cps' = {}
          BY <3>1
        <4> QED BY <3>1, <4>4, <4>5 DEF KeptOne, Recalled
      <3> QED BY <3>4, <3>5, <3>6 DEF KeptNow
    <2>5. CASE StoreFails \/ StoreServes \/ UNCHANGED vars
      <3>1. UNCHANGED <<pc, msgs, stash, hist, cps, disk, stale, log, user, answered, removed>>
        BY <2>5 DEF StoreFails, StoreServes, vars, taskVars, runVars, agentVars, userVars
      <3>2. Mine' /\ Keeps
        BY <1>1, <3>1, KeptFrame
      <3>3. OverTurns' \subseteq OverTurns
        BY <1>0, <3>1 DEF OverTurns
      <3>4. Owed' \subseteq Owed
        BY <3>1, <3>3 DEF Owed
      <3>5. Recorded'
        BY <1>1, <3>1, <3>3, RecordedFrame
      <3> QED BY <1>4, <3>2, <3>4, <3>5
    <2> QED BY <1>8, <2>1, <2>2, <2>3, <2>4, <2>5 DEF Else
  <1> QED BY <1>5, <1>6, <1>7, <1>8, Actors

\* What is owed to the turns is always kept.
LEMMA KeptCorrect == Spec => []Kept
  <1>1. Init => Kept
    <2> SUFFICES ASSUME Init PROVE KeptNow
      BY DEF Kept
    <2>1. Mine
      BY DEF Init, Mine, Working, Ending
    <2>2. OverTurns = {} /\ answered = {}
      BY DEF Init, OverTurns
    <2>3. Recorded /\ Owed = {}
      BY <2>2 DEF Recorded, Owed
    <2> QED BY <2>1, <2>3 DEF KeptNow
  <1>2. TypeInv /\ Control /\ Stored /\ Pairs /\ Order /\ Kept /\ [Next]_vars => Kept'
    BY KeptStep
  <1>3. Spec => []TypeInv
    BY TypeInit, TypeStep, PTL DEF Spec
  <1> QED BY <1>1, <1>2, <1>3, ControlCorrect, StoredCorrect, PairsCorrect, OrderCorrect,
             PTL DEF Spec

\* A finished exchange stays stored through the stops, kills, failures and
\* crashes of the turns after it and through an outage of the store, until the
\* user takes it back: while a save that was refused has not been made up for it
\* may be missing, and a crash at that moment loses it.
THEOREM FinishedStays == Spec => []FinishedStored
  <1>1. Kept => FinishedStored
    <2> SUFFICES ASSUME KeptNow, ~stale, NEW t \in answered \ removed
                 PROVE  Reply(t) \in ToSet(disk)
      BY DEF Kept, FinishedStored
    <2>1. <<t, Reply(t)>> \in Owed
      BY DEF Owed
    <2> QED BY <2>1 DEF KeptNow, KeptOne
  <1> QED BY <1>1, KeptCorrect, PTL

\* What the user typed is in the history once its turn is over, however the
\* turn ended and whether or not the store takes it, unless a second kill cut the
\* recovery short.
THEOREM MessageStays == Spec => []MessageKept
  <1>1. Kept /\ LostByCrash => MessageKept
    <2> SUFFICES ASSUME Kept, LostByCrash, NEW t \in Turns, pc[t] = "over", t \notin removed,
                        used["crash"] = 0, Orderly({"cut", "meddled", "blind"})
                 PROVE  User(user[t]) \in ToSet(Hist)
      BY DEF MessageKept
    <2>1. KeptNow
      BY DEF Kept, Orderly, LostByCrash
    <2>2. t \in OverTurns
      BY DEF OverTurns
    <2>3. hist # None
      BY <2>1, <2>2 DEF KeptNow, Recorded
    <2>4. <<t, User(user[t])>> \in Owed
      BY <2>2 DEF Owed
    <2> QED BY <2>1, <2>3, <2>4 DEF KeptNow, KeptOne, Recalled
  <1> QED BY <1>1, KeptCorrect, LostCorrect, PTL

-----------------------------------------------------------------------------
(* Where a message of the user is, on its way into a turn *)

\* A steering message waits for its announcement or its watchdog in one place,
\* and has not been queued.
Waiting ==
    /\ requeued \subseteq steered /\ steered \subseteq sent
    /\ \A c \in Conns : {rd[c], wd[c]} \subseteq (steered \ requeued) \cup {None}
    /\ \A c, d \in Conns :
          /\ rd[c] # None => rd[c] # wd[d] /\ (rd[c] = rd[d] => c = d)
          /\ wd[c] # None /\ wd[c] = wd[d] => c = d

\* What is queued, or has started a turn, was typed, and is not steering as well
\* unless the watchdog put it there.
Due == (sent \ steered) \cup requeued
Queued ==
    /\ \A c \in Conns : \A i \in DOMAIN queue[c] : queue[c][i] \in Due \cup {Bye}
    /\ \A t \in Turns : user[t] \in Due \cup {None}

\* It is so once.
Distinct ==
    /\ \A c, d \in Conns : \A i \in DOMAIN queue[c], j \in DOMAIN queue[d] :
          queue[c][i] = queue[d][j] /\ queue[c][i] # Bye => c = d /\ i = j
    /\ \A t \in Turns, c \in Conns : \A i \in DOMAIN queue[c] : queue[c][i] # user[t]
    /\ \A t, u \in Turns : user[t] # None /\ user[t] = user[u] => t = u

\* A list without repetition.
Each(q) == \A i, j \in DOMAIN q : q[i] = q[j] => i = j

\* Steering that was accepted, and what is not in the queue.
Heard == {e \in Entries : e[1] = "steer" => e[2] \in steered}
Fresh == {e \in Entries : e[1] = "steer" => e[2] \notin ToSet(steerq)}

\* The queue, and what is left of it to the turns that splice, have each message
\* once; a turn has yet to splice a message of the queue only if it shares it.
Pending ==
    /\ Each(steerq) /\ ToSet(steerq) \subseteq steered
    /\ \A t \in Turns : Each(todo[t]) /\ ToSet(todo[t]) \subseteq steered
    /\ \A t \in Turns : todo[t] # <<>> \/ t \in shared => pc[t] = "splice"
    /\ \A t \in Turns : todo[t] # <<>> /\ t \notin shared =>
          ToSet(todo[t]) \cap ToSet(steerq) = {}

\* No list has a message of the queue, save those of the turns that share it; and
\* no turn has one that it has yet to splice.
Aside(L) ==
    /\ \A t \in Turns : pc[t] # "splice" => msgs[t] \in L
    /\ save \in [Turns -> L] /\ hist \in L \cup {None}
    /\ disk \in L /\ log \in L /\ writes \subseteq L
NextAside(L) ==
    /\ \A t \in Turns : pc'[t] # "splice" => msgs'[t] \in L
    /\ save' \in [Turns -> L] /\ hist' \in L \cup {None}
    /\ disk' \in L /\ log' \in L /\ writes' \subseteq L
Apart ==
    /\ Within(Heard) /\ Aside(Seq(Fresh))
    /\ \A t \in Turns : t \notin shared => msgs[t] \in Seq(Fresh)
    /\ \A t \in Turns : \A m \in ToSet(todo[t]) : Steer(m) \notin ToSet(msgs[t])

\* Turns that run one at a time splice a message once, all of them together.
Singly ==
    /\ \A x \in spliced : x[2] \in steered
    /\ used["overlap"] = 0 =>
          /\ \A x, y \in spliced : x[2] = y[2] => x = y
          /\ \A x \in spliced : x[2] \in ToSet(steerq) => x[1] \in shared
          /\ \A x \in spliced : \A t \in Turns : x[2] \notin ToSet(todo[t])

OnceLists == {q \in Seq(Entries) : SteersOnce(q)}
Once ==
    /\ Waiting /\ Queued /\ Distinct
    /\ Pending /\ Apart /\ Singly /\ Lists(OnceLists)

\* Every step keeps the messages that wait for a queue in one place.
LEMMA WaitingStep ==
    ASSUME TypeInv, Waiting, Queued, [Next]_vars
    PROVE  Waiting'
  <1>0. /\ rd \in [Conns -> Msgs \cup {None}] /\ wd \in [Conns -> Msgs \cup {None}]
        /\ sent \subseteq Msgs /\ steered \subseteq Msgs /\ requeued \subseteq Msgs
        /\ None \notin Msgs
    BY ConstantsAssumption DEF TypeInv, Types, ConnTypes, UserTypes
  <1>1. ASSUME UNCHANGED <<sent, steered, requeued>>,
               \A c \in Conns : rd'[c] \in {rd[c], None} /\ wd'[c] \in {wd[c], None}
        PROVE  Waiting'
    BY <1>0, <1>1 DEF Waiting
  <1>2. ASSUME NEW c \in Conns, Gate(c)
        PROVE  Waiting'
    <2>1. CASE Connect(c) \/ Disconnect(c) \/ HangUp(c) \/ Stop(c) \/ LoopEnds(c)
               \/ \E t \in Turns : TurnStarts(c, t)
      <3>1. UNCHANGED <<sent, steered, requeued, rd>>
            /\ (wd' = wd \/ wd' = [d \in Conns |-> None])
        BY <2>1 DEF Connect, Disconnect, HangUp, Stop, LoopEnds, TurnStarts, Progress, userVars
      <3> QED BY <1>0, <1>1, <3>1
    <2>2. CASE Announced(c)
      <3>1. /\ rd[c] # None /\ rd' = [rd EXCEPT ![c] = None]
            /\ \E x \in {None, rd[c]} : wd' = [wd EXCEPT ![c] = x]
            /\ UNCHANGED <<sent, steered, requeued>>
        BY <2>2 DEF Announced, userVars
      <3> QED BY <1>0, <3>1 DEF Waiting
    <2>3. CASE WatchdogFires(c)
      <3>1. /\ wd[c] # None /\ wd' = [wd EXCEPT ![c] = None]
            /\ requeued' = requeued \cup {wd[c]}
            /\ UNCHANGED <<rd, sent, steered>>
        BY <2>3 DEF WatchdogFires
      <3> QED BY <1>0, <3>1 DEF Waiting
    <2>4. ASSUME NEW m \in Msgs, SendUser(c, m)
          PROVE  Waiting'
      <3>1. /\ m \notin sent /\ sent' = sent \cup {m} /\ UNCHANGED <<wd, requeued>>
            /\ \/ rd' = [rd EXCEPT ![c] = m] /\ steered' = steered \cup {m}
               \/ UNCHANGED <<rd, steered>>
        BY <2>4 DEF SendUser
      <3> QED BY <1>0, <3>1 DEF Waiting
    <2> QED BY <1>2, <2>1, <2>2, <2>3, <2>4 DEF Gate
  <1>3. ASSUME NEW t \in Turns, Works(t)
        PROVE  Waiting'
    <2>1. UNCHANGED <<sent, steered, requeued, rd>>
          /\ (wd' = wd \/ wd' = [c \in Conns |-> None])
      BY <1>3 DEF Works, TurnStep, Outcome, Begin, Load, Prepare, HopStarts, SpliceNext,
                  SpliceEnds, HopRefused, ToolCancelled, Saved, Returns, RecoverySaved, Ends,
                  LlmCalls, ToolReturns, LlmAnswers, LlmDrafts, Fails, Killed, Progress,
                  connVars, userVars
    <2> QED BY <1>0, <1>1, <2>1
  <1>4. ASSUME NEW t \in Turns, TurnOver(t)
        PROVE  Waiting'
    <2>1. UNCHANGED <<sent, steered, requeued, rd>>
          /\ (wd' = [c \in Conns |-> None] \/ wd' = [wd EXCEPT ![by[t]] = None])
      BY <1>4 DEF TurnOver
    <2> QED BY <1>0, <1>1, <2>1
  <1>5. CASE Else
    <2>1. UNCHANGED <<sent, steered, requeued>>
          /\ (UNCHANGED <<rd, wd>> \/
              (rd' = [c \in Conns |-> None] /\ wd' = [c \in Conns |-> None]))
      BY <1>5 DEF Else, WriteLands, Rewind, ClearSession, Crash, StoreFails, StoreServes, vars,
                  connVars, userVars
    <2> QED BY <1>0, <1>1, <2>1
  <1> QED BY <1>2, <1>3, <1>4, <1>5, Actors

\* Queues that only lose messages.
LEMMA QueuedFrame ==
    ASSUME TypeInv, Queued, Distinct, UNCHANGED user, Due \subseteq Due',
           \A c \in Conns : queue'[c] = queue[c] \/ queue'[c] = <<>>
    PROVE  Queued' /\ Distinct'
  BY DEF Queued, Distinct

\* A message or the sentinel joins a queue.
LEMMA QueuedJoin ==
    ASSUME TypeInv, Queued, Distinct, UNCHANGED user, Due \subseteq Due',
           NEW c \in Conns, NEW m \in Msgs \cup {Bye},
           m # Bye => m \notin Due /\ m \in Due',
           queue' = [queue EXCEPT ![c] = Append(@, m)]
    PROVE  Queued' /\ Distinct'
  <1>0. /\ queue \in [Conns -> Seq(Msgs \cup {Bye})] /\ user \in [Turns -> Msgs \cup {None}]
        /\ None \notin Msgs /\ Bye \notin Msgs \cup {None}
    BY ConstantsAssumption DEF TypeInv, Types, ConnTypes, TaskTypes
  <1> DEFINE n == Len(queue[c]) + 1
  <1>1. /\ n \in Nat \ {0} /\ DOMAIN queue[c] = 1 .. n - 1 /\ DOMAIN queue'[c] = 1 .. n
        /\ \A i \in 1 .. n - 1 : queue'[c][i] = queue[c][i]
        /\ queue'[c][n] = m /\ n \notin 1 .. n - 1
    <2>1. queue[c] \in Seq(Msgs \cup {Bye}) /\ queue'[c] = Append(queue[c], m)
      BY <1>0
    <2>2. \A q \in Seq(Msgs \cup {Bye}) :
             /\ Len(q) \in Nat /\ DOMAIN q = 1 .. Len(q)
             /\ DOMAIN Append(q, m) = 1 .. Len(q) + 1
             /\ \A i \in 1 .. Len(q) : Append(q, m)[i] = q[i]
             /\ Append(q, m)[Len(q) + 1] = m
      OBVIOUS
    <2>3. n - 1 = Len(queue[c]) /\ n \notin 1 .. n - 1 /\ n \in Nat \ {0}
      BY <2>1, <2>2
    <2> QED BY <2>1, <2>2, <2>3
  <1>2. \A d \in Conns : d # c => queue'[d] = queue[d]
    BY <1>0
  <1> HIDE DEF n
  <1>3. \A d \in Conns : \A i \in DOMAIN queue'[d] :
           \/ d = c /\ i = n /\ queue'[d][i] = m
           \/ i \in DOMAIN queue[d] /\ queue'[d][i] = queue[d][i] /\ (d = c => i # n)
    BY <1>1, <1>2
  <1>4. Queued'
    <2>1. \A d \in Conns : \A i \in DOMAIN queue'[d] : queue'[d][i] \in Due' \cup {Bye}
      BY <1>3 DEF Queued
    <2> QED BY <2>1 DEF Queued
  <1>5. \A d \in Conns : \A i \in DOMAIN queue[d] : m # Bye => queue[d][i] # m
    BY <1>0 DEF Queued
  <1>6. \A t \in Turns : user[t] # m
    BY <1>0 DEF Queued
  <1>7. \A d1, d2 \in Conns : \A i \in DOMAIN queue'[d1], j \in DOMAIN queue'[d2] :
           queue'[d1][i] = queue'[d2][j] /\ queue'[d1][i] # Bye => d1 = d2 /\ i = j
    BY <1>3, <1>5 DEF Distinct
  <1>8. \A t \in Turns, d \in Conns : \A i \in DOMAIN queue'[d] : queue'[d][i] # user[t]
    BY <1>3, <1>6 DEF Distinct
  <1> QED BY <1>4, <1>7, <1>8 DEF Distinct

\* The first message of a queue becomes a turn's.
LEMMA QueuedTaken ==
    ASSUME TypeInv, Queued, Distinct, NEW c \in Conns, NEW t \in Turns, TurnStarts(c, t)
    PROVE  Queued' /\ Distinct'
  <1>0. /\ queue \in [Conns -> Seq(Msgs \cup {Bye})] /\ user \in [Turns -> Msgs \cup {None}]
        /\ None \notin Msgs /\ Bye \notin Msgs \cup {None}
    BY ConstantsAssumption DEF TypeInv, Types, ConnTypes, TaskTypes
  <1> DEFINE m == queue[c][1]
  <1>1. /\ queue[c] # <<>> /\ m # Bye /\ user' = [user EXCEPT ![t] = m]
        /\ queue' = [queue EXCEPT ![c] = Tail(@)] /\ UNCHANGED <<sent, steered, requeued>>
    BY <1>0 DEF TurnStarts, userVars
  <1>2. /\ 1 \in DOMAIN queue[c]
        /\ \A i \in DOMAIN queue'[c] : /\ i + 1 \in DOMAIN queue[c] /\ i + 1 # 1
                                       /\ queue'[c][i] = queue[c][i + 1] /\ i \in Int
    <2>1. queue[c] \in Seq(Msgs \cup {Bye}) /\ queue'[c] = Tail(queue[c])
      BY <1>0, <1>1
    <2>2. \A q \in Seq(Msgs \cup {Bye}) : q # <<>> =>
             /\ 1 \in DOMAIN q
             /\ \A i \in DOMAIN Tail(q) : /\ i + 1 \in DOMAIN q /\ i + 1 # 1
                                          /\ Tail(q)[i] = q[i + 1] /\ i \in Int
      OBVIOUS
    <2> QED BY <1>1, <2>1, <2>2
  <1>3. \A d \in Conns : d # c => queue'[d] = queue[d]
    BY <1>0, <1>1
  <1>4. m \in Due /\ Due' = Due /\ user'[t] = m /\ \A u \in Turns : u # t => user'[u] = user[u]
    BY <1>0, <1>1, <1>2 DEF Queued, Due
  <1>5. \A d \in Conns : \A i \in DOMAIN queue'[d] :
           \E j \in DOMAIN queue[d] :
              /\ queue'[d][i] = queue[d][j] /\ (d = c => j = i + 1 /\ j # 1 /\ i \in Int)
              /\ (d # c => j = i)
    BY <1>2, <1>3
  <1>6. Queued'
    <2>1. \A d \in Conns : \A i \in DOMAIN queue'[d] : queue'[d][i] \in Due \cup {Bye}
      BY <1>5 DEF Queued
    <2>2. \A u \in Turns : user'[u] \in Due \cup {None}
      BY <1>4 DEF Queued
    <2> QED BY <1>4, <2>1, <2>2 DEF Queued
  <1>7. \A d1, d2 \in Conns : \A i \in DOMAIN queue'[d1], j \in DOMAIN queue'[d2] :
           queue'[d1][i] = queue'[d2][j] /\ queue'[d1][i] # Bye => d1 = d2 /\ i = j
    <2> SUFFICES ASSUME NEW d1 \in Conns, NEW d2 \in Conns, NEW i \in DOMAIN queue'[d1],
                        NEW j \in DOMAIN queue'[d2], queue'[d1][i] = queue'[d2][j],
                        queue'[d1][i] # Bye
                 PROVE  d1 = d2 /\ i = j
      OBVIOUS
    <2>1. PICK k \in DOMAIN queue[d1] :
              /\ queue'[d1][i] = queue[d1][k] /\ (d1 = c => k = i + 1 /\ k # 1 /\ i \in Int)
              /\ (d1 # c => k = i)
      BY <1>5
    <2>2. PICK l \in DOMAIN queue[d2] :
              /\ queue'[d2][j] = queue[d2][l] /\ (d2 = c => l = j + 1 /\ l # 1 /\ j \in Int)
              /\ (d2 # c => l = j)
      BY <1>5
    <2>3. queue[d1][k] = queue[d2][l] /\ queue[d1][k] # Bye
      BY <2>1, <2>2
    <2>4. d1 = d2 /\ k = l
      BY <2>3 DEF Distinct
    <2> QED BY <2>1, <2>2, <2>4
  <1>8. \A u \in Turns, d \in Conns : \A i \in DOMAIN queue'[d] : queue'[d][i] # user'[u]
    <2> SUFFICES ASSUME NEW u \in Turns, NEW d \in Conns, NEW i \in DOMAIN queue'[d]
                 PROVE  queue'[d][i] # user'[u]
      OBVIOUS
    <2>1. PICK k \in DOMAIN queue[d] :
              queue'[d][i] = queue[d][k] /\ (d = c => k # 1)
      BY <1>5
    <2>2. u # t => queue[d][k] # user'[u]
      BY <1>4 DEF Distinct
    <2>3. queue[d][k] # m
      BY <1>1, <1>2, <2>1 DEF Distinct
    <2> QED BY <1>4, <2>1, <2>2, <2>3
  <1>9. \A u, v \in Turns : user'[u] # None /\ user'[u] = user'[v] => u = v
    <2>1. \A u \in Turns : user[u] # m
      BY <1>2 DEF Distinct
    <2> QED BY <1>4, <2>1 DEF Distinct
  <1> QED BY <1>6, <1>7, <1>8, <1>9 DEF Distinct

\* Every step keeps what is queued among what is due.
LEMMA QueuedStep ==
    ASSUME TypeInv, Waiting, Queued, Distinct, [Next]_vars
    PROVE  Queued' /\ Distinct'
  <1>0. /\ rd \in [Conns -> Msgs \cup {None}] /\ wd \in [Conns -> Msgs \cup {None}]
        /\ queue \in [Conns -> Seq(Msgs \cup {Bye})]
        /\ sent \subseteq Msgs /\ steered \subseteq Msgs /\ requeued \subseteq Msgs
        /\ None \notin Msgs /\ Bye \notin Msgs
    BY ConstantsAssumption DEF TypeInv, Types, ConnTypes, UserTypes
  <1>1. ASSUME UNCHANGED <<user, sent, steered, requeued>>,
               \A c \in Conns : queue'[c] = queue[c] \/ queue'[c] = <<>>
        PROVE  Queued' /\ Distinct'
    BY <1>1, QueuedFrame DEF Due
  <1>2. ASSUME NEW c \in Conns, Gate(c)
        PROVE  Queued' /\ Distinct'
    <2>1. CASE Connect(c) \/ Disconnect(c) \/ Stop(c) \/ LoopEnds(c) \/ Announced(c)
      <3>1. UNCHANGED <<user, sent, steered, requeued>>
            /\ (queue' = queue \/ queue' = [queue EXCEPT ![c] = <<>>])
        BY <2>1 DEF Connect, Disconnect, Stop, LoopEnds, Announced, userVars, taskVars
      <3> QED BY <1>0, <1>1, <3>1
    <2>2. CASE HangUp(c)
      BY <2>2, QueuedJoin DEF HangUp, userVars, taskVars, Due
    <2>3. CASE WatchdogFires(c)
      <3>1. /\ wd[c] # None /\ requeued' = requeued \cup {wd[c]}
            /\ queue' = [queue EXCEPT ![c] = Append(@, wd[c])]
            /\ UNCHANGED <<user, sent, steered>>
        BY <2>3 DEF WatchdogFires, taskVars
      <3>2. wd[c] \in Msgs /\ wd[c] \in steered /\ wd[c] \notin requeued
        BY <1>0, <3>1 DEF Waiting
      <3>3. Due \subseteq Due' /\ wd[c] \notin Due /\ wd[c] \in Due'
        BY <3>1, <3>2 DEF Due
      <3> QED BY <3>1, <3>2, <3>3, QueuedJoin
    <2>4. ASSUME NEW m \in Msgs, SendUser(c, m)
          PROVE  Queued' /\ Distinct'
      <3>1. m \notin sent /\ sent' = sent \cup {m} /\ UNCHANGED <<user, requeued>>
            /\ m \notin steered /\ m \notin requeued
        BY <2>4 DEF SendUser, taskVars, Waiting
      <3>2. CASE queue' = queue /\ steered' = steered \cup {m}
        <4>1. Due \subseteq Due'
          BY <3>1, <3>2 DEF Due
        <4> QED BY <3>1, <3>2, <4>1, QueuedFrame
      <3>3. CASE queue' = [queue EXCEPT ![c] = Append(@, m)] /\ steered' = steered
        <4>1. Due \subseteq Due' /\ m \notin Due /\ m \in Due'
          BY <3>1, <3>3 DEF Due
        <4> QED BY <3>1, <3>3, <4>1, QueuedJoin
      <3> QED BY <2>4, <3>2, <3>3 DEF SendUser
    <2>5. ASSUME NEW t \in Turns, TurnStarts(c, t)
          PROVE  Queued' /\ Distinct'
      BY <2>5, QueuedTaken
    <2> QED BY <1>2, <2>1, <2>2, <2>3, <2>4, <2>5 DEF Gate
  <1>3. ASSUME NEW t \in Turns, Works(t)
        PROVE  Queued' /\ Distinct'
    BY <1>1, <1>3, TurnMoves
  <1>4. ASSUME NEW t \in Turns, TurnOver(t)
        PROVE  Queued' /\ Distinct'
    BY <1>1, <1>4 DEF TurnOver, taskVars
  <1>5. CASE Else
    <2>1. UNCHANGED <<user, sent, steered, requeued>>
          /\ (queue' = queue \/ queue' = [c \in Conns |-> <<>>])
      BY <1>5 DEF Else, WriteLands, Rewind, ClearSession, Crash, StoreFails, StoreServes, vars,
                  connVars, userVars, taskVars
    <2> QED BY <1>0, <1>1, <2>1
  <1> QED BY <1>2, <1>3, <1>4, <1>5, Actors

\* What a step does to the queue of steering messages and to what is left of it:
\* nothing,
Quiet ==
    /\ UNCHANGED <<steered, steerq, todo, shared, spliced>>
    /\ \A t \in Turns : /\ pc[t] = "splice" => pc'[t] = "splice" /\ msgs'[t] = msgs[t]
                        /\ pc'[t] = "splice" => pc[t] = "splice"

\* it drops the queue,
Emptied ==
    /\ UNCHANGED <<steered, spliced>> /\ steerq' = <<>> /\ shared' = {}
    /\ \A t \in Turns : \/ todo'[t] = <<>>
                        \/ todo'[t] = todo[t] /\ pc'[t] = pc[t] /\ msgs'[t] = msgs[t]

\* or a message joins them; else a turn splices one.
Queues(m) ==
    /\ m \notin sent /\ steered' = steered \cup {m} /\ Steering(m)
    /\ UNCHANGED <<shared, spliced, pc, msgs, save, hist, disk, log, writes>>

\* Every step does one of these.
LEMMA SteeringMoves ==
    ASSUME TypeInv, [Next]_vars
    PROVE  \/ Quiet \/ Emptied \/ \E m \in Msgs : Queues(m)
           \/ \E t \in Turns : (HopStarts(t) /\ steerq # <<>>) \/ SpliceNext(t)
  <1>0. /\ pc \in [Turns -> Alive \cup {"unused", "done", "over", "lost"}]
        /\ msgs \in [Turns -> Seq(Entries)] /\ todo \in [Turns -> Seq(Msgs)]
    BY ListTypes DEF TypeInv, Types, SpliceTypes
  <1>1. ASSUME NEW c \in Conns, Gate(c)
        PROVE  Quiet \/ \E m \in Msgs : Queues(m)
    <2>1. CASE \E m \in Msgs : SendUser(c, m) /\ steered' = steered \cup {m} /\ Steering(m)
      BY <2>1 DEF SendUser, Queues, taskVars, runVars, storeVars
    <2>2. CASE \E m \in Msgs : SendUser(c, m) /\ UNCHANGED <<steered, steerq, todo>>
      BY <2>2 DEF SendUser, Quiet, taskVars, runVars
    <2>3. CASE ~(\E m \in Msgs : SendUser(c, m))
      <3>1. UNCHANGED <<steered, steerq, todo, shared, spliced, msgs>>
        BY <1>1, <2>3 DEF Gate, Connect, Disconnect, HangUp, Announced, Stop, WatchdogFires,
                LoopEnds, TurnStarts, agentVars, spliceVars, userVars, taskVars
      <3>2. \A t \in Turns : \/ pc'[t] = pc[t] \/ (pc[t] = "ask" /\ pc'[t] = "tool")
                             \/ (pc[t] = "unused" /\ pc'[t] = "created")
        BY <1>0, <1>1, <2>3 DEF Gate, Connect, Disconnect, HangUp, Announced, Stop,
                WatchdogFires, LoopEnds, TurnStarts, runVars
      <3> QED BY <3>1, <3>2 DEF Quiet
    <2> QED BY <2>1, <2>2, <2>3 DEF SendUser
  <1>2. ASSUME NEW t \in Turns, Works(t)
        PROVE  \/ Quiet \/ Emptied
               \/ (HopStarts(t) /\ steerq # <<>>) \/ SpliceNext(t)
    <2>0. /\ \A u \in Turns : u # t => pc'[u] = pc[u]
          /\ UNCHANGED <<steered, user>>
      <3>1. pc' = [pc EXCEPT ![t] = pc'[t]]
        BY <1>2, TurnMoves
      <3> QED BY <1>0, <1>2, <3>1, TurnMoves
    <2>1. CASE HopStarts(t) /\ steerq = <<>>
      BY <1>0, <2>0, <2>1 DEF HopStarts, Quiet, spliceVars
    <2>2. CASE SpliceEnds(t)
      BY <1>0, <2>0, <2>2 DEF SpliceEnds, Unqueue, Emptied, taskVars
    <2>3. CASE \E ok \in BOOLEAN : Leave(t, ok) /\ UNCHANGED <<msgs, spliced>>
      BY <1>0, <2>0, <2>3 DEF Leave, Unqueue, Emptied
    <2>4. HopRefused(t) \/ ToolCancelled(t) \/ Returns(t) \/ Fails(t)
          \/ (Killed(t) /\ pc[t] \notin Ending)
          => \E ok \in BOOLEAN : Leave(t, ok) /\ UNCHANGED <<msgs, spliced>>
      BY DEF HopRefused, ToolCancelled, Returns, Fails, Killed, taskVars
    <2>5. CASE Begin(t) \/ Load(t) \/ Prepare(t) \/ Saved(t) \/ RecoverySaved(t) \/ Ends(t)
               \/ (Killed(t) /\ pc[t] \in Ending) \/ (Outcome(t) /\ ~Fails(t))
      <3>1. UNCHANGED <<steerq, todo, shared, spliced>>
        BY <2>5 DEF Begin, Load, Prepare, Saved, RecoverySaved, Ends, Killed, Outcome, LlmCalls,
                ToolReturns, LlmAnswers, LlmDrafts, agentVars, spliceVars, Early, Working, Ending
      <3>2. pc[t] # "splice" /\ pc'[t] # "splice"
        BY <1>0, <2>5 DEF Begin, Load, Prepare, Saved, RecoverySaved, Ends, Killed, Outcome,
                LlmCalls, ToolReturns, LlmAnswers, LlmDrafts, Early, Working, Ending, Done
      <3>3. \A u \in Turns : u # t => msgs'[u] = msgs[u]
        BY <1>0, <2>5 DEF Begin, Load, Prepare, Saved, RecoverySaved, Ends, Killed, Outcome,
                LlmCalls, ToolReturns, LlmAnswers, LlmDrafts, taskVars
      <3> QED BY <2>0, <3>1, <3>2, <3>3 DEF Quiet
    <2> QED BY <1>2, <2>1, <2>2, <2>3, <2>4, <2>5 DEF Works, TurnStep, Outcome
  <1>3. ASSUME NEW t \in Turns, TurnOver(t)
        PROVE  Quiet
    BY <1>0, <1>3 DEF TurnOver, Quiet, taskVars, agentVars, spliceVars
  <1>4. CASE Else
    <2>1. CASE ClearSession
      BY <2>1 DEF ClearSession, Unqueue, Emptied, taskVars, runVars
    <2>2. CASE Crash
      BY <2>2 DEF Crash, Unqueue, Emptied, userVars
    <2>3. CASE ~ClearSession /\ ~Crash
      BY <1>4, <2>3 DEF Else, WriteLands, Rewind, StoreFails, StoreServes, vars, Quiet, taskVars,
              runVars, agentVars, spliceVars, userVars
    <2> QED BY <2>1, <2>2, <2>3
  <1> QED BY <1>1, <1>2, <1>3, <1>4, Actors

\* A message that a queue does not have joins it.
LEMMA EachAppend ==
    ASSUME NEW q \in Seq(Msgs), NEW m \in Msgs, Each(q), m \notin ToSet(q)
    PROVE  Each(Append(q, m)) /\ ToSet(Append(q, m)) = ToSet(q) \cup {m}
  <1> DEFINE r == Append(q, m)
  <1>1. /\ DOMAIN r = 1 .. Len(q) + 1 /\ DOMAIN q = 1 .. Len(q) /\ Len(q) \in Nat
        /\ \A i \in 1 .. Len(q) : r[i] = q[i]
        /\ r[Len(q) + 1] = m
    OBVIOUS
  <1>2. ToSet(r) = ToSet(q) \cup {m}
    BY ToSetAppend
  <1> HIDE DEF r
  <1>3. \A i \in 1 .. Len(q) : r[i] # m
    BY <1>1 DEF ToSet
  <1>4. ASSUME NEW i \in DOMAIN r, NEW j \in DOMAIN r, r[i] = r[j]
        PROVE  i = j
    <2>1. \A k \in DOMAIN r : k \in 1 .. Len(q) \/ k = Len(q) + 1
      BY <1>1
    <2> QED BY <1>1, <1>3, <1>4, <2>1 DEF Each
  <1> QED BY <1>2, <1>4 DEF Each, r

\* The first message of a queue leaves it.
LEMMA EachTail ==
    ASSUME NEW q \in Seq(Msgs), Each(q), q # <<>>
    PROVE  /\ Head(q) \in ToSet(q) /\ Each(Tail(q)) /\ Tail(q) \in Seq(Msgs)
           /\ ToSet(Tail(q)) \subseteq ToSet(q) /\ Head(q) \notin ToSet(Tail(q))
  <1> DEFINE r == Tail(q)
  <1>1. /\ r \in Seq(Msgs) /\ DOMAIN r = 1 .. Len(q) - 1 /\ DOMAIN q = 1 .. Len(q)
        /\ Len(q) \in Nat /\ Len(q) > 0 /\ Head(q) = q[1]
        /\ \A i \in 1 .. Len(q) - 1 : r[i] = q[i + 1]
    OBVIOUS
  <1> HIDE DEF r
  <1>2. \A i \in DOMAIN r : i + 1 \in DOMAIN q /\ i + 1 # 1 /\ r[i] = q[i + 1]
    BY <1>1
  <1>3. 1 \in DOMAIN q
    BY <1>1
  <1>4. ASSUME NEW i \in DOMAIN r, NEW j \in DOMAIN r, r[i] = r[j]
        PROVE  i = j
    BY <1>1, <1>2, <1>4 DEF Each
  <1>5. \A i \in DOMAIN r : r[i] # q[1]
    BY <1>2, <1>3 DEF Each
  <1>6. ToSet(r) \subseteq ToSet(q) /\ q[1] \notin ToSet(r) /\ q[1] \in ToSet(q)
    BY <1>2, <1>3, <1>5 DEF ToSet
  <1> QED BY <1>1, <1>4, <1>6 DEF Each, r

\* Every step keeps the queue as Pending says.
LEMMA PendingStep ==
    ASSUME TypeInv, Waiting, Pending, [Next]_vars
    PROVE  Pending'
  <1>0. /\ steerq \in Seq(Msgs) /\ todo \in [Turns -> Seq(Msgs)] /\ steered \subseteq sent
        /\ shared \subseteq Turns
        /\ pc \in [Turns -> Alive \cup {"unused", "done", "over", "lost"}]
    BY ListTypes DEF TypeInv, Types, AgentTypes, SpliceTypes, Waiting
  <1>1. ToSet(<<>>) = {} /\ Each(<<>>)
    BY DEF ToSet, Each
  <1>2. CASE Quiet
    BY <1>2 DEF Quiet, Pending
  <1>3. CASE Emptied
    <2>1. Each(steerq') /\ ToSet(steerq') = {}
      BY <1>1, <1>3 DEF Emptied
    <2>2. ASSUME NEW t \in Turns
          PROVE  /\ Each(todo'[t]) /\ ToSet(todo'[t]) \subseteq steered'
                 /\ todo'[t] # <<>> \/ t \in shared' => pc'[t] = "splice"
      BY <1>1, <1>3 DEF Emptied, Pending
    <2> QED BY <2>1, <2>2 DEF Pending, Each, ToSet
  <1>4. ASSUME NEW m \in Msgs, Queues(m)
        PROVE  Pending'
    <2>0. /\ steered' = steered \cup {m} /\ m \notin steered /\ UNCHANGED <<shared, pc>>
          /\ steerq' = Append(steerq, m)
          /\ \A t \in Turns : todo'[t] = IF t \in shared THEN Append(todo[t], m) ELSE todo[t]
      BY <1>0, <1>4 DEF Queues, Steering
    <2>1. Each(steerq') /\ ToSet(steerq') = ToSet(steerq) \cup {m}
      BY <1>0, <2>0, EachAppend DEF Pending
    <2>2. ASSUME NEW t \in Turns
          PROVE  /\ Each(todo'[t]) /\ ToSet(todo'[t]) \subseteq ToSet(todo[t]) \cup {m}
                 /\ t \notin shared => todo'[t] = todo[t]
      <3>1. t \in shared => Each(todo'[t]) /\ ToSet(todo'[t]) = ToSet(todo[t]) \cup {m}
        BY <1>0, <2>0, EachAppend DEF Pending
      <3> QED BY <2>0, <3>1 DEF Pending
    <2>3. ASSUME NEW t \in Turns
          PROVE  /\ ToSet(todo'[t]) \subseteq steered'
                 /\ todo'[t] # <<>> \/ t \in shared' => pc'[t] = "splice"
                 /\ todo'[t] # <<>> /\ t \notin shared' =>
                       ToSet(todo'[t]) \cap ToSet(steerq') = {}
      BY <2>0, <2>1, <2>2 DEF Pending
    <2>4. ToSet(steerq') \subseteq steered'
      BY <2>0, <2>1 DEF Pending
    <2> QED BY <2>1, <2>2, <2>3, <2>4 DEF Pending, Each, ToSet
  <1>5. ASSUME NEW t \in Turns, HopStarts(t), steerq # <<>>
        PROVE  Pending'
    <2>0. /\ UNCHANGED <<steerq, steered>> /\ shared' = shared \cup {t} /\ pc'[t] = "splice"
          /\ todo'[t] = Tail(steerq)
          /\ \A u \in Turns : u # t => todo'[u] = todo[u] /\ pc'[u] = pc[u]
      BY <1>0, <1>5 DEF HopStarts, userVars
    <2>1. Each(Tail(steerq)) /\ ToSet(Tail(steerq)) \subseteq ToSet(steerq)
      BY <1>0, <1>5, EachTail DEF Pending
    <2>2. ASSUME NEW u \in Turns
          PROVE  /\ Each(todo'[u]) /\ ToSet(todo'[u]) \subseteq steered'
                 /\ todo'[u] # <<>> \/ u \in shared' => pc'[u] = "splice"
                 /\ todo'[u] # <<>> /\ u \notin shared' =>
                       ToSet(todo'[u]) \cap ToSet(steerq') = {}
      BY <2>0, <2>1 DEF Pending
    <2>3. Each(steerq') /\ ToSet(steerq') \subseteq steered'
      BY <2>0 DEF Pending
    <2> QED BY <2>2, <2>3 DEF Pending, Each, ToSet
  <1>6. ASSUME NEW t \in Turns, SpliceNext(t)
        PROVE  Pending'
    <2>0. /\ UNCHANGED <<steerq, steered, shared, pc>> /\ todo[t] # <<>> /\ pc[t] = "splice"
          /\ todo'[t] = Tail(todo[t])
          /\ \A u \in Turns : u # t => todo'[u] = todo[u]
      BY <1>0, <1>6 DEF SpliceNext, userVars, runVars
    <2>1. Each(Tail(todo[t])) /\ ToSet(Tail(todo[t])) \subseteq ToSet(todo[t])
      BY <1>0, <2>0, EachTail DEF Pending
    <2>2. ASSUME NEW u \in Turns
          PROVE  /\ Each(todo'[u]) /\ ToSet(todo'[u]) \subseteq steered'
                 /\ todo'[u] # <<>> \/ u \in shared' => pc'[u] = "splice"
                 /\ todo'[u] # <<>> /\ u \notin shared' =>
                       ToSet(todo'[u]) \cap ToSet(steerq') = {}
      BY <2>0, <2>1 DEF Pending
    <2>3. Each(steerq') /\ ToSet(steerq') \subseteq steered'
      BY <2>0 DEF Pending
    <2> QED BY <2>2, <2>3 DEF Pending, Each, ToSet
  <1> QED BY <1>2, <1>3, <1>4, <1>5, <1>6, SteeringMoves

\* The repair adds no steering message.
LEMMA HeardClosed ==
    ASSUME NEW S
    PROVE  Closed({e \in Entries : e[1] = "steer" => e[2] \in S})
  <1> DEFINE X == {e \in Entries : e[1] = "steer" => e[2] \in S}
  <1>1. \A e \in X : IsCall(e) => Void(e[2], e[3]) \in X
    BY EntryKinds, Kinds DEF IsCall
  <1>2. /\ \A m \in Msgs : User(m) \in X
        /\ \A t \in Turns : Reply(t) \in X /\ Sorry(t) \in X
    BY MakeEntries, Kinds
  <1> QED BY <1>1, <1>2 DEF Closed

\* Every step keeps the lists within what was accepted.
LEMMA HeardStep ==
    ASSUME TypeInv, Pending, Within(Heard), [Next]_vars
    PROVE  NextWithin({e \in Entries : e[1] = "steer" => e[2] \in steered'})
  <1> DEFINE Y == {e \in Entries : e[1] = "steer" => e[2] \in steered'}
  <1>1. Heard \subseteq Y
    <2>1. steered \subseteq steered'
      BY SteeringMoves DEF Quiet, Emptied, Queues, HopStarts, SpliceNext, userVars
    <2> QED BY <2>1 DEF Heard
  <1>2. Closed(Y)
    BY HeardClosed
  <1>3. hops \in [Turns -> 0 .. MaxHops]
    BY ListTypes
  <1>4. \A t \in Turns : /\ Call(t, hops[t]) \in Y /\ Result(t, hops[t]) \in Y
                         /\ Draft(t, hops[t]) \in Y
    BY <1>3, MakeEntries, Kinds
  <1>5. ASSUME NEW t \in Turns, NEW m \in Msgs, Splices(t, m)
        PROVE  Steer(m) \in Y
    <2>1. m \in steered /\ steered' = steered
      BY <1>5 DEF Splices, Splicing, SplicedNext, HopStarts, SpliceNext, SpliceEnds, Pending,
                  userVars
    <2>2. Steer(m) \in Entries /\ Steer(m)[2] = m
      BY MakeEntries DEF Steer
    <2> QED BY <2>1, <2>2
  <1> HIDE DEF Y
  <1>6. NextWithin(Y)
    BY <1>1, <1>2, <1>4, <1>5, WithinStep
  <1> QED BY <1>6 DEF Y

\* While the queue is not emptied the turns that splice stay aside, and none of
\* their messages gets into another list.
LEMMA AsideStep ==
    ASSUME TypeInv, NEW X, Closed(X), Aside(Seq(X)), [Next]_vars, steerq' # <<>>,
           \A e \in Entries : e[1] # "steer" => e \in X
    PROVE  NextAside(Seq(X))
  <1> DEFINE L == Seq(X)
  <1>0. /\ pc \in [Turns -> Alive \cup {"unused", "done", "over", "lost"}]
        /\ msgs \in [Turns -> Seq(Entries)] /\ hops \in [Turns -> 0 .. MaxHops]
    BY ListTypes
  <1>1. Stable(L) /\ \A q \in L, e \in X : Append(q, e) \in L
    BY ClosedStable
  <1>2. /\ \A t \in Turns : pc[t] # "splice" => msgs[t] \in L
        /\ save \in [Turns -> L] /\ hist \in L \cup {None} /\ Hist \in L /\ <<>> \in L
        /\ disk \in L /\ log \in L /\ writes \subseteq L
    BY <1>1 DEF Aside, Hist, Stable
  <1> HIDE DEF L
  <1>3. ASSUME NEW c \in Conns, Gate(c)
        PROVE  NextAside(L)
    <2>1. UNCHANGED <<msgs, save, hist, disk, log, writes>>
      BY <1>3 DEF Gate, Connect, Disconnect, HangUp, Announced, Stop, WatchdogFires,
                  LoopEnds, SendUser, TurnStarts, taskVars, agentVars, storeVars, runVars
    <2>2. \A t \in Turns : pc'[t] # "splice" => pc[t] # "splice"
      BY <1>0, <1>3 DEF Gate, Connect, Disconnect, HangUp, Announced, Stop, WatchdogFires,
                  LoopEnds, SendUser, TurnStarts, runVars
    <2> QED BY <1>2, <2>1, <2>2 DEF NextAside
  <1>4. ASSUME NEW t \in Turns, TurnOver(t)
        PROVE  NextAside(L)
    <2>1. UNCHANGED <<msgs, save, hist, disk, log, writes>>
      BY <1>4 DEF TurnOver, taskVars, agentVars, storeVars
    <2>2. \A u \in Turns : pc'[u] # "splice" => pc[u] # "splice"
      BY <1>0, <1>4 DEF TurnOver
    <2> QED BY <1>2, <2>1, <2>2 DEF NextAside
  <1>5. ASSUME Else
        PROVE  NextAside(L)
    <2>1. UNCHANGED <<pc, msgs, save, log>> /\ writes' \subseteq writes
      BY <1>5 DEF Else, WriteLands, Rewind, ClearSession, Crash, Unqueue, StoreFails,
                  StoreServes, vars, taskVars, runVars, agentVars
    <2>2. hist' \in L \cup {None} /\ disk' \in L
      <3>1. CASE \E q \in writes : WriteLands(q)
        BY <1>2, <3>1 DEF WriteLands, Saves, agentVars
      <3>2. CASE \E i \in DOMAIN cps : Rewind(i)
        <4>1. PICK i \in DOMAIN cps : Rewind(i)
          BY <3>2
        <4>2. Len(Hist) \in Nat /\ cps[i].len \in Nat
          BY ListTypes
        <4>3. (IF cps[i].len < Len(Hist) THEN cps[i].len ELSE Len(Hist)) \in 0 .. Len(Hist)
          BY <4>2
        <4> QED BY <1>1, <1>2, <4>1, <4>3 DEF Rewind, Saves, Stable
      <3>3. CASE ClearSession \/ Crash
        BY <3>3 DEF ClearSession, Crash, Unqueue
      <3>4. CASE StoreFails \/ StoreServes \/ UNCHANGED vars
        BY <1>2, <3>4 DEF StoreFails, StoreServes, vars, agentVars
      <3> QED BY <1>5, <3>1, <3>2, <3>3, <3>4 DEF Else
    <2>3. save' \in [Turns -> L] /\ log' \in L /\ writes' \subseteq L
      BY <1>2, <2>1
    <2>4. \A t \in Turns : pc'[t] # "splice" => msgs'[t] \in L
      BY <1>2, <2>1
    <2> QED BY <2>2, <2>3, <2>4 DEF NextAside
  <1>6. ASSUME NEW t \in Turns, Works(t)
        PROVE  NextAside(L)
    <2>0. /\ \A u \in Turns : u # t => pc'[u] = pc[u]
          /\ ~SpliceEnds(t) /\ \A ok \in BOOLEAN : ~Leave(t, ok)
      <3>1. pc' = [pc EXCEPT ![t] = pc'[t]]
        BY <1>6, TurnMoves
      <3>2. ~SpliceEnds(t) /\ \A ok \in BOOLEAN : ~Leave(t, ok)
        BY DEF SpliceEnds, Leave, Unqueue
      <3> QED BY <1>0, <3>1, <3>2
    <2>1. CASE HopStarts(t) \/ SpliceNext(t)
      <3>1. /\ UNCHANGED <<save, hist, disk, log, writes>>
            /\ pc'[t] = "splice" \/ (msgs' = msgs /\ pc[t] # "splice")
        BY <1>0, <2>1 DEF HopStarts, SpliceNext, storeVars, runVars
      <3>2. \A u \in Turns : u # t => msgs'[u] = msgs[u]
        BY <1>0, <2>1 DEF HopStarts, SpliceNext, Splice
      <3> QED BY <1>2, <2>0, <3>1, <3>2 DEF NextAside
    <2>2. CASE Begin(t)
      <3>1. UNCHANGED <<msgs, save, hist, disk, log, writes>> /\ pc[t] # "splice"
        BY <2>2 DEF Begin, taskVars, storeVars
      <3> QED BY <1>2, <2>0, <3>1 DEF NextAside
    <2>3. CASE Load(t)
      <3>1. user[t] \in Msgs
        BY <2>3 DEF Load, TypeInv, TurnData
      <3>2. log' \in L
        BY <1>1, <1>2, <2>3, <3>1 DEF Load, Stable
      <3>3. Mended(log') \in L
        BY <1>1, <3>2 DEF Stable
      <3>4. hist' \in L \cup {None}
        BY <1>2, <2>3, <3>3 DEF Load
      <3>5. UNCHANGED <<msgs, save, disk, writes>> /\ pc[t] # "splice"
        BY <2>3 DEF Load, taskVars
      <3> QED BY <1>2, <2>0, <3>2, <3>4, <3>5 DEF NextAside
    <2>4. CASE Prepare(t)
      <3>1. user[t] \in Msgs
        BY <2>4 DEF Prepare, TypeInv, TurnData
      <3>2. Append(Hist, User(user[t])) \in L
        BY <1>1, <1>2, <3>1 DEF Stable
      <3>3. /\ UNCHANGED <<save, hist, disk, log, writes>>
            /\ msgs' = [msgs EXCEPT ![t] = Append(Hist, User(user[t]))]
        BY <2>4 DEF Prepare, storeVars
      <3>4. \A u \in Turns : pc'[u] # "splice" => msgs'[u] \in L
        BY <1>0, <1>2, <2>0, <3>2, <3>3
      <3> QED BY <1>2, <3>3, <3>4 DEF NextAside
    <2>5. CASE Outcome(t) /\ ~Fails(t)
      <3>1. PICK e \in X :
              /\ msgs' = [msgs EXCEPT ![t] = Append(msgs[t], e)]
              /\ log' = Append(log, e)
        <4>1. /\ Call(t, hops[t]) \in X /\ Result(t, hops[t]) \in X
              /\ Draft(t, hops[t]) \in X /\ Reply(t) \in X
          BY <1>0, MakeEntries, Kinds
        <4> QED BY <2>5, <4>1 DEF Outcome, LlmCalls, ToolReturns, LlmAnswers, LlmDrafts
      <3>2. /\ hist' = hist \/ hist' = msgs'[t]
            /\ UNCHANGED <<save, disk, writes>> /\ pc[t] # "splice"
        BY <2>5 DEF Outcome, LlmCalls, ToolReturns, LlmAnswers, LlmDrafts, agentVars
      <3>3. log' \in L /\ msgs'[t] \in L
        BY <1>0, <1>1, <1>2, <3>1, <3>2
      <3>4. \A u \in Turns : pc'[u] # "splice" => msgs'[u] \in L
        BY <1>0, <1>2, <2>0, <3>1, <3>3
      <3> QED BY <1>2, <3>2, <3>3, <3>4 DEF NextAside
    <2>6. CASE Saved(t)
      <3>1. hist' \in {hist, msgs[t]} /\ disk' \in {disk, msgs[t]} /\ pc[t] # "splice"
            /\ UNCHANGED <<msgs, save, log, writes>>
        BY <2>6 DEF Saved, Saves, taskVars
      <3> QED BY <1>2, <2>0, <3>1 DEF NextAside
    <2>7. CASE RecoverySaved(t) \/ Ends(t)
      <3>1. PICK x \in L : save' = [save EXCEPT ![t] = x]
        BY <1>2, <2>7 DEF RecoverySaved, Ends, Done
      <3>2. UNCHANGED <<msgs, hist, log, writes>> /\ disk' \in {disk, save[t]} /\ pc[t] # "splice"
        BY <2>7 DEF RecoverySaved, Ends, Saves, taskVars, agentVars
      <3> QED BY <1>2, <2>0, <3>1, <3>2 DEF NextAside
    <2>8. CASE Killed(t)
      <3>1. /\ pc[t] \in Ending /\ save' = [save EXCEPT ![t] = <<>>]
            /\ UNCHANGED <<msgs, hist, disk, log>>
        BY <2>0, <2>8 DEF Killed, Done, taskVars
      <3>2. writes' \subseteq writes \cup {save[t]}
        BY <2>8, <3>1 DEF Killed, Ending
      <3>3. pc[t] # "splice"
        BY <3>1 DEF Ending
      <3> QED BY <1>2, <2>0, <3>1, <3>2, <3>3 DEF NextAside
    <2>9. CASE HopRefused(t) \/ ToolCancelled(t) \/ Returns(t) \/ Fails(t)
      BY <2>0, <2>9 DEF HopRefused, ToolCancelled, Returns, Fails
    <2> QED BY <1>6, <2>0, <2>1, <2>2, <2>3, <2>4, <2>5, <2>6, <2>7, <2>8, <2>9
            DEF Works, TurnStep, Outcome
  <1> QED BY <1>3, <1>4, <1>5, <1>6, Actors DEF L

\* A message of the queue is in no list without messages of the queue.
LEMMA NotFresh ==
    ASSUME NEW q \in Seq(Fresh), NEW m \in ToSet(steerq)
    PROVE  Steer(m) \notin ToSet(q)
  <1>1. \A i \in DOMAIN q : q[i] \in Fresh
    OBVIOUS
  <1>2. Steer(m)[1] = "steer" /\ Steer(m)[2] = m
    BY DEF Steer
  <1> QED BY <1>1, <1>2 DEF Fresh, ToSet

\* Lists of which every message is of two sets.
LEMMA SeqBoth ==
    ASSUME NEW X, NEW Y, NEW Z, X \cap Y \subseteq Z, NEW q \in Seq(X), q \in Seq(Y)
    PROVE  q \in Seq(Z)
  OBVIOUS

\* Every step keeps the messages of the queue out of the lists, and the ones a turn
\* has yet to splice out of its own.
LEMMA ApartStep ==
    ASSUME TypeInv, Waiting, Pending, Apart, [Next]_vars
    PROVE  Apart'
  <1> DEFINE Y == {e \in Entries : e[1] = "steer" => e[2] \notin ToSet(steerq')}
             H == {e \in Entries : e[1] = "steer" => e[2] \in steered'}
  <1>0. /\ steerq \in Seq(Msgs) /\ todo \in [Turns -> Seq(Msgs)] /\ steered \subseteq sent
        /\ msgs \in [Turns -> Seq(Entries)]
        /\ pc \in [Turns -> Alive \cup {"unused", "done", "over", "lost"}]
        /\ \A t \in Turns : msgs[t] \in Seq(Heard)
    BY ListTypes DEF TypeInv, Types, AgentTypes, SpliceTypes, Waiting, Apart, Within, Lists
  <1>1. NextWithin(H)
    BY HeardStep DEF Apart
  <1>2. SUFFICES /\ NextAside(Seq(Y))
                 /\ \A t \in Turns : t \notin shared' => msgs'[t] \in Seq(Y)
                 /\ \A t \in Turns : \A m \in ToSet(todo'[t]) : Steer(m) \notin ToSet(msgs'[t])
    <2>1. Within(Heard)'
      BY <1>1 DEF Within, NextWithin, Lists, NextLists, Heard
    <2>2. Aside(Seq(Fresh))'
      BY <1>2 DEF Aside, NextAside, Fresh, ToSet
    <2>3. \A t \in Turns : t \notin shared' => msgs'[t] \in Seq(Fresh')
      BY <1>2 DEF Fresh, ToSet
    <2> QED BY <1>2, <2>1, <2>2, <2>3 DEF Apart, ToSet
  <1>3. ASSUME steerq' = <<>>
        PROVE  /\ NextAside(Seq(Y))
               /\ \A t \in Turns : t \notin shared' => msgs'[t] \in Seq(Y)
    <2>1. Entries = Y
      BY <1>3 DEF ToSet
    <2>2. /\ \A t \in Turns : msgs'[t] \in Seq(Entries)
          /\ save' \in [Turns -> Seq(Entries)] /\ hist' \in Seq(Entries) \cup {None}
          /\ disk' \in Seq(Entries) /\ log' \in Seq(Entries) /\ writes' \subseteq Seq(Entries)
      BY TypeStep DEF TypeInv, Types, TaskTypes, RunTypes, AgentTypes, StoreTypes
    <2> HIDE DEF Y
    <2> QED BY <2>1, <2>2 DEF NextAside
  <1>4. CASE \E m \in Msgs : Queues(m)
    <2>1. PICK m \in Msgs : Queues(m)
      BY <1>4
    <2>2. /\ m \notin steered /\ ToSet(steerq') = ToSet(steerq) \cup {m}
          /\ UNCHANGED <<shared, pc, msgs, save, hist, disk, log, writes>>
      BY <1>0, <2>1, ToSetAppend DEF Queues, Steering
    <2>3. Heard \cap Fresh \subseteq Y
      BY <2>2 DEF Heard, Fresh
    <2> HIDE DEF Y
    <2>4. \A q : q \in Seq(Heard) /\ q \in Seq(Fresh) => q \in Seq(Y)
      BY <2>3, SeqBoth
    <2> DEFINE LH == Seq(Heard)
               LF == Seq(Fresh)
               LY == Seq(Y)
    <2>5. LH \cap LF \subseteq LY
      BY <2>4
    <2>6. /\ \A t \in Turns : msgs[t] \in LH /\ save[t] \in LH /\ save[t] \in LF
          /\ hist \in LH \cup {None} /\ hist \in LF \cup {None} /\ disk \in LH \cap LF
          /\ log \in LH \cap LF /\ writes \subseteq LH \cap LF
          /\ \A t \in Turns : t \notin shared => msgs[t] \in LF
          /\ \A t \in Turns : pc[t] # "splice" => msgs[t] \in LF
          /\ save \in [Turns -> LF]
      BY DEF Apart, Within, Lists, Aside
    <2> HIDE DEF LH, LF, LY
    <2>7. save' \in [Turns -> LY]
      BY <2>2, <2>5, <2>6
    <2>8. NextAside(LY) /\ \A t \in Turns : t \notin shared' => msgs'[t] \in LY
      BY <2>2, <2>5, <2>6, <2>7 DEF NextAside
    <2>9. \A t \in Turns : Steer(m) \notin ToSet(msgs[t])
      <3>1. \A t \in Turns : \A i \in DOMAIN msgs[t] : msgs[t][i] \in Heard
        BY <1>0, Beginning
      <3>2. Steer(m)[1] = "steer" /\ Steer(m)[2] = m
        BY DEF Steer
      <3> QED BY <2>2, <3>1, <3>2 DEF Heard, ToSet
    <2>10. \A t \in Turns : ToSet(todo'[t]) \subseteq ToSet(todo[t]) \cup {m}
      <3>1. \A t \in Turns : todo'[t] \in {todo[t], Append(todo[t], m)}
        BY <1>0, <2>1 DEF Queues, Steering
      <3>2. \A t \in Turns : ToSet(Append(todo[t], m)) = ToSet(todo[t]) \cup {m}
        BY <1>0, ToSetAppend
      <3> QED BY <3>1, <3>2
    <2>11. \A t \in Turns : \A x \in ToSet(todo'[t]) : Steer(x) \notin ToSet(msgs'[t])
      BY <2>2, <2>9, <2>10 DEF Apart
    <2> QED BY <2>8, <2>11 DEF LY
  <1>5. ASSUME steerq' = steerq, steerq # <<>>
        PROVE  NextAside(Seq(Y))
    <2>1. Y = Fresh
      BY <1>5 DEF Fresh
    <2>2. Closed(Fresh)
      <3> DEFINE S == Msgs \ ToSet(steerq)
      <3>1. Fresh = {e \in Entries : e[1] = "steer" => e[2] \in S}
        BY EntryKinds DEF Fresh
      <3> HIDE DEF S
      <3> QED BY <3>1, HeardClosed
    <2>3. \A e \in Entries : e[1] # "steer" => e \in Fresh
      BY DEF Fresh
    <2> HIDE DEF Y
    <2>4. NextAside(Seq(Fresh))
      BY <1>5, <2>2, <2>3, AsideStep DEF Apart
    <2> QED BY <2>1, <2>4
  <1>6. ASSUME Quiet, steerq # <<>>
        PROVE  /\ NextAside(Seq(Y))
               /\ \A t \in Turns : t \notin shared' => msgs'[t] \in Seq(Y)
    <2>1. Y = Fresh
      BY <1>6 DEF Fresh, Quiet
    <2>2. NextAside(Seq(Y))
      BY <1>5, <1>6 DEF Quiet
    <2> HIDE DEF Y
    <2>3. \A t \in Turns : t \notin shared' => msgs'[t] \in Seq(Y)
      BY <1>6, <2>1, <2>2 DEF Quiet, NextAside, Apart
    <2> QED BY <2>2, <2>3
  <1>7. ASSUME NEW t \in Turns, (HopStarts(t) /\ steerq # <<>>) \/ SpliceNext(t), steerq # <<>>
        PROVE  /\ NextAside(Seq(Y))
               /\ \A u \in Turns : u \notin shared' => msgs'[u] \in Seq(Y)
    <2>1. steerq' = steerq /\ Y = Fresh
      BY <1>7 DEF HopStarts, SpliceNext, Fresh
    <2>2. NextAside(Seq(Y))
      BY <1>5, <1>7, <2>1
    <2> HIDE DEF Y
    <2>3. \A u \in Turns : u # t => msgs'[u] = msgs[u] /\ todo'[u] = todo[u]
      BY <1>0, <1>7 DEF HopStarts, SpliceNext, Splice
    <2>4. /\ shared \subseteq shared' 
          /\ t \notin shared' => msgs'[t] \in Seq(Y)
      <3>1. CASE HopStarts(t) /\ steerq # <<>>
        BY <3>1 DEF HopStarts
      <3>2. CASE SpliceNext(t)
        <4>1. shared' = shared /\ todo[t] # <<>> /\ todo[t] \in Seq(Msgs)
              /\ msgs'[t] = Append(msgs[t], Steer(Head(todo[t])))
          BY <1>0, <3>2 DEF SpliceNext, Splice
        <4>2. Head(todo[t]) \in ToSet(todo[t]) /\ Head(todo[t]) \in Msgs
          BY <4>1 DEF ToSet
        <4>3. t \notin shared => Head(todo[t]) \notin ToSet(steerq)
          BY <4>1, <4>2 DEF Pending
        <4>4. Steer(Head(todo[t])) \in Entries /\ Steer(Head(todo[t]))[2] = Head(todo[t])
          BY <4>2, MakeEntries DEF Steer
        <4>5. t \notin shared => Steer(Head(todo[t])) \in Fresh
          BY <4>3, <4>4 DEF Fresh
        <4>6. \A q \in Seq(Fresh), e \in Fresh : Append(q, e) \in Seq(Fresh)
          OBVIOUS
        <4>7. t \notin shared => msgs[t] \in Seq(Fresh)
          BY DEF Apart
        <4> QED BY <2>1, <4>1, <4>5, <4>6, <4>7
      <3> QED BY <1>7, <3>1, <3>2
    <2>5. \A u \in Turns : u \notin shared' => msgs'[u] \in Seq(Y)
      BY <2>1, <2>3, <2>4 DEF Apart
    <2> QED BY <2>2, <2>5
  <1>8. CASE Quiet
    <2>1. \A t \in Turns : todo'[t] = todo[t] /\ (todo[t] # <<>> => msgs'[t] = msgs[t])
      BY <1>8 DEF Quiet, Pending
    <2>2. ToSet(<<>>) = {}
      BY DEF ToSet
    <2>3. \A t \in Turns : \A m \in ToSet(todo'[t]) : Steer(m) \notin ToSet(msgs'[t])
      BY <2>1, <2>2 DEF Apart
    <2> QED BY <1>3, <1>6, <1>8, <2>3 DEF Quiet
  <1>9. CASE Emptied
    <2>1. \A t \in Turns : \/ todo'[t] = <<>>
                           \/ todo'[t] = todo[t] /\ msgs'[t] = msgs[t]
      BY <1>9 DEF Emptied
    <2>2. ToSet(<<>>) = {}
      BY DEF ToSet
    <2>3. \A t \in Turns : \A m \in ToSet(todo'[t]) : Steer(m) \notin ToSet(msgs'[t])
      BY <2>1, <2>2 DEF Apart
    <2> QED BY <1>3, <1>9, <2>3 DEF Emptied
  <1>10. ASSUME NEW t \in Turns, (HopStarts(t) /\ steerq # <<>>) \/ SpliceNext(t)
         PROVE  /\ NextAside(Seq(Y))
                /\ \A u \in Turns : u \notin shared' => msgs'[u] \in Seq(Y)
                /\ \A u \in Turns : \A m \in ToSet(todo'[u]) : Steer(m) \notin ToSet(msgs'[u])
    <2>1. /\ steerq' = steerq
          /\ \A u \in Turns : u # t => msgs'[u] = msgs[u] /\ todo'[u] = todo[u]
      BY <1>0, <1>10 DEF HopStarts, SpliceNext, Splice
    <2>2. \A m \in ToSet(todo'[t]) : Steer(m) \notin ToSet(msgs'[t])
      <3>1. PICK q \in Seq(Msgs) :
               /\ q # <<>> /\ Each(q) /\ todo'[t] = Tail(q)
               /\ msgs'[t] = Append(msgs[t], Steer(Head(q)))
               /\ \A m \in ToSet(q) : Steer(m) \notin ToSet(msgs[t])
        <4>1. CASE HopStarts(t) /\ steerq # <<>>
          <5>1. pc[t] # "splice" /\ todo'[t] = Tail(steerq)
                /\ msgs'[t] = Append(msgs[t], Steer(Head(steerq)))
            BY <1>0, <4>1 DEF HopStarts, Splice
          <5>2. msgs[t] \in Seq(Fresh)
            BY <5>1 DEF Apart, Aside
          <5>3. \A m \in ToSet(steerq) : Steer(m) \notin ToSet(msgs[t])
            BY <5>2, NotFresh
          <5> QED BY <1>0, <4>1, <5>1, <5>3 DEF Pending
        <4>2. CASE SpliceNext(t)
          <5>1. todo[t] # <<>> /\ todo'[t] = Tail(todo[t])
                /\ msgs'[t] = Append(msgs[t], Steer(Head(todo[t])))
            BY <1>0, <4>2 DEF SpliceNext, Splice
          <5> QED BY <1>0, <5>1 DEF Pending, Apart
        <4> QED BY <1>10, <4>1, <4>2
      <3>2. /\ ToSet(Tail(q)) \subseteq ToSet(q) /\ Head(q) \notin ToSet(Tail(q)) /\ Head(q) \in Msgs
        BY <3>1, EachTail
      <3>3. ToSet(msgs'[t]) = ToSet(msgs[t]) \cup {Steer(Head(q))}
        <4>1. Steer(Head(q)) \in Entries
          BY <3>2, MakeEntries
        <4> HIDE DEF Steer
        <4> QED BY <1>0, <3>1, <4>1, ToSetAppend
      <3>4. \A m : Steer(m) = Steer(Head(q)) => m = Head(q)
        BY DEF Steer
      <3> QED BY <3>1, <3>2, <3>3, <3>4
    <2>3. \A u \in Turns : \A m \in ToSet(todo'[u]) : Steer(m) \notin ToSet(msgs'[u])
      BY <2>1, <2>2 DEF Apart
    <2> QED BY <1>3, <1>7, <1>10, <2>1, <2>3
  <1> QED BY <1>4, <1>8, <1>9, <1>10, SteeringMoves

\* A message that is not steering keeps a list without repetition.
LEMMA OnceAppend ==
    ASSUME NEW q \in OnceLists, NEW e \in Entries, e[1] # "steer"
    PROVE  Append(q, e) \in OnceLists
  BY SteersAppend DEF OnceLists

\* Cutting, repairing and finishing a list repeats no steering message.
LEMMA OnceStable == Stable(OnceLists)
  <1>1. OnceLists \subseteq Seq(Entries) /\ <<>> \in OnceLists
    BY DEF OnceLists, SteersOnce
  <1>2. ASSUME NEW q \in OnceLists
        PROVE  Mended(q) \in OnceLists
    <2>1. q \in Seq(Entries) /\ SteersOnce(q)
      BY DEF OnceLists
    <2>2. Mended(q) \in Seq(Entries)
      BY <2>1, MendedElems
    <2>3. SteersOnce(Mended(q))
      BY <2>1, MendedSteers
    <2> QED BY <2>2, <2>3 DEF OnceLists
  <1>3. ASSUME NEW q \in OnceLists, NEW n \in 0 .. Len(q)
        PROVE  SubSeq(q, 1, n) \in OnceLists
    <2>1. q \in Seq(Entries) /\ SteersOnce(q) /\ Len(q) \in Nat
      BY DEF OnceLists
    <2> DEFINE r == SubSeq(q, 1, n)
    <2>2. /\ r \in Seq(Entries) /\ DOMAIN r = 1 .. n
          /\ \A i \in 1 .. n : i \in DOMAIN q /\ r[i] = q[i]
      BY <2>1
    <2> HIDE DEF r
    <2>3. SteersOnce(r)
      BY <2>1, <2>2 DEF SteersOnce
    <2> QED BY <2>2, <2>3 DEF OnceLists, r
  <1>4. \A q \in OnceLists, m \in Msgs : Append(q, User(m)) \in OnceLists
    BY OnceAppend, MakeEntries, Kinds
  <1>5. \A q \in OnceLists, t \in Turns : /\ Append(q, Reply(t)) \in OnceLists
                                          /\ Append(q, Sorry(t)) \in OnceLists
    BY OnceAppend, MakeEntries, Kinds
  <1> QED BY <1>1, <1>2, <1>3, <1>4, <1>5 DEF Stable

\* No step puts a steering message into a list that has it.
LEMMA OnceListsStep ==
    ASSUME TypeInv, Apart, Lists(OnceLists), [Next]_vars
    PROVE  NextLists(OnceLists)
  <1>0. /\ hops \in [Turns -> 0 .. MaxHops] /\ steerq \in Seq(Msgs)
        /\ \A t \in Turns : msgs[t] \in OnceLists /\ log \in OnceLists
    BY DEF TypeInv, Types, TaskTypes, AgentTypes, Lists
  <1>1. ASSUME NEW t \in Turns
        PROVE  /\ Append(msgs[t], Call(t, hops[t])) \in OnceLists
               /\ Append(log, Call(t, hops[t])) \in OnceLists
               /\ Append(msgs[t], Result(t, hops[t])) \in OnceLists
               /\ Append(log, Result(t, hops[t])) \in OnceLists
               /\ Append(msgs[t], Draft(t, hops[t])) \in OnceLists
               /\ Append(log, Draft(t, hops[t])) \in OnceLists
    <2>1. /\ Call(t, hops[t]) \in Entries /\ Result(t, hops[t]) \in Entries
          /\ Draft(t, hops[t]) \in Entries
      BY <1>0, MakeEntries
    <2> QED BY <1>0, <2>1, OnceAppend, Kinds
  <1>2. ASSUME NEW t \in Turns, NEW m \in Msgs, Splices(t, m)
        PROVE  Append(msgs[t], Steer(m)) \in OnceLists
    <2>1. CASE pc[t] = "hop" /\ m \in ToSet(steerq)
      <3>1. msgs[t] \in Seq(Fresh)
        BY <2>1 DEF Apart, Aside
      <3>2. Steer(m) \notin ToSet(msgs[t])
        BY <2>1, <3>1, NotFresh
      <3> QED BY <1>0, <3>2, MakeEntries, SteersAppend DEF OnceLists
    <2>2. CASE pc[t] = "splice" /\ m \in ToSet(todo[t])
      <3>1. Steer(m) \notin ToSet(msgs[t])
        BY <2>2 DEF Apart
      <3> QED BY <1>0, <3>1, MakeEntries, SteersAppend DEF OnceLists
    <2> QED BY <1>2, <2>1, <2>2 DEF Splices, SplicedNext
  <1> QED BY <1>1, <1>2, OnceStable, ListsStep

\* As long as the turns run one at a time, only one splices.
LEMMA SplicesAlone ==
    ASSUME TypeInv, Control, Pending, used["overlap"] = 0,
           NEW t \in Turns, pc[t] \in {"hop", "splice"}
    PROVE  /\ \A u \in Turns : u # t => todo[u] = <<>> /\ u \notin shared
           /\ pc[t] = "hop" => shared = {} /\ todo[t] = <<>>
  <1>1. active = t /\ \A u \in Turns : pc[u] = "splice" => active = u
    BY DEF Control, Sole, Alive, Working
  <1>2. shared \subseteq Turns
    BY DEF TypeInv, SpliceTypes
  <1> QED BY <1>1, <1>2 DEF Pending

\* Every step keeps what was spliced as Singly says.
LEMMA SinglyStep ==
    ASSUME TypeInv, Control, Waiting, Pending, Singly, [Next]_vars
    PROVE  Singly'
  <1>0. /\ steerq \in Seq(Msgs) /\ todo \in [Turns -> Seq(Msgs)] /\ steered \subseteq sent
        /\ used'["overlap"] = 0 => used["overlap"] = 0
    BY Remembered DEF TypeInv, Types, AgentTypes, SpliceTypes, Waiting
  <1>1. ToSet(<<>>) = {}
    BY DEF ToSet
  <1>2. CASE Quiet
    BY <1>0, <1>2 DEF Quiet, Singly
  <1>3. CASE Emptied
    <2>1. /\ UNCHANGED <<steered, spliced>> /\ ToSet(steerq') = {}
          /\ \A t \in Turns : ToSet(todo'[t]) \subseteq ToSet(todo[t])
      BY <1>1, <1>3 DEF Emptied
    <2> QED BY <1>0, <2>1 DEF Singly, ToSet
  <1>4. ASSUME NEW m \in Msgs, Queues(m)
        PROVE  Singly'
    <2>1. /\ m \notin steered /\ steered' = steered \cup {m} /\ UNCHANGED <<spliced, shared>>
          /\ ToSet(steerq') = ToSet(steerq) \cup {m}
      BY <1>0, <1>4, ToSetAppend DEF Queues, Steering
    <2>2. \A t \in Turns : ToSet(todo'[t]) \subseteq ToSet(todo[t]) \cup {m}
      <3>1. \A t \in Turns : todo'[t] \in {todo[t], Append(todo[t], m)}
        BY <1>0, <1>4 DEF Queues, Steering
      <3>2. \A t \in Turns : ToSet(Append(todo[t], m)) = ToSet(todo[t]) \cup {m}
        BY <1>0, ToSetAppend
      <3> QED BY <3>1, <3>2
    <2>3. \A x \in spliced : x[2] # m
      BY <2>1 DEF Singly
    <2>4. \A x \in spliced' : x[2] \in steered'
      BY <2>1 DEF Singly
    <2>5. used'["overlap"] = 0 =>
             /\ \A x, y \in spliced' : x[2] = y[2] => x = y
             /\ \A x \in spliced' : x[2] \in ToSet(steerq') => x[1] \in shared'
             /\ \A x \in spliced' : \A u \in Turns : x[2] \notin ToSet(todo'[u])
      <3>1. \A u \in Turns : \A y \in ToSet(todo'[u]) : y \in ToSet(todo[u]) \/ y = m
        BY <2>2
      <3> QED BY <1>0, <2>1, <2>3, <3>1 DEF Singly
    <2> QED BY <2>4, <2>5 DEF Singly, ToSet
  <1>5. ASSUME NEW t \in Turns, (HopStarts(t) /\ steerq # <<>>) \/ SpliceNext(t)
        PROVE  Singly'
    <2>1. PICK q \in Seq(Msgs) :
             /\ q # <<>> /\ Each(q) /\ ToSet(q) \subseteq steered /\ todo'[t] = Tail(q)
             /\ spliced' = spliced \cup {<<t, Head(q)>>}
             /\ used["overlap"] = 0 =>
                   /\ \A x \in spliced : x[2] \notin ToSet(q)
                   /\ Head(q) \in ToSet(steerq) => t \in shared'
                   /\ \A x \in spliced : x[2] \in ToSet(steerq) => x[1] \in shared'
      <3>1. CASE HopStarts(t) /\ steerq # <<>>
        <4>1. /\ pc[t] = "hop" /\ todo'[t] = Tail(steerq) /\ shared' = shared \cup {t}
              /\ spliced' = spliced \cup {<<t, Head(steerq)>>}
          BY <1>0, <3>1 DEF HopStarts, Splice
        <4>2. used["overlap"] = 0 => \A x \in spliced : x[2] \notin ToSet(steerq)
          BY <4>1, SplicesAlone DEF Singly
        <4> QED BY <1>0, <3>1, <4>1, <4>2 DEF Pending
      <3>2. CASE SpliceNext(t)
        <4>1. /\ todo[t] # <<>> /\ todo'[t] = Tail(todo[t]) /\ shared' = shared
              /\ spliced' = spliced \cup {<<t, Head(todo[t])>>}
          BY <1>0, <3>2 DEF SpliceNext, Splice
        <4>2. Head(todo[t]) \in ToSet(steerq) => t \in shared
          BY <1>0, <4>1, EachTail DEF Pending
        <4> QED BY <1>0, <4>1, <4>2 DEF Pending, Singly
      <3> QED BY <1>5, <3>1, <3>2
    <2>2. /\ Head(q) \in ToSet(q) /\ ToSet(Tail(q)) \subseteq ToSet(q)
          /\ Head(q) \notin ToSet(Tail(q))
      BY <2>1, EachTail
    <2>3. /\ UNCHANGED <<steered, steerq, used>> /\ pc[t] \in {"hop", "splice"}
          /\ \A u \in Turns : u # t => todo'[u] = todo[u]
      BY <1>0, <1>5 DEF HopStarts, SpliceNext, userVars
    <2>4. \A x \in spliced' : x \in spliced \/ (x[1] = t /\ x[2] = Head(q) /\ x = <<t, Head(q)>>)
      BY <2>1
    <2>5. \A x \in spliced' : x[2] \in steered'
      BY <2>1, <2>2, <2>3, <2>4 DEF Singly
    <2>6. ASSUME used["overlap"] = 0
          PROVE  /\ \A x, y \in spliced' : x[2] = y[2] => x = y
                 /\ \A x \in spliced' : x[2] \in ToSet(steerq') => x[1] \in shared'
                 /\ \A x \in spliced' : \A u \in Turns : x[2] \notin ToSet(todo'[u])
      <3>1. \A x, y \in spliced : x[2] = y[2] => x = y
        BY <2>6 DEF Singly
      <3>2. \A x \in spliced : x[2] # Head(q)
        BY <2>1, <2>2, <2>6
      <3>3. \A x, y \in spliced' : x[2] = y[2] => x = y
        BY <2>4, <3>1, <3>2
      <3>4. \A x \in spliced' : x[2] \in ToSet(steerq') => x[1] \in shared'
        BY <2>1, <2>3, <2>4, <2>6
      <3>5. \A u \in Turns : u # t => ToSet(todo'[u]) = {}
        BY <1>1, <2>3, <2>6, SplicesAlone
      <3>6. \A x \in spliced' : x[2] \notin ToSet(todo'[t])
        BY <2>1, <2>2, <2>4, <2>6
      <3> QED BY <3>3, <3>4, <3>5, <3>6
    <2>7. used'["overlap"] = 0 =>
             /\ \A x, y \in spliced' : x[2] = y[2] => x = y
             /\ \A x \in spliced' : x[2] \in ToSet(steerq') => x[1] \in shared'
             /\ \A x \in spliced' : \A u \in Turns : x[2] \notin ToSet(todo'[u])
      BY <1>0, <2>6
    <2> QED BY <2>5, <2>7 DEF Singly, ToSet
  <1> QED BY <1>2, <1>3, <1>4, <1>5, SteeringMoves

\* Messages of the user are always where Once says.
LEMMA OnceCorrect == Spec => []Once
  <1>1. Init => Once
    <2> SUFFICES ASSUME Init PROVE Once
      OBVIOUS
    <2>1. \A X : <<>> \in Seq(X)
      OBVIOUS
    <2>2. DOMAIN <<>> = {} /\ ToSet(<<>>) = {}
      BY DEF ToSet
    <2>3. Waiting /\ Queued /\ Distinct
      BY <2>2 DEF Init, Waiting, Queued, Distinct
    <2>4. Pending /\ Singly
      BY <2>2 DEF Init, Pending, Singly, Each
    <2>5. Apart
      <3>1. Within(Heard)
        BY <2>1 DEF Init, Within, Lists
      <3>2. Aside(Seq(Fresh)) /\ \A t \in Turns : msgs[t] \in Seq(Fresh)
        BY <2>1 DEF Init, Aside
      <3> QED BY <2>2, <3>1, <3>2 DEF Init, Apart
    <2>6. Lists(OnceLists)
      <3>1. <<>> \in OnceLists
        BY OnceStable DEF Stable
      <3> QED BY <3>1 DEF Init, Lists
    <2> QED BY <2>3, <2>4, <2>5, <2>6 DEF Once
  <1>2. TypeInv /\ Control /\ Once /\ [Next]_vars => Once'
    <2> SUFFICES ASSUME TypeInv, Control, Once, [Next]_vars PROVE Once'
      OBVIOUS
    <2>1. Waiting' /\ Queued' /\ Distinct' /\ Pending' /\ Apart' /\ Singly'
      BY WaitingStep, QueuedStep, PendingStep, ApartStep, SinglyStep DEF Once
    <2>2. NextLists(OnceLists)
      BY OnceListsStep DEF Once
    <2>3. Lists(OnceLists)'
      BY <2>2 DEF NextLists, Lists, OnceLists
    <2> QED BY <2>1, <2>3 DEF Once
  <1>3. Spec => []TypeInv
    BY TypeInit, TypeStep, PTL DEF Spec
  <1> QED BY <1>1, <1>2, <1>3, ControlCorrect, PTL DEF Spec

\* What the user typed starts a turn or is spliced into one, and once into each:
\* through overlapping turns, stops, kills, rewinds, deletions and restarts, only
\* the watchdog's requeue makes a turn of a message that was taken as steering, and
\* no turn has a message twice though the queue is spliced message by message and
\* takes others meanwhile (hop_loop.py:555-568).  Turns that run one at a time do
\* not splice a message of another's either.
THEOREM TakenUpOnce == Spec => []TakenOnce
  <1>1. ASSUME TypeInv, Once
        PROVE  TakenOnce
    <2>1. steered \subseteq Msgs /\ None \notin Msgs /\ Turns \subseteq Nat
      BY <1>1, ConstantsAssumption DEF TypeInv, Types, UserTypes, Turns
    <2>2. \A t \in Turns : user[t] \in steered => user[t] \in requeued
      BY <1>1, <2>1 DEF Once, Queued, Due
    <2>3. \A t, u \in Turns : t < u /\ user[t] # None /\ user[t] = user[u] => FALSE
      BY <1>1, <2>1 DEF Once, Distinct
    <2>4. ASSUME NEW t \in Turns, NEW m \in steered
          PROVE  Cardinality({i \in DOMAIN msgs[t] : msgs[t][i] = Steer(m)}) <= 1
      <3> DEFINE S == {i \in DOMAIN msgs[t] : msgs[t][i] = Steer(m)}
      <3>1. SteersOnce(msgs[t])
        BY <1>1 DEF Once, Lists, OnceLists
      <3>2. \A i, j \in S : i = j
        BY <3>1, Kinds DEF SteersOnce
      <3> HIDE DEF S
      <3>3. S = {} \/ \E i \in S : S = {i}
        BY <3>2
      <3>4. Cardinality(S) \in {0, 1}
        BY <3>3, FS_EmptySet, FS_Singleton
      <3> QED BY <3>4 DEF S
    <2>5. Orderly({}) => \A x, y \in spliced : x[2] = y[2] => x = y
      BY <1>1 DEF Once, Singly, Orderly
    <2> QED BY <2>2, <2>3, <2>4, <2>5 DEF TakenOnce
  <1>2. Spec => []TypeInv
    BY TypeInit, TypeStep, PTL DEF Spec
  <1> QED BY <1>1, <1>2, OnceCorrect, PTL
=============================================================================
