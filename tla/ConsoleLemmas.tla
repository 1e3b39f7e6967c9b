----------------------------- MODULE ConsoleLemmas -----------------------------
(***************************************************************************)
(* Facts that the proofs about the console's components share: what every  *)
(* step of the session preserves, and what a bounded log keeps.            *)
(***************************************************************************)
EXTENDS Session, Sequences, FiniteSetTheorems, TLAPS

\* The session's own bookkeeping.
SessionInv ==
    /\ closed => scope.context = NoName
    /\ scope.context = NoName => scope.namespace = NoName /\ allowedNamespaces = {}
    /\ scope.context # NoName =>
           /\ scope.generation > 0
           /\ allowedNamespaces \subseteq NamespacesOf[scope.context]
           /\ scope.namespace # NoName => scope.namespace \in NamespacesOf[scope.context]
    /\ ~closed => scopeContext = scope.generation
    /\ cancelledContexts = 1 .. (scope.generation - 1)

\* A fresh session (New).
LEMMA SessionInitial ==
    ASSUME SessionInit
    PROVE  SessionTypeOK /\ SessionInv
<1>1. closed = FALSE /\ closed \in BOOLEAN
  BY Zenon DEF SessionInit
<1>2. scope \in Scopes /\ scope.context = NoName /\ scope.namespace = NoName /\ scope.generation = 0
  BY DEF SessionInit, NoScope, Scopes
<1>3. allowedNamespaces = {} /\ scopeContext = 0 /\ cancelledContexts = {}
  BY DEF SessionInit
<1> QED  BY <1>1, <1>2, <1>3 DEF SessionTypeOK, SessionInv

\* A session nobody touches.
LEMMA SessionRests ==
    ASSUME SessionTypeOK, SessionInv, UNCHANGED sessionVars
    PROVE  SessionTypeOK' /\ SessionInv'
BY DEF SessionTypeOK, SessionInv, sessionVars

\* SelectContext, which opens a new generation.
LEMMA SelectContextKeepsSession ==
    ASSUME SessionTypeOK, SessionInv, NEW name, SelectContext(name)
    PROVE  /\ SessionTypeOK' /\ SessionInv'
           /\ scope' = [context |-> name, namespace |-> NoName,
                        generation |-> scope.generation + 1]
BY NamesAssumption DEF SelectContext, advanceLocked, CancelScope, SessionTypeOK, SessionInv, Scopes

\* SelectNamespaceAt, which opens a new generation of the same context.
LEMMA SelectNamespaceKeepsSession ==
    ASSUME SessionTypeOK, SessionInv, NEW name, NEW g, SelectNamespaceAt(name, g)
    PROVE  /\ SessionTypeOK' /\ SessionInv'
           /\ scope' = [context |-> scope.context, namespace |-> name,
                        generation |-> scope.generation + 1]
           /\ scope.generation = g
BY NamesAssumption DEF SelectNamespaceAt, advanceLocked, CancelScope, SessionTypeOK, SessionInv, Scopes

\* AllowNamespaces with names the selected context's cluster reported.
LEMMA AllowKeepsSession ==
    ASSUME SessionTypeOK, SessionInv, NEW g, NEW names, AllowNamespaces(g, names),
           names \subseteq NamespacesOf[scope.context]
    PROVE  SessionTypeOK' /\ SessionInv' /\ scope' = scope
BY NamesAssumption DEF AllowNamespaces, MayAllowNamespaces, SessionTypeOK, SessionInv, Scopes

\* Close, which leaves no context selected.
LEMMA CloseKeepsSession ==
    ASSUME SessionTypeOK, SessionInv, Close
    PROVE  /\ SessionTypeOK' /\ SessionInv'
           /\ scope' = [context |-> NoName, namespace |-> NoName,
                        generation |-> scope.generation + 1]
BY NamesAssumption DEF Close, CancelScope, SessionTypeOK, SessionInv, Scopes

-----------------------------------------------------------------------------

\* The last max entries of a log.
LastOf(entries, max) ==
    IF Len(entries) > max
    THEN SubSeq(entries, Len(entries) - max + 1, Len(entries))
    ELSE entries

\* How many entries a log of n entries holds after one more.
LengthAfter(n, max) == IF n + 1 > max THEN max ELSE n + 1

\* What the last max entries of a log are after an append: the new entry comes
\* last, the others move up, and the oldest goes only when there is no room.
AppendKeepsLast(E, s, e, max, n) ==
    /\ LastOf(Append(s, e), max) \in Seq(E)
    /\ Len(LastOf(Append(s, e), max)) = n
    /\ \A i \in 1 .. n : LastOf(Append(s, e), max)[i]
                           = IF i = n THEN e ELSE s[Len(s) + 1 - n + i]

\* The bounded log's append and reslice keep the latest entries (record).
LEMMA LastOfAppend ==
    ASSUME NEW E, NEW s \in Seq(E), NEW e \in E, NEW max \in Nat \ {0},
           NEW n, n = LengthAfter(Len(s), max)
    PROVE  AppendKeepsLast(E, s, e, max, n)
<1> USE DEF AppendKeepsLast
<1>1. PICK a : a = Append(s, e)
  OBVIOUS
<1>2. /\ a \in Seq(E)
      /\ Len(a) = Len(s) + 1
      /\ \A i \in 1 .. Len(s) : a[i] = s[i]
      /\ a[Len(s) + 1] = e
      /\ Len(s) \in Nat
  BY <1>1
<1>3. CASE Len(a) > max
  <2>1. PICK t : t = SubSeq(a, Len(a) - max + 1, Len(a))
    OBVIOUS
  <2>2. t \in Seq(E) /\ Len(t) = max
    BY <1>2, <1>3, <2>1
  <2>3. \A i \in 1 .. max : t[i] = a[Len(a) - max + i]
    BY <1>2, <1>3, <2>1
  <2>4. n = max /\ LastOf(a, max) = t
    BY <1>2, <1>3, <2>1 DEF LengthAfter, LastOf
  <2>5. \A i \in 1 .. max : t[i] = IF i = max THEN e ELSE s[Len(s) + 1 - max + i]
    <3> SUFFICES ASSUME NEW i \in 1 .. max
                 PROVE  t[i] = IF i = max THEN e ELSE s[Len(s) + 1 - max + i]
      OBVIOUS
    <3>1. PICK k : k = Len(s) + 1 - max + i
      OBVIOUS
    <3>2. t[i] = a[k]
      BY <1>2, <2>3, <3>1
    <3>3. i = max => k = Len(s) + 1
      BY <1>2, <3>1
    <3>4. i # max => k \in 1 .. Len(s)
      BY <1>2, <1>3, <3>1
    <3> QED
      BY <1>2, <3>1, <3>2, <3>3, <3>4
  <2> QED
    BY <1>1, <1>2, <1>3, <2>2, <2>4, <2>5
<1>4. CASE ~(Len(a) > max)
  <2>1. n = Len(s) + 1 /\ LastOf(a, max) = a
    BY <1>2, <1>4 DEF LengthAfter, LastOf
  <2> QED
    BY <1>1, <1>2, <2>1
<1> QED
  BY <1>3, <1>4

\* A set without two different elements has at most one.
LEMMA AtMostOne ==
    ASSUME NEW S, \A x, y \in S : x = y
    PROVE  Cardinality(S) <= 1
<1>1. CASE S = {}
  BY <1>1, FS_EmptySet
<1>2. CASE S # {}
  <2>1. PICK x : x \in S
    BY <1>2
  <2>2. S = {x}
    BY <2>1
  <2> QED  BY <2>2, FS_Singleton
<1> QED  BY <1>1, <1>2

=============================================================================
