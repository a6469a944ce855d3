----------------------------- MODULE Lake_proofs -----------------------------
(***************************************************************************)
(* Proofs about the lakes of a DuckLakeStore, for any number of aliases,   *)
(* of threads that attach and close, and of attempts; and about the writes *)
(* to them, for any tables, statements and failures.                       *)
(***************************************************************************)
EXTENDS LakeRegistryProperties, LakeInsertProperties, RowTable_proofs, FunctionTheorems,
        SequenceTheorems, WellFoundedInduction

-----------------------------------------------------------------------------
(* How often a lake is in the list                                         *)

Positions(s, a) == {i \in DOMAIN s : s[i] = a}
One(x, y) == IF x = y THEN 1 ELSE 0

LEMMA PositionsFinite ==
  ASSUME NEW S, NEW s \in Seq(S), NEW a
  PROVE  IsFiniteSet(Positions(s, a)) /\ Cardinality(Positions(s, a)) \in Nat
<1>1. IsFiniteSet(1..Len(s))
  BY FS_Interval
<1>2. Positions(s, a) \in SUBSET (1..Len(s))
  BY DEF Positions
<1> QED
  BY <1>1, <1>2, FS_Subset, FS_CardinalityType

LEMMA PositionsAppended ==
  ASSUME NEW S, NEW s \in Seq(S), NEW b \in S, NEW a
  PROVE  Cardinality(Positions(Append(s, b), a)) = Cardinality(Positions(s, a)) + One(b, a)
<1> DEFINE n == Len(s) + 1
<1>1. /\ Append(s, b) \in Seq(S) /\ DOMAIN Append(s, b) = 1..n /\ Append(s, b)[n] = b
      /\ DOMAIN s = 1..Len(s) /\ Len(s) \in Nat
      /\ \A i \in 1..Len(s) : Append(s, b)[i] = s[i]
  BY AppendProperties
<1>2. n \notin Positions(s, a)
  BY <1>1 DEF Positions
<1>3. Positions(Append(s, b), a) = IF b = a THEN Positions(s, a) \cup {n} ELSE Positions(s, a)
  <2>1. 1..n = (1..Len(s)) \cup {n} /\ n \notin 1..Len(s)
    BY <1>1
  <2> HIDE DEF n
  <2> QED
    BY <1>1, <2>1 DEF Positions
<1> HIDE DEF n
<1>4. IsFiniteSet(Positions(s, a)) /\ Cardinality(Positions(s, a)) \in Nat
  BY PositionsFinite
<1>5. n \notin Positions(s, a) =>
        Cardinality(Positions(s, a) \cup {n}) = Cardinality(Positions(s, a)) + 1
  BY <1>4, FS_AddElement
<1> QED
  BY <1>2, <1>3, <1>4, <1>5 DEF One

(* Where Min finds the first of some positions.                            *)
LEMMA MinIs ==
  ASSUME NEW I, I \subseteq Nat, I # {}
  PROVE  Min(I) \in I
<1> DEFINE R == OpToRel(<, Nat)
<1>1. PICK x \in I : \A y \in I : ~ (<<y, x>> \in R)
  <2> HIDE DEF R
  <2>1. IsWellFoundedOn(R, Nat)
    BY NatLessThanWellFounded DEF R
  <2> QED
    BY <2>1, WFMin
<1>2. ASSUME NEW y \in I PROVE x <= y
  <2>1. x \in Nat /\ y \in Nat /\ ~ (<<y, x>> \in R)
    BY <1>1
  <2>2. <<y, x>> \in R <=> (<<y, x>> \in Nat \X Nat /\ y < x)
    BY DEF OpToRel
  <2> HIDE DEF R
  <2>3. ~ (y < x)
    BY <2>1, <2>2
  <2> QED
    BY <2>1, <2>3
<1> QED
  BY <1>2 DEF Min

(* RemoveAt leaves a gap that the elements behind it close.                *)
Skip(n, m) == IF m < n THEN m ELSE m + 1

LEMMA RemovedAt ==
  ASSUME NEW S, NEW s \in Seq(S), NEW n \in 1..Len(s)
  PROVE  /\ RemoveAt(s, n) \in Seq(S) /\ Len(RemoveAt(s, n)) = Len(s) - 1
         /\ \A m \in 1..(Len(s) - 1) : RemoveAt(s, n)[m] = s[Skip(n, m)]
<1> DEFINE front == SubSeq(s, 1, n - 1)
           rest == SubSeq(s, n + 1, Len(s))
<1>1. /\ front \in Seq(S) /\ Len(front) = n - 1
      /\ \A m \in 1..(n - 1) : front[m] = s[m]
  OBVIOUS
<1>2. /\ rest \in Seq(S) /\ Len(rest) = Len(s) - n
      /\ \A m \in 1..(Len(s) - n) : rest[m] = s[m + n]
  OBVIOUS
<1>3. RemoveAt(s, n) = front \o rest
  BY DEF RemoveAt
<1> HIDE DEF front, rest
<1>4. /\ front \o rest \in Seq(S) /\ Len(front \o rest) = Len(front) + Len(rest)
      /\ \A m \in 1..(Len(front) + Len(rest)) :
           (front \o rest)[m] = IF m <= Len(front) THEN front[m] ELSE rest[m - Len(front)]
  BY <1>1, <1>2, ConcatProperties
<1>5. Len(front \o rest) = Len(s) - 1 /\ n \in Nat /\ Len(s) \in Nat
  BY <1>1, <1>2, <1>4
<1>6. ASSUME NEW m \in 1..(Len(s) - 1)
      PROVE  (front \o rest)[m] = s[Skip(n, m)]
  <2>1. CASE m < n
    BY <1>1, <1>2, <1>4, <1>5, <2>1 DEF Skip
  <2>2. CASE ~(m < n)
    <3>1. m - (n - 1) \in 1..(Len(s) - n) /\ m - (n - 1) + n = m + 1
      BY <1>5, <2>2
    <3>2. (front \o rest)[m] = rest[m - (n - 1)]
      BY <1>1, <1>2, <1>4, <1>5, <2>2
    <3> QED
      BY <1>2, <2>2, <3>1, <3>2 DEF Skip
  <2> QED
    BY <2>1, <2>2
<1> QED
  BY <1>3, <1>4, <1>5, <1>6

LEMMA PositionsWithout ==
  ASSUME NEW S, NEW s \in Seq(S), NEW n \in 1..Len(s), NEW a
  PROVE  Cardinality(Positions(RemoveAt(s, n), a)) = Cardinality(Positions(s, a)) - One(s[n], a)
<1> DEFINE z == RemoveAt(s, n)
           before == Positions(s, a) \ {n}
           f == [m \in Positions(z, a) |-> Skip(n, m)]
<1>1. /\ z \in Seq(S) /\ Len(z) = Len(s) - 1 /\ Len(s) \in Nat /\ n \in Nat
      /\ DOMAIN z = 1..(Len(s) - 1) /\ DOMAIN s = 1..Len(s)
      /\ \A m \in 1..(Len(s) - 1) : z[m] = s[Skip(n, m)]
  <2>1. /\ z \in Seq(S) /\ Len(z) = Len(s) - 1
        /\ \A m \in 1..(Len(s) - 1) : z[m] = s[Skip(n, m)]
    BY RemovedAt
  <2> HIDE DEF z
  <2> QED
    BY <2>1
<1> HIDE DEF z
<1>2. \A m \in Positions(z, a) : m \in 1..(Len(s) - 1) /\ Skip(n, m) \in before
  BY <1>1 DEF Positions, Skip
<1>3. \A m, k \in Positions(z, a) : f[m] = f[k] => m = k
  BY <1>1, <1>2 DEF Skip
<1>4. \A i \in before : \E m \in Positions(z, a) : f[m] = i
  <2> SUFFICES ASSUME NEW i \in before
               PROVE  \E m \in Positions(z, a) : Skip(n, m) = i
    OBVIOUS
  <2>1. i \in 1..Len(s) /\ i # n /\ s[i] = a
    BY <1>1 DEF Positions
  <2>2. CASE i < n
    <3>1. i \in 1..(Len(s) - 1) /\ Skip(n, i) = i
      BY <1>1, <2>1, <2>2 DEF Skip
    <3> QED
      BY <1>1, <2>1, <3>1 DEF Positions
  <2>3. CASE ~(i < n)
    <3>1. i - 1 \in 1..(Len(s) - 1) /\ Skip(n, i - 1) = i
      BY <1>1, <2>1, <2>3 DEF Skip
    <3> QED
      BY <1>1, <2>1, <3>1 DEF Positions
  <2> QED
    BY <2>2, <2>3
<1>5. f \in Bijection(Positions(z, a), before)
  <2>1. f \in [Positions(z, a) -> before]
    BY <1>2
  <2> HIDE DEF f
  <2> QED
    BY <1>3, <1>4, <2>1, Fun_IsBij
<1>6. Cardinality(before) = Cardinality(Positions(z, a))
  BY <1>1, <1>5, PositionsFinite, FS_Bijection DEF ExistsBijection
<1>7. Cardinality(before) =
        IF n \in Positions(s, a) THEN Cardinality(Positions(s, a)) - 1
                                 ELSE Cardinality(Positions(s, a))
  BY PositionsFinite, FS_RemoveElement
<1>8. n \in Positions(s, a) <=> s[n] = a
  BY <1>1 DEF Positions
<1> QED
  BY <1>6, <1>7, <1>8, PositionsFinite DEF One, z

(* list.remove() takes one, the first, away.                               *)
LEMMA PositionsRemoved ==
  ASSUME NEW S, NEW s \in Seq(S), NEW b, Contains(s, b)
  PROVE  /\ RemoveFirst(s, b) \in Seq(S)
         /\ \A a : Cardinality(Positions(RemoveFirst(s, b), a)) =
                     Cardinality(Positions(s, a)) - One(b, a)
<1> DEFINE I == {i \in 1..Len(s) : s[i] = b}
           n == SelectInSeq(s, LAMBDA v : v = b)
<1>1. I # {} /\ I \subseteq Nat
  BY DEF Contains
<1>2. n = Min(I)
  BY <1>1 DEF SelectInSeq
<1>3. n \in I
  <2> HIDE DEF I, n
  <2> QED
    BY <1>1, <1>2, MinIs
<1>4. RemoveFirst(s, b) = RemoveAt(s, n)
  BY DEF RemoveFirst, Contains
<1> HIDE DEF n
<1>5. n \in 1..Len(s) /\ s[n] = b
  BY <1>3
<1> QED
  BY <1>4, <1>5, PositionsWithout, RemovedAt

-----------------------------------------------------------------------------
(* How many calls are between DuckDB and the list                          *)

CallRecord == [pc : Points, alias : Aliases \cup {None}, schema : BOOLEAN,
               left : 0..RetryAttempts, did : BOOLEAN, result : {"none", "ok", "error"}]

Where(c, pc, a) == {t \in Threads : c[t].pc = pc /\ c[t].alias = a}
Is(r, pc, a) == IF r.pc = pc /\ r.alias = a THEN 1 ELSE 0
In(a, S) == IF a \in S THEN 1 ELSE 0

LEMMA WhereFinite ==
  ASSUME NEW c, NEW pc, NEW a
  PROVE  IsFiniteSet(Where(c, pc, a)) /\ Cardinality(Where(c, pc, a)) \in Nat
<1>1. Where(c, pc, a) \in SUBSET Threads
  BY DEF Where
<1> QED
  BY <1>1, RegistryAssumption, FS_Subset, FS_CardinalityType

Moved(c, t, r) == [c EXCEPT ![t] = r]

LEMMA WhereMoves ==
  ASSUME NEW c \in [Threads -> CallRecord], NEW t \in Threads, NEW r \in CallRecord,
         NEW pc, NEW a
  PROVE  Cardinality(Where(Moved(c, t, r), pc, a)) =
           Cardinality(Where(c, pc, a)) - Is(c[t], pc, a) + Is(r, pc, a)
<1> DEFINE W == Where(c, pc, a)
           Z == Where(Moved(c, t, r), pc, a)
<1>1. Z = IF r.pc = pc /\ r.alias = a THEN W \cup {t} ELSE W \ {t}
  BY DEF Where, Moved
<1>2. t \in W <=> c[t].pc = pc /\ c[t].alias = a
  BY DEF Where
<1>3. IsFiniteSet(W) /\ Cardinality(W) \in Nat
  BY WhereFinite
<1> HIDE DEF W, Z
<1>4. /\ Cardinality(W \cup {t}) = IF t \in W THEN Cardinality(W) ELSE Cardinality(W) + 1
      /\ Cardinality(W \ {t}) = IF t \in W THEN Cardinality(W) - 1 ELSE Cardinality(W)
  BY <1>3, FS_AddElement, FS_RemoveElement
<1>5. Cardinality(Z) = Cardinality(W) - Is(c[t], pc, a) + Is(r, pc, a)
  BY <1>1, <1>2, <1>3, <1>4 DEF Is
<1> QED
  BY <1>5 DEF W, Z

-----------------------------------------------------------------------------
(* The list agrees with DuckDB                                             *)

Agrees(s, d, c) ==
  \A a \in Aliases : Cardinality(Positions(s, a)) + Cardinality(Where(c, "register", a))
                       = In(a, d) + Cardinality(Where(c, "unregister", a))

(* One step of one call changes the two sides by the same amount.          *)
Balanced(s, d, x, z, e, r) ==
  \A a \in Aliases :
    Cardinality(Positions(z, a)) + Is(r, "register", a) - Is(x, "register", a)
      = Cardinality(Positions(s, a)) + In(a, e) - In(a, d)
          + Is(r, "unregister", a) - Is(x, "unregister", a)

LEMMA AgreesMoves ==
  ASSUME NEW c \in [Threads -> CallRecord], NEW t \in Threads, NEW r \in CallRecord,
         NEW s \in Seq(Aliases), NEW z \in Seq(Aliases), NEW d, NEW e,
         Agrees(s, d, c), Balanced(s, d, c[t], z, e, r)
  PROVE  Agrees(z, e, Moved(c, t, r))
<1> SUFFICES ASSUME NEW a \in Aliases
             PROVE  Cardinality(Positions(z, a))
                      + Cardinality(Where(Moved(c, t, r), "register", a))
                    = In(a, e) + Cardinality(Where(Moved(c, t, r), "unregister", a))
  BY DEF Agrees
<1>1. /\ Cardinality(Where(Moved(c, t, r), "register", a)) =
           Cardinality(Where(c, "register", a)) - Is(c[t], "register", a) + Is(r, "register", a)
      /\ Cardinality(Where(Moved(c, t, r), "unregister", a)) =
           Cardinality(Where(c, "unregister", a))
             - Is(c[t], "unregister", a) + Is(r, "unregister", a)
  <2>1. Cardinality(Where(Moved(c, t, r), "register", a)) =
           Cardinality(Where(c, "register", a)) - Is(c[t], "register", a) + Is(r, "register", a)
    BY WhereMoves
  <2>2. Cardinality(Where(Moved(c, t, r), "unregister", a)) =
           Cardinality(Where(c, "unregister", a))
             - Is(c[t], "unregister", a) + Is(r, "unregister", a)
    BY WhereMoves
  <2> QED
    BY <2>1, <2>2
<1>2. Cardinality(Positions(s, a)) + Cardinality(Where(c, "register", a))
        = In(a, d) + Cardinality(Where(c, "unregister", a))
  BY DEF Agrees
<1>3. /\ Cardinality(Positions(z, a)) + Is(r, "register", a) - Is(c[t], "register", a)
           = Cardinality(Positions(s, a)) + In(a, e) - In(a, d)
               + Is(r, "unregister", a) - Is(c[t], "unregister", a)
  BY DEF Balanced
<1> DEFINE before == Cardinality(Positions(s, a))
           after == Cardinality(Positions(z, a))
           reg == Cardinality(Where(c, "register", a))
           unreg == Cardinality(Where(c, "unregister", a))
           left == Is(c[t], "register", a)
           came == Is(r, "register", a)
           leftUn == Is(c[t], "unregister", a)
           cameUn == Is(r, "unregister", a)
           wasIn == In(a, d)
           isIn == In(a, e)
<1>4. /\ before \in Nat /\ after \in Nat /\ reg \in Nat /\ unreg \in Nat
      /\ left \in Nat /\ came \in Nat /\ leftUn \in Nat /\ cameUn \in Nat
      /\ wasIn \in Nat /\ isIn \in Nat
  BY WhereFinite, PositionsFinite DEF In, Is
<1>5. after + came - left = before + isIn - wasIn + cameUn - leftUn /\ before + reg = wasIn + unreg
  BY <1>2, <1>3
<1> HIDE DEF before, after, reg, unreg, left, came, leftUn, cameUn, wasIn, isIn
<1>6. after + (reg - left + came) = isIn + (unreg - leftUn + cameUn)
  BY <1>4, <1>5
<1> QED
  BY <1>1, <1>6 DEF after, reg, left, came, isIn, unreg, leftUn, cameUn

-----------------------------------------------------------------------------
(* The inductive invariant.  A detach that has found its lake in the list  *)
(* finds it there to the end, because no other thread detaches; a call     *)
(* that has done nothing yet has not got past DuckDB.                      *)
OneDetacher == \A t, u \in Detachers : t = u

CallOK(t, r) ==
  /\ r.pc \in {"idle", "closing"} <=> r.alias = None
  /\ r.pc \in {"detach", "detaching", "unregister"} => t \in Detachers /\ ~r.schema
  /\ r.pc \in {"register", "unregister"} => r.did
  /\ r.pc = "schema" => r.schema /\ r.did
  /\ r.pc \in {"idle", "closing"} => ~r.schema /\ ~r.did
  /\ r.pc = "closing" => closed
Found(r, s) == r.pc \in {"detaching", "unregister"} => Contains(s, r.alias)

CallsInv ==
  /\ lakes \in Seq(Aliases) /\ attached \subseteq Aliases /\ closed \in BOOLEAN
  /\ call \in [Threads -> CallRecord]
  /\ \A t \in Threads : CallOK(t, call[t])
ListInv == OneDetacher /\ ~closed => /\ Agrees(lakes, attached, call)
                                     /\ \A t \in Threads : Found(call[t], lakes)
RegistryInv == CallsInv /\ ListInv

-----------------------------------------------------------------------------
(* One step of one call                                                    *)

LEMMA CallMoves ==
  ASSUME RegistryInv, NEW t \in Threads, NEW r \in CallRecord,
         call' = [call EXCEPT ![t] = r], CallOK(t, r)',
         lakes' \in Seq(Aliases), attached' \subseteq Aliases, closed' \in BOOLEAN,
         closed => closed',
         OneDetacher /\ ~closed' =>
                     /\ Found(r, lakes')
                     /\ call[t].pc = "unregister" \/
                          \A b \in Aliases : Contains(lakes, b) => Contains(lakes', b)
                     /\ \A a \in Aliases :
                          Cardinality(Positions(lakes', a))
                              + Is(r, "register", a) - Is(call[t], "register", a)
                            = Cardinality(Positions(lakes, a)) + In(a, attached') - In(a, attached)
                                + Is(r, "unregister", a) - Is(call[t], "unregister", a)
  PROVE  RegistryInv'
<1>1. /\ lakes \in Seq(Aliases) /\ call \in [Threads -> CallRecord]
      /\ \A u \in Threads : CallOK(u, call[u]) /\ call[u] \in CallRecord
      /\ call' \in [Threads -> CallRecord] /\ call'[t] = r
      /\ \A u \in Threads : u # t => call'[u] = call[u]
  BY DEF RegistryInv, CallsInv
<1>2. ASSUME NEW u \in Threads PROVE CallOK(u, call[u])'
  <2>1. CASE u = t
    BY <1>1, <2>1 DEF CallOK
  <2>2. CASE u # t
    BY <1>1, <2>2 DEF CallOK
  <2> QED
    BY <2>1, <2>2
<1>3. CallsInv'
  BY <1>1, <1>2 DEF CallsInv
<1>4. ASSUME OneDetacher, ~closed' PROVE Agrees(lakes', attached', call')
  <2>1. Agrees(lakes, attached, call)
    BY <1>4 DEF RegistryInv, ListInv
  <2>2. Balanced(lakes, attached, call[t], lakes', attached', r)
    BY <1>4 DEF Balanced
  <2>3. PICK s, d, c, z, e : /\ s = lakes /\ d = attached /\ c = call
                             /\ z = lakes' /\ e = attached'
    OBVIOUS
  <2>4. /\ c \in [Threads -> CallRecord] /\ s \in Seq(Aliases) /\ z \in Seq(Aliases)
        /\ Agrees(s, d, c) /\ Balanced(s, d, c[t], z, e, r)
    BY <1>1, <2>1, <2>2, <2>3
  <2>5. Agrees(z, e, Moved(c, t, r))
    BY <2>4, AgreesMoves
  <2> QED
    BY <2>3, <2>5 DEF Moved
<1>5. ASSUME OneDetacher, ~closed', NEW u \in Threads PROVE Found(call'[u], lakes')
  <2>1. CASE u = t
    BY <1>1, <1>5, <2>1
  <2>2. CASE u # t /\ call[u].pc \in {"detaching", "unregister"}
    <3>1. u \in Detachers /\ call[t].pc # "unregister"
      BY <1>1, <1>5, <2>2 DEF CallOK, OneDetacher
    <3>2. Contains(lakes, call[u].alias) /\ call[u].alias \in Aliases
      BY <1>1, <1>5, <2>2 DEF RegistryInv, ListInv, Found, CallOK, CallRecord
    <3> QED
      BY <1>1, <1>5, <2>2, <3>1, <3>2 DEF Found
  <2>3. CASE u # t /\ call[u].pc \notin {"detaching", "unregister"}
    BY <1>1, <2>3 DEF Found
  <2> QED
    BY <2>1, <2>2, <2>3
<1>6. ListInv'
  BY <1>4, <1>5 DEF ListInv
<1> QED
  BY <1>3, <1>6 DEF RegistryInv

(* A step that leaves the list and DuckDB alone.                           *)
LEMMA CallGoesOn ==
  ASSUME RegistryInv, NEW t \in Threads, NEW r \in CallRecord,
         call' = [call EXCEPT ![t] = r], UNCHANGED <<lakes, attached, closed>>,
         CallOK(t, r), Found(r, lakes),
         {call[t].pc, r.pc} \cap {"register", "unregister"} = {}
  PROVE  RegistryInv'
<1>1. /\ lakes' = lakes /\ attached' = attached /\ closed' = closed
      /\ lakes \in Seq(Aliases) /\ attached \subseteq Aliases /\ closed \in BOOLEAN
  BY DEF RegistryInv, CallsInv
<1>2. CallOK(t, r)'
  BY <1>1 DEF CallOK
<1>3. \A a \in Aliases : Cardinality(Positions(lakes, a)) \in Nat /\ In(a, attached) \in Nat
  BY <1>1, PositionsFinite DEF In
<1>4. \A a \in Aliases : /\ Is(r, "register", a) = 0 /\ Is(call[t], "register", a) = 0
                         /\ Is(r, "unregister", a) = 0 /\ Is(call[t], "unregister", a) = 0
  BY DEF Is
<1>5. \A a \in Aliases :
        Cardinality(Positions(lakes', a)) + Is(r, "register", a) - Is(call[t], "register", a)
          = Cardinality(Positions(lakes, a)) + In(a, attached') - In(a, attached)
              + Is(r, "unregister", a) - Is(call[t], "unregister", a)
  BY <1>1, <1>3, <1>4
<1>6. /\ lakes' \in Seq(Aliases) /\ attached' \subseteq Aliases /\ closed' \in BOOLEAN
      /\ closed => closed' /\ Found(r, lakes')
      /\ \A b \in Aliases : Contains(lakes, b) => Contains(lakes', b)
  BY <1>1
<1> QED
  BY <1>2, <1>5, <1>6, CallMoves

(* The three ways to end a step.                                           *)
LEMMA GoesTo ==
  ASSUME CallsInv, NEW t \in Threads, NEW pc \in Points, Goto(t, pc)
  PROVE  \E r \in CallRecord : /\ call' = [call EXCEPT ![t] = r] /\ r.pc = pc
                               /\ r.alias = call[t].alias /\ r.schema = call[t].schema
                               /\ r.did = call[t].did
<1> DEFINE r == [call[t] EXCEPT !.pc = pc]
<1>1. call[t] \in CallRecord
  BY DEF CallsInv
<1>2. r \in CallRecord /\ r.pc = pc /\ r.alias = call[t].alias /\ r.schema = call[t].schema
      /\ r.did = call[t].did
  BY <1>1 DEF CallRecord
<1>3. call' = [call EXCEPT ![t] = r]
  BY DEF Goto
<1> QED
  BY <1>2, <1>3

LEMMA Returns ==
  ASSUME CallsInv, NEW t \in Threads, NEW result \in {"ok", "error"}, Return(t, result)
  PROVE  \E r \in CallRecord : /\ call' = [call EXCEPT ![t] = r] /\ r.pc = "idle"
                               /\ r.alias = None /\ ~r.schema /\ ~r.did /\ r.result = result
<1> DEFINE r == [NoCall EXCEPT !.result = result]
<1>1. 0 \in 0..RetryAttempts
  BY RegistryAssumption
<1>2. /\ NoCall \in CallRecord /\ NoCall.pc = "idle" /\ NoCall.alias = None
      /\ ~NoCall.schema /\ ~NoCall.did
  BY <1>1 DEF NoCall, CallRecord, Points
<1>3. r \in CallRecord /\ r.pc = "idle" /\ r.alias = None /\ ~r.schema /\ ~r.did
      /\ r.result = result
  BY <1>2 DEF CallRecord
<1>4. call' = [call EXCEPT ![t] = r]
  BY DEF Return
<1> QED
  BY <1>3, <1>4

LEMMA Raises ==
  ASSUME CallsInv, NEW t \in Threads, NEW start \in Points, NEW f, Raise(t, start, f)
  PROVE  \E r \in CallRecord :
           /\ call' = [call EXCEPT ![t] = r]
           /\ \/ /\ r.pc = start /\ r.alias = call[t].alias /\ r.schema = call[t].schema
                 /\ r.did = call[t].did /\ f = "transient"
              \/ /\ r.pc = "idle" /\ r.alias = None /\ ~r.schema /\ ~r.did
                 /\ r.result = "error"
<1>1. CASE f = "transient" /\ call[t].left > 1
  <2> DEFINE r == [call[t] EXCEPT !.pc = start, !.left = @ - 1]
  <2>1. call[t] \in CallRecord /\ call[t].left - 1 \in 0..RetryAttempts
    <3>1. call[t] \in CallRecord /\ call[t].left \in 0..RetryAttempts /\ RetryAttempts \in Nat
      BY RegistryAssumption DEF CallsInv, CallRecord
    <3> QED
      BY <1>1, <3>1
  <2>2. r \in CallRecord /\ r.pc = start /\ r.alias = call[t].alias
        /\ r.schema = call[t].schema /\ r.did = call[t].did
    BY <1>1, <2>1 DEF CallRecord
  <2>3. call' = [call EXCEPT ![t] = r]
    BY <1>1 DEF Raise
  <2> QED
    BY <1>1, <2>2, <2>3
<1>2. CASE ~(f = "transient" /\ call[t].left > 1)
  <2>1. Return(t, "error")
    BY <1>2 DEF Raise
  <2> QED
    BY <2>1, Returns
<1> QED
  BY <1>1, <1>2

-----------------------------------------------------------------------------
(* The steps of attach_lake(), detach_lake() and close()                   *)

LEMMA CallAttachKeeps ==
  ASSUME RegistryInv, NEW t \in Threads, NEW a \in Aliases, CallAttach(t, a)
  PROVE  RegistryInv'
<1>1. call[t].pc = "idle" /\ UNCHANGED <<lakes, attached, closed>>
  BY DEF CallAttach
<1>2. PICK schema \in BOOLEAN, left \in Attempts :
        call' = [call EXCEPT ![t] = [NoCall EXCEPT !.pc = "attach", !.alias = a,
                                                   !.schema = schema, !.left = left]]
  BY RegistryAssumption DEF CallAttach
<1> DEFINE r == [NoCall EXCEPT !.pc = "attach", !.alias = a, !.schema = schema, !.left = left]
<1>3. /\ 0 \in 0..RetryAttempts /\ left \in 0..RetryAttempts
      /\ schema \in BOOLEAN
  BY RegistryAssumption DEF Attempts
<1>4. NoCall \in CallRecord /\ ~NoCall.did
  BY <1>3 DEF NoCall, CallRecord, Points
<1>5. r \in CallRecord /\ r.pc = "attach" /\ r.alias = a /\ ~r.did
  BY <1>3, <1>4 DEF CallRecord, Points
<1>6. call' = [call EXCEPT ![t] = r]
  BY <1>2
<1> HIDE DEF r
<1>7. CallOK(t, r) /\ Found(r, lakes)
  BY <1>5, RegistryAssumption DEF CallOK, Found
<1> QED
  BY <1>1, <1>5, <1>6, <1>7, CallGoesOn

LEMMA CallDetachKeeps ==
  ASSUME RegistryInv, NEW t \in Threads, NEW a \in Aliases, CallDetach(t, a)
  PROVE  RegistryInv'
<1>1. call[t].pc = "idle" /\ t \in Detachers /\ UNCHANGED <<lakes, attached, closed>>
  BY DEF CallDetach
<1>2. PICK left \in Attempts :
        call' = [call EXCEPT ![t] = [NoCall EXCEPT !.pc = "detach", !.alias = a, !.left = left]]
  BY DEF CallDetach
<1> DEFINE r == [NoCall EXCEPT !.pc = "detach", !.alias = a, !.left = left]
<1>3. 0 \in 0..RetryAttempts /\ left \in 0..RetryAttempts
  BY RegistryAssumption DEF Attempts
<1>4. NoCall \in CallRecord /\ ~NoCall.did /\ ~NoCall.schema
  BY <1>3 DEF NoCall, CallRecord, Points
<1>5. r \in CallRecord /\ r.pc = "detach" /\ r.alias = a /\ ~r.schema /\ ~r.did
  BY <1>3, <1>4 DEF CallRecord, Points
<1>6. call' = [call EXCEPT ![t] = r]
  BY <1>2
<1> HIDE DEF r
<1>7. CallOK(t, r) /\ Found(r, lakes)
  BY <1>1, <1>5, RegistryAssumption DEF CallOK, Found
<1> QED
  BY <1>1, <1>5, <1>6, <1>7, CallGoesOn

LEMMA LookForLakeKeeps ==
  ASSUME RegistryInv, NEW t \in Threads, LookForLake(t)
  PROVE  RegistryInv'
<1>1. /\ call[t].pc = "attach" /\ UNCHANGED <<lakes, attached, closed>>
      /\ Return(t, "ok") \/ Goto(t, "attaching")
  BY DEF LookForLake
<1>2. CallsInv /\ CallOK(t, call[t]) /\ "attaching" \in Points
  BY DEF RegistryInv, CallsInv, Points
<1>3. CASE Return(t, "ok")
  <2>1. PICK r \in CallRecord : /\ call' = [call EXCEPT ![t] = r] /\ r.pc = "idle"
                                /\ r.alias = None /\ ~r.schema /\ ~r.did
    BY <1>2, <1>3, Returns
  <2>2. CallOK(t, r) /\ Found(r, lakes)
    BY <2>1 DEF CallOK, Found
  <2> QED
    BY <1>1, <2>1, <2>2, CallGoesOn
<1>4. CASE Goto(t, "attaching")
  <2>1. PICK r \in CallRecord : /\ call' = [call EXCEPT ![t] = r] /\ r.pc = "attaching"
                                /\ r.alias = call[t].alias /\ r.did = call[t].did
    BY <1>2, <1>4, GoesTo
  <2>2. CallOK(t, r) /\ Found(r, lakes)
    BY <1>1, <1>2, <2>1 DEF CallOK, Found
  <2> QED
    BY <1>1, <2>1, <2>2, CallGoesOn
<1> QED
  BY <1>1, <1>3, <1>4

(* _once() raises: DuckDB and the list stay as they are.                   *)
LEMMA RaiseKeeps ==
  ASSUME RegistryInv, NEW t \in Threads,
         NEW start \in {"attach", "detach"}, NEW f,
         UNCHANGED <<lakes, attached, closed>>, Raise(t, start, f),
         \/ start = "attach" /\ call[t].pc = "attaching"
         \/ start = "attach" /\ call[t].pc = "schema" /\ f \in SchemaFailures \cup {"permanent"}
         \/ start = "detach" /\ call[t].pc = "detaching"
  PROVE  RegistryInv'
<1>1. CallsInv /\ CallOK(t, call[t]) /\ start \in Points
  BY DEF RegistryInv, CallsInv, Points
<1>2. PICK r \in CallRecord :
           /\ call' = [call EXCEPT ![t] = r]
           /\ \/ /\ r.pc = start /\ r.alias = call[t].alias /\ r.schema = call[t].schema
                 /\ r.did = call[t].did /\ f = "transient"
              \/ /\ r.pc = "idle" /\ r.alias = None /\ ~r.schema /\ ~r.did
  BY <1>1, Raises
<1>3. CallOK(t, r) /\ Found(r, lakes)
  BY <1>1, <1>2 DEF CallOK, Found
<1> QED
  BY <1>2, <1>3, CallGoesOn

LEMMA AttachKeeps ==
  ASSUME RegistryInv, NEW t \in Threads, Attach(t)
  PROVE  RegistryInv'
<1> DEFINE b == call[t].alias
<1>1. /\ call[t].pc = "attaching" /\ UNCHANGED <<lakes, closed>>
      /\ CallsInv /\ CallOK(t, call[t]) /\ call[t] \in CallRecord
  BY DEF Attach, RegistryInv, CallsInv
<1>2. CASE /\ ~closed /\ b \notin attached
           /\ attached' = attached \cup {b}
           /\ call' = [call EXCEPT ![t].pc = "register", ![t].did = TRUE]
  <2>1. PICK r : r = [call[t] EXCEPT !.pc = "register", !.did = TRUE]
    OBVIOUS
  <2>2. /\ call' = [call EXCEPT ![t] = r]
        /\ r \in CallRecord /\ r.pc = "register" /\ r.alias = b /\ r.did
    BY <1>1, <1>2, <2>1 DEF CallRecord, Points
  <2>3. b \in Aliases
    BY <1>1 DEF CallOK, CallRecord
  <2>4. /\ lakes' = lakes /\ lakes \in Seq(Aliases) /\ attached' \subseteq Aliases
        /\ closed' = closed /\ closed \in BOOLEAN
    BY <1>1, <1>2, <2>3 DEF CallsInv
  <2>5. CallOK(t, r)'
    <3>1. t \in Threads /\ r.pc = "register" /\ r.alias # None /\ r.did
      BY <2>2, <2>3, RegistryAssumption
    <3> QED
      BY <3>1 DEF CallOK
  <2>7. Found(r, lakes') /\ (closed => closed')
    BY <2>2, <2>4 DEF Found
  <2>6. ASSUME NEW a \in Aliases
        PROVE  Cardinality(Positions(lakes', a)) + Is(r, "register", a) - Is(call[t], "register", a)
                 = Cardinality(Positions(lakes, a)) + In(a, attached') - In(a, attached)
                     + Is(r, "unregister", a) - Is(call[t], "unregister", a)
    <3>1. Cardinality(Positions(lakes, a)) \in Nat
      BY <2>4, PositionsFinite
    <3>2. /\ Is(r, "register", a) = One(b, a) /\ Is(call[t], "register", a) = 0
          /\ Is(r, "unregister", a) = 0 /\ Is(call[t], "unregister", a) = 0
      BY <1>1, <2>2 DEF Is, One
    <3>3. In(a, attached') - In(a, attached) = One(b, a) /\ One(b, a) \in Nat
      BY <1>2 DEF In, One
    <3>4. In(a, attached') \in Nat /\ In(a, attached) \in Nat
      BY DEF In
    <3> HIDE DEF b
    <3> QED
      BY <2>4, <3>1, <3>2, <3>3, <3>4
  <2>8. \A a \in Aliases : Contains(lakes, a) => Contains(lakes', a)
    BY <2>4
  <2> HIDE DEF b
  <2> QED
    BY <2>2, <2>4, <2>5, <2>6, <2>7, <2>8, CallMoves
<1>3. CASE /\ UNCHANGED attached
           /\ \/ \E f \in AttachFailures : Raise(t, "attach", f)
              \/ Raise(t, "attach", "permanent")
  BY <1>1, <1>3, RaiseKeeps
<1> QED
  BY <1>2, <1>3 DEF Attach

LEMMA RegisterKeeps ==
  ASSUME RegistryInv, NEW t \in Threads, Register(t)
  PROVE  RegistryInv'
<1> DEFINE b == call[t].alias
<1>1. /\ call[t].pc = "register" /\ lakes' = Append(lakes, b) /\ UNCHANGED <<attached, closed>>
      /\ CallsInv /\ CallOK(t, call[t]) /\ call[t] \in CallRecord
      /\ IF call[t].schema THEN Goto(t, "schema") ELSE Return(t, "ok")
  BY DEF Register, RegistryInv, CallsInv
<1>2. b \in Aliases /\ lakes \in Seq(Aliases)
  BY <1>1 DEF CallOK, CallRecord, CallsInv
<1>3. PICK r \in CallRecord : /\ call' = [call EXCEPT ![t] = r] /\ r.pc \in {"schema", "idle"}
                              /\ CallOK(t, r)
  <2>1. CASE call[t].schema
    <3>1. PICK r \in CallRecord : /\ call' = [call EXCEPT ![t] = r] /\ r.pc = "schema"
                                  /\ r.alias = b /\ r.schema = call[t].schema
                                  /\ r.did = call[t].did
      BY <1>1, <2>1, GoesTo DEF Points
    <3>2. CallOK(t, r)
      BY <1>1, <2>1, <3>1 DEF CallOK
    <3> QED
      BY <3>1, <3>2
  <2>2. CASE ~call[t].schema
    <3>1. PICK r \in CallRecord : /\ call' = [call EXCEPT ![t] = r] /\ r.pc = "idle"
                                  /\ r.alias = None /\ ~r.schema /\ ~r.did
      BY <1>1, <2>2, Returns
    <3>2. CallOK(t, r)
      BY <3>1 DEF CallOK
    <3> QED
      BY <3>1, <3>2
  <2> QED
    BY <2>1, <2>2
<1>4. /\ lakes' \in Seq(Aliases)
      /\ \A a : Cardinality(Positions(lakes', a)) = Cardinality(Positions(lakes, a)) + One(b, a)
      /\ \A a \in Aliases : Contains(lakes, a) => Contains(lakes', a)
  <2>1. \A a \in Aliases : Contains(lakes, a) => Contains(lakes', a)
    BY <1>1, <1>2, AppendProperties DEF Contains
  <2>2. lakes' \in Seq(Aliases)
    BY <1>1, <1>2, AppendProperties
  <2>3. \A a : Cardinality(Positions(lakes', a)) = Cardinality(Positions(lakes, a)) + One(b, a)
    BY <1>1, <1>2, PositionsAppended
  <2> QED
    BY <2>1, <2>2, <2>3
<1>5. ASSUME NEW a \in Aliases
      PROVE  Cardinality(Positions(lakes', a)) + Is(r, "register", a) - Is(call[t], "register", a)
               = Cardinality(Positions(lakes, a)) + In(a, attached') - In(a, attached)
                   + Is(r, "unregister", a) - Is(call[t], "unregister", a)
  <2>1. Cardinality(Positions(lakes, a)) \in Nat /\ In(a, attached) \in Nat /\ One(b, a) \in Nat
    BY <1>2, PositionsFinite DEF In, One
  <2>2. /\ Is(r, "register", a) = 0 /\ Is(call[t], "register", a) = One(b, a)
        /\ Is(r, "unregister", a) = 0 /\ Is(call[t], "unregister", a) = 0
    BY <1>1, <1>3 DEF Is, One
  <2>3. In(a, attached') = In(a, attached)
    BY <1>1
  <2>4. Cardinality(Positions(lakes', a)) = Cardinality(Positions(lakes, a)) + One(b, a)
    BY <1>4
  <2> HIDE DEF b
  <2> QED
    BY <2>1, <2>2, <2>3, <2>4
<1>6. /\ attached' \subseteq Aliases /\ closed' \in BOOLEAN /\ closed' = closed
      /\ closed => closed'
  BY <1>1 DEF CallsInv
<1>7. CallOK(t, r)'
  BY <1>3, <1>6 DEF CallOK
<1>8. Found(r, lakes')
  BY <1>3 DEF Found
<1> HIDE DEF b
<1> QED
  BY <1>3, <1>4, <1>5, <1>6, <1>7, <1>8, CallMoves

LEMMA ApplySchemaKeeps ==
  ASSUME RegistryInv, NEW t \in Threads, ApplySchema(t)
  PROVE  RegistryInv'
<1>1. call[t].pc = "schema" /\ UNCHANGED <<lakes, attached, closed>> /\ CallsInv
  BY DEF ApplySchema, RegistryInv
<1>2. CASE Return(t, "ok")
  <2>1. PICK r \in CallRecord : /\ call' = [call EXCEPT ![t] = r] /\ r.pc = "idle"
                                /\ r.alias = None /\ ~r.schema /\ ~r.did
    BY <1>1, <1>2, Returns
  <2>2. CallOK(t, r) /\ Found(r, lakes)
    BY <2>1 DEF CallOK, Found
  <2> QED
    BY <1>1, <2>1, <2>2, CallGoesOn
<1>3. CASE \E f \in SchemaFailures \cup {"permanent"} : Raise(t, "attach", f)
  BY <1>1, <1>3, RaiseKeeps
<1> QED
  BY <1>2, <1>3 DEF ApplySchema

LEMMA LookForDetachKeeps ==
  ASSUME RegistryInv, NEW t \in Threads, LookForDetach(t)
  PROVE  RegistryInv'
<1>1. /\ call[t].pc = "detach" /\ UNCHANGED <<lakes, attached, closed>>
      /\ IF Contains(lakes, call[t].alias) THEN Goto(t, "detaching") ELSE Return(t, "ok")
  BY DEF LookForDetach
<1>2. CallsInv /\ CallOK(t, call[t]) /\ "detaching" \in Points
  BY DEF RegistryInv, CallsInv, Points
<1>3. CASE ~Contains(lakes, call[t].alias)
  <2>1. PICK r \in CallRecord : /\ call' = [call EXCEPT ![t] = r] /\ r.pc = "idle"
                                /\ r.alias = None /\ ~r.schema /\ ~r.did
    BY <1>1, <1>2, <1>3, Returns
  <2>2. CallOK(t, r) /\ Found(r, lakes)
    BY <2>1 DEF CallOK, Found
  <2> QED
    BY <1>1, <2>1, <2>2, CallGoesOn
<1>4. CASE Contains(lakes, call[t].alias)
  <2>1. PICK r \in CallRecord : /\ call' = [call EXCEPT ![t] = r] /\ r.pc = "detaching"
                                /\ r.alias = call[t].alias /\ r.schema = call[t].schema
    BY <1>1, <1>2, <1>4, GoesTo
  <2>2. CallOK(t, r) /\ Found(r, lakes)
    BY <1>1, <1>2, <1>4, <2>1 DEF CallOK, Found
  <2> QED
    BY <1>1, <2>1, <2>2, CallGoesOn
<1> QED
  BY <1>3, <1>4

LEMMA DetachKeeps ==
  ASSUME RegistryInv, NEW t \in Threads, Detach(t)
  PROVE  RegistryInv'
<1> DEFINE b == call[t].alias
<1>1. /\ call[t].pc = "detaching" /\ UNCHANGED <<lakes, closed>>
      /\ CallsInv /\ CallOK(t, call[t]) /\ call[t] \in CallRecord
      /\ lakes \in Seq(Aliases) /\ attached \subseteq Aliases /\ closed \in BOOLEAN
  BY DEF Detach, RegistryInv, CallsInv
<1>2. CASE /\ ~closed /\ b \in attached
           /\ attached' = attached \ {b}
           /\ call' = [call EXCEPT ![t].pc = "unregister", ![t].did = TRUE]
  <2>1. PICK r : r = [call[t] EXCEPT !.pc = "unregister", !.did = TRUE]
    OBVIOUS
  <2>2. /\ call' = [call EXCEPT ![t] = r] /\ r \in CallRecord
        /\ r.pc = "unregister" /\ r.alias = b /\ r.did /\ r.schema = call[t].schema
    BY <1>1, <1>2, <2>1 DEF CallRecord, Points
  <2>3. /\ lakes' = lakes /\ attached' \subseteq Aliases
        /\ closed' = closed /\ closed' \in BOOLEAN /\ (closed => closed')
    BY <1>1, <1>2
  <2>4. CallOK(t, r)'
    <3>1. r.pc = "unregister" /\ r.alias # None /\ r.did /\ ~r.schema /\ t \in Detachers
      BY <1>1, <2>2 DEF CallOK
    <3> QED
      BY <3>1 DEF CallOK
  <2>5. OneDetacher => Found(r, lakes')
    <3> SUFFICES ASSUME OneDetacher PROVE Found(r, lakes')
      OBVIOUS
    <3>1. Found(call[t], lakes)
      BY <1>2 DEF RegistryInv, ListInv
    <3> QED
      BY <1>1, <2>2, <2>3, <3>1 DEF Found
  <2>6. ASSUME NEW a \in Aliases
        PROVE  Cardinality(Positions(lakes', a)) + Is(r, "register", a) - Is(call[t], "register", a)
                 = Cardinality(Positions(lakes, a)) + In(a, attached') - In(a, attached)
                     + Is(r, "unregister", a) - Is(call[t], "unregister", a)
    <3>1. Cardinality(Positions(lakes, a)) \in Nat
      BY <1>1, PositionsFinite
    <3>2. /\ Is(r, "register", a) = 0 /\ Is(call[t], "register", a) = 0
          /\ Is(r, "unregister", a) = One(b, a) /\ Is(call[t], "unregister", a) = 0
      BY <1>1, <2>2 DEF Is, One
    <3>3. /\ In(a, attached') + One(b, a) = In(a, attached)
          /\ In(a, attached') \in Nat /\ In(a, attached) \in Nat /\ One(b, a) \in Nat
      BY <1>2 DEF In, One
    <3> HIDE DEF b
    <3> QED
      BY <2>3, <3>1, <3>2, <3>3
  <2>7. \A a \in Aliases : Contains(lakes, a) => Contains(lakes', a)
    BY <2>3
  <2> HIDE DEF b
  <2> QED
    BY <1>1, <2>2, <2>3, <2>4, <2>5, <2>6, <2>7, CallMoves
<1>3. CASE /\ UNCHANGED attached
           /\ \/ \E f \in AttachFailures : Raise(t, "detach", f)
              \/ Raise(t, "detach", "permanent")
  BY <1>1, <1>3, RaiseKeeps
<1> QED
  BY <1>2, <1>3 DEF Detach

LEMMA UnregisterKeeps ==
  ASSUME RegistryInv, NEW t \in Threads, Unregister(t)
  PROVE  RegistryInv'
<1> DEFINE b == call[t].alias
<1>1. /\ call[t].pc = "unregister" /\ UNCHANGED <<attached, closed>>
      /\ lakes' = RemoveFirst(lakes, b)
      /\ CallsInv /\ CallOK(t, call[t]) /\ call[t] \in CallRecord
      /\ lakes \in Seq(Aliases) /\ attached \subseteq Aliases /\ closed \in BOOLEAN
  BY DEF Unregister, RegistryInv, CallsInv
<1>2. PICK r \in CallRecord : /\ call' = [call EXCEPT ![t] = r] /\ r.pc = "idle"
                              /\ r.alias = None /\ ~r.schema /\ ~r.did
  <2>1. Return(t, "ok") \/ Return(t, "error")
    BY DEF Unregister
  <2> QED
    BY <1>1, <2>1, Returns
<1>3. CallOK(t, r)' /\ Found(r, lakes')
  BY <1>2 DEF CallOK, Found
<1>4. /\ attached' = attached /\ attached' \subseteq Aliases
      /\ closed' = closed /\ closed' \in BOOLEAN /\ (closed => closed')
  BY <1>1
<1>5. CASE Contains(lakes, b)
  <2>1. /\ lakes' \in Seq(Aliases)
        /\ \A a : Cardinality(Positions(lakes', a)) = Cardinality(Positions(lakes, a)) - One(b, a)
    BY <1>1, <1>5, PositionsRemoved
  <2>2. ASSUME NEW a \in Aliases
        PROVE  Cardinality(Positions(lakes', a)) + Is(r, "register", a) - Is(call[t], "register", a)
                 = Cardinality(Positions(lakes, a)) + In(a, attached') - In(a, attached)
                     + Is(r, "unregister", a) - Is(call[t], "unregister", a)
    <3>1. /\ Cardinality(Positions(lakes, a)) \in Nat /\ In(a, attached) \in Nat
          /\ In(a, attached') = In(a, attached) /\ One(b, a) \in Nat
      BY <1>1, PositionsFinite DEF In, One
    <3>2. /\ Is(r, "register", a) = 0 /\ Is(call[t], "register", a) = 0
          /\ Is(r, "unregister", a) = 0 /\ Is(call[t], "unregister", a) = One(b, a)
      BY <1>1, <1>2 DEF Is, One
    <3>3. Cardinality(Positions(lakes', a)) = Cardinality(Positions(lakes, a)) - One(b, a)
      BY <2>1
    <3> HIDE DEF b
    <3> QED
      BY <3>1, <3>2, <3>3
  <2> HIDE DEF b
  <2> QED
    BY <1>1, <1>2, <1>3, <1>4, <2>1, <2>2, CallMoves
<1>6. CASE ~Contains(lakes, b)
  <2>1. lakes' = lakes
    BY <1>1, <1>6 DEF RemoveFirst, Contains
  <2>2. closed' \/ ~OneDetacher
    BY <1>1, <1>4, <1>6 DEF RegistryInv, ListInv, Found
  <2> HIDE DEF b
  <2> QED
    BY <1>1, <1>2, <1>3, <1>4, <2>1, <2>2, CallMoves
<1> QED
  BY <1>5, <1>6

(* close() ends all agreement, and no call can come back to it.            *)
LEMMA CloseKeeps ==
  ASSUME RegistryInv, NEW t \in Threads, CloseConnection(t) \/ ClearLakes(t)
  PROVE  RegistryInv'
<1>1. /\ CallsInv /\ CallOK(t, call[t]) /\ call[t] \in CallRecord
      /\ lakes \in Seq(Aliases) /\ attached \subseteq Aliases /\ closed \in BOOLEAN
      /\ <<>> \in Seq(Aliases)
  BY DEF RegistryInv, CallsInv
<1>2. CASE CloseConnection(t)
  <2>1. PICK r \in CallRecord : /\ call' = [call EXCEPT ![t] = r] /\ r.pc = "closing"
                                /\ r.alias = call[t].alias /\ r.schema = call[t].schema
                                /\ r.did = call[t].did
    BY <1>1, <1>2, GoesTo DEF CloseConnection, Points
  <2>2. call[t].pc = "idle" /\ lakes' = lakes /\ attached' = {} /\ closed' = TRUE
    BY <1>2 DEF CloseConnection
  <2>3. CallOK(t, r)'
    BY <1>1, <2>1, <2>2 DEF CallOK
  <2> QED
    BY <1>1, <2>1, <2>2, <2>3, CallMoves
<1>3. CASE ClearLakes(t)
  <2>1. PICK r \in CallRecord : /\ call' = [call EXCEPT ![t] = r] /\ r.pc = "idle"
                                /\ r.alias = None /\ ~r.schema /\ ~r.did
    BY <1>1, <1>3, Returns DEF ClearLakes
  <2>2. call[t].pc = "closing" /\ lakes' = <<>> /\ attached' = attached /\ closed' = closed
    BY <1>3 DEF ClearLakes
  <2>3. closed /\ CallOK(t, r)'
    BY <1>1, <2>1, <2>2 DEF CallOK
  <2> QED
    BY <1>1, <2>1, <2>2, <2>3, CallMoves
<1> QED
  BY <1>2, <1>3

-----------------------------------------------------------------------------
(* The invariant is inductive                                              *)

LEMMA RegistryInvInit == Init => RegistryInv
<1> SUFFICES ASSUME Init PROVE RegistryInv
  OBVIOUS
<1>1. 0 \in 0..RetryAttempts
  BY RegistryAssumption
<1>2. NoCall \in CallRecord
  BY <1>1 DEF NoCall, CallRecord, Points
<1>3. \A t \in Threads : CallOK(t, NoCall) /\ Found(NoCall, lakes)
  BY DEF NoCall, CallOK, Found
<1>4. CallsInv
  <2>0. <<>> \in Seq(Aliases)
    OBVIOUS
  <2>1. lakes \in Seq(Aliases) /\ attached \subseteq Aliases /\ closed \in BOOLEAN
    BY <2>0 DEF Init
  <2>2. /\ call \in [Threads -> CallRecord] /\ \A t \in Threads : call[t] = NoCall
    BY <1>2 DEF Init
  <2> QED
    BY <1>3, <2>1, <2>2 DEF CallsInv
<1>5. ASSUME NEW a \in Aliases
      PROVE  Cardinality(Positions(lakes, a)) + Cardinality(Where(call, "register", a))
               = In(a, attached) + Cardinality(Where(call, "unregister", a))
  <2>1. /\ Positions(lakes, a) = {} /\ Where(call, "register", a) = {}
        /\ Where(call, "unregister", a) = {} /\ In(a, attached) = 0
    BY DEF Init, Positions, Where, NoCall, In
  <2> QED
    BY <2>1, FS_EmptySet
<1> QED
  BY <1>3, <1>4, <1>5 DEF RegistryInv, ListInv, Agrees, Init

LEMMA RegistryInvNext ==
  ASSUME RegistryInv, [Next]_vars
  PROVE  RegistryInv'
<1>1. ASSUME NEW t \in Threads, CallStep(t)
      PROVE  RegistryInv'
  BY <1>1, LookForLakeKeeps, AttachKeeps, RegisterKeeps, ApplySchemaKeeps, LookForDetachKeeps,
     DetachKeeps, UnregisterKeeps, CloseKeeps DEF CallStep
<1>2. ASSUME NEW t \in Threads, \E a \in Aliases : CallAttach(t, a) \/ CallDetach(t, a)
      PROVE  RegistryInv'
  BY <1>2, CallAttachKeeps, CallDetachKeeps
<1>3. ASSUME NEW t \in Threads, CloseConnection(t)
      PROVE  RegistryInv'
  BY <1>3, CloseKeeps
<1>4. CASE UNCHANGED vars
  BY <1>4 DEF vars, RegistryInv, CallsInv, ListInv, CallOK
<1> QED
  BY <1>1, <1>2, <1>3, <1>4 DEF Next

LEMMA AgreesByInv == OneDetacher /\ RegistryInv => RegistryAgrees
<1> SUFFICES ASSUME OneDetacher, RegistryInv PROVE RegistryAgrees
  OBVIOUS
<1>1. RegistryTypeOK
  BY DEF RegistryInv, CallsInv, RegistryTypeOK, CallOK, CallRecord
<1>2. ASSUME ~closed, NEW a \in Aliases
      PROVE  Cardinality({i \in DOMAIN lakes : lakes[i] = a}) + At("register", a)
               = (IF a \in attached THEN 1 ELSE 0) + At("unregister", a)
  BY <1>2 DEF RegistryInv, ListInv, Agrees, Positions, Where, At, In
<1> QED
  BY <1>1, <1>2 DEF RegistryAgrees

(* While one thread at most detaches, and any number of them attach and    *)
(* close, _lakes names each attached database once and no other, up to the *)
(* calls that are between DuckDB and the list.                             *)
THEOREM Registry == OneDetacher => (Spec => []RegistryAgrees)
<1>1. RegistryInv /\ [Next]_vars => RegistryInv'
  BY RegistryInvNext
<1>2. Spec => []RegistryInv
  BY <1>1, RegistryInvInit, PTL DEF Spec
<1> SUFFICES ASSUME OneDetacher PROVE Spec => []RegistryAgrees
  OBVIOUS
<1>3. RegistryInv => RegistryAgrees
  BY AgreesByInv
<1> QED
  BY <1>2, <1>3, PTL

-----------------------------------------------------------------------------
(* What attach_lake() returns to                                           *)

(* The step by which a call returns is one of its own.                     *)
LEMMA OwnStep ==
  ASSUME CallsInv, [Next]_vars, NEW t \in Threads, call'[t] # call[t]
  PROVE  \/ CallStep(t) \/ CloseConnection(t)
         \/ \E a \in Aliases : CallAttach(t, a) \/ CallDetach(t, a)
<1>1. PICK u \in Threads : \/ CallStep(u) \/ CloseConnection(u)
                           \/ \E a \in Aliases : CallAttach(u, a) \/ CallDetach(u, a)
  BY DEF Next, vars
<1>2. \E r : call' = [call EXCEPT ![u] = r]
  BY <1>1 DEF CallStep, LookForLake, Attach, Register, ApplySchema, LookForDetach,
     Detach, Unregister, ClearLakes, CloseConnection, CallAttach, CallDetach,
     Goto, Return, Raise
<1>3. u = t
  BY <1>2 DEF CallsInv
<1> QED
  BY <1>1, <1>3

LEMMA ReturnsAlone ==
  ASSUME CallsInv, NEW t \in Threads, Return(t, "ok"), call[t].pc # "register", NEW a \in Aliases
  PROVE  Where(call', "register", a) = Where(call, "register", a)
<1>1. PICK r \in CallRecord : call' = [call EXCEPT ![t] = r] /\ r.pc = "idle"
  BY Returns
<1>2. call'[t].pc # "register" /\ \A u \in Threads : u # t => call'[u] = call[u]
  BY <1>1 DEF CallsInv
<1> QED
  BY <1>2 DEF Where

(* Raising never returns without an error.                                 *)
LEMMA RaisesNoOk ==
  ASSUME CallsInv, NEW t \in Threads, NEW start \in Points \ {"idle"}, NEW f,
         Raise(t, start, f)
  PROVE  ~(call'[t].pc = "idle" /\ call'[t].result = "ok")
<1>1. PICK r \in CallRecord : call' = [call EXCEPT ![t] = r]
                              /\ (r.pc = start \/ r.result = "error")
  BY Raises
<1>2. call'[t] = r
  BY <1>1 DEF CallsInv
<1> QED
  BY <1>1, <1>2

(* The list, DuckDB and the calls between them, one lake at a time.        *)
LEMMA OnceOrNever ==
  ASSUME OneDetacher, RegistryInv, ~closed, NEW a \in Aliases, At("unregister", a) = 0
  PROVE  /\ Contains(lakes, a) \/ Where(call, "register", a) # {} => a \in attached
         /\ a \in attached => Contains(lakes, a) \/ Where(call, "register", a) # {}
<1> DEFINE P == Positions(lakes, a)
           W == Where(call, "register", a)
<1>1. /\ IsFiniteSet(P) /\ IsFiniteSet(W)
      /\ Cardinality(P) \in Nat /\ Cardinality(W) \in Nat
  <2>1. lakes \in Seq(Aliases)
    BY DEF RegistryInv, CallsInv
  <2> QED
    BY <2>1, PositionsFinite, WhereFinite
<1>2. Cardinality(P) + Cardinality(W) = In(a, attached)
  <2>1. Cardinality(P) + Cardinality(W) = In(a, attached) + Cardinality(Where(call, "unregister", a))
    BY DEF RegistryInv, ListInv, Agrees
  <2>2. Cardinality(Where(call, "unregister", a)) = 0
    BY DEF At, Where
  <2>3. In(a, attached) \in Nat
    BY DEF In
  <2> HIDE DEF P, W
  <2> QED
    BY <2>1, <2>2, <2>3
<1>3. Contains(lakes, a) <=> P # {}
  <2>1. DOMAIN lakes = 1..Len(lakes)
    BY DEF RegistryInv, CallsInv
  <2> QED
    BY <2>1 DEF Contains, Positions
<1>4. (P = {} <=> Cardinality(P) = 0) /\ (W = {} <=> Cardinality(W) = 0)
  <2> HIDE DEF P, W
  <2> QED
    BY <1>1, FS_EmptySet
<1>5. (a \in attached <=> In(a, attached) = 1) /\ In(a, attached) \in {0, 1}
  BY DEF In
<1> HIDE DEF P, W
<1>6. P # {} \/ W # {} <=> a \in attached
  BY <1>1, <1>2, <1>4, <1>5
<1> QED
  BY <1>3, <1>6 DEF W

(* What one step lets attach_lake() return to.                             *)
AttachedNow ==
  \A t \in Attachers, a \in Aliases :
    AttachReturns(t, a) /\ ~closed /\ At("unregister", a) = 0
      => a \in attached /\ (Contains(lakes', a) \/ At("register", a)' > 0)

LEMMA AttachedNext ==
  ASSUME OneDetacher, RegistryInv, [Next]_vars
  PROVE  AttachedNow
<1> SUFFICES ASSUME NEW t \in Attachers, NEW a \in Aliases, AttachReturns(t, a), ~closed,
                    At("unregister", a) = 0
             PROVE  a \in attached /\ (Contains(lakes', a) \/ At("register", a)' > 0)
  BY DEF AttachedNow
<1>1. /\ t \in Threads /\ CallsInv /\ lakes \in Seq(Aliases)
      /\ call[t].pc \in {"attach", "attaching", "register", "schema"} /\ call[t].alias = a
      /\ call'[t].pc = "idle" /\ call'[t].result = "ok"
  BY DEF AttachReturns, Threads, RegistryInv, CallsInv
<1>2. LookForLake(t) \/ Attach(t) \/ Register(t) \/ ApplySchema(t)
  <2>1. call'[t] # call[t]
    BY <1>1
  <2> QED
    BY <1>1, <2>1, OwnStep DEF CallStep, LookForDetach, Detach, Unregister, ClearLakes,
       CloseConnection, CallAttach, CallDetach
<1>3. Where(call', "register", a) # {} => At("register", a)' > 0
  <2>1. IsFiniteSet(Where(call', "register", a)) /\ Cardinality(Where(call', "register", a)) \in Nat
    BY WhereFinite
  <2>2. At("register", a)' = Cardinality(Where(call', "register", a))
    BY DEF At, Where
  <2>3. Where(call', "register", a) # {} => Cardinality(Where(call', "register", a)) # 0
    BY <2>1, FS_EmptySet
  <2> QED
    BY <2>1, <2>2, <2>3
<1>4. CASE LookForLake(t)
  <2>1. Contains(lakes, a) /\ lakes' = lakes
    <3>1. ~Goto(t, "attaching")
      BY <1>1 DEF Goto, CallsInv, CallRecord
    <3> QED
      BY <1>1, <1>4, <3>1 DEF LookForLake
  <2> QED
    BY <2>1, OnceOrNever
<1>5. CASE Attach(t)
  <2>1. CASE \E f \in AttachFailures \cup {"permanent"} : Raise(t, "attach", f)
    BY <1>1, <2>1, RaisesNoOk DEF Points
  <2>2. CASE call' = [call EXCEPT ![t].pc = "register", ![t].did = TRUE]
    BY <1>1, <2>2 DEF CallsInv, CallRecord
  <2> QED
    BY <1>5, <2>1, <2>2 DEF Attach
<1>6. CASE Register(t)
  <2>1. call[t].pc = "register" /\ lakes' = Append(lakes, a)
    BY <1>1, <1>6 DEF Register
  <2>2. t \in Where(call, "register", a)
    BY <1>1, <2>1 DEF Where
  <2>3. Contains(lakes', a)
    BY <1>1, <2>1, AppendProperties DEF Contains
  <2> QED
    BY <2>2, <2>3, OnceOrNever
<1>7. CASE ApplySchema(t)
  <2>1. CASE \E f \in SchemaFailures \cup {"permanent"} : Raise(t, "attach", f)
    BY <1>1, <2>1, RaisesNoOk DEF Points
  <2>2. CASE a \in attached /\ Return(t, "ok")
    <3>1. Where(call', "register", a) = Where(call, "register", a) /\ lakes' = lakes
      BY <1>1, <1>7, <2>2, ReturnsAlone DEF ApplySchema
    <3> QED
      BY <1>3, <2>2, <3>1, OnceOrNever
  <2> QED
    BY <1>1, <1>7, <2>1, <2>2 DEF ApplySchema
<1> QED
  BY <1>2, <1>4, <1>5, <1>6, <1>7

(* While one thread at most detaches, an attach_lake() returns without an  *)
(* error only with its lake attached, and in the list or about to be put   *)
(* there, unless a detach is between the two or the store closes: whatever *)
(* failed in its earlier attempts, and whatever others did between them.   *)
THEOREM AttachedOnReturn == OneDetacher => (Spec => AttachMeansAttached)
<1>1. RegistryInv /\ [Next]_vars => RegistryInv'
  BY RegistryInvNext
<1>2. Spec => []RegistryInv
  BY <1>1, RegistryInvInit, PTL DEF Spec
<1> SUFFICES ASSUME OneDetacher PROVE Spec => AttachMeansAttached
  OBVIOUS
<1>3. RegistryInv /\ [Next]_vars => [AttachedNow]_vars
  BY AttachedNext
<1>4. Spec => [][AttachedNow]_vars
  BY <1>2, <1>3, PTL DEF Spec
<1> QED
  BY <1>4 DEF AttachMeansAttached, AttachedNow

-----------------------------------------------------------------------------
(* The writes to the lakes: the inductive invariant                        *)

Data == [Aliases -> [Modes -> Table]]
LakeWrite == [pc : {"idle", "begin", "run", "commit"}, kind : {"none", "insert", "txn"},
              mode : Modes \cup {"none"}, batch : SUBSET Rows, given : Aliases \cup {None},
              statements : Seq(Rows), oneShot : BOOLEAN, drawn : Nat,
              left : 0..RetryAttempts, alias : Aliases \cup {None},
              removed : Table, added : Table, before : Data, doubt : BOOLEAN,
              calls : Nat, result : {"none", "ok", "error"}]

(* What a call has asked for, and where it is.                             *)
InsertOK(w) ==
  /\ w.batch # {} /\ w.statements = <<>> /\ ~w.oneShot
  /\ w.pc \in {"run", "commit"} => w.alias \in Aliases /\ (w.given # None => w.alias = w.given)
  /\ w.pc = "run" => w.removed = Nothing /\ w.added = Nothing
  /\ w.pc = "commit" /\ w.mode = "append" => w.removed = Nothing /\ w.added = Copies(w.batch)
Drawn(w) == {w.statements[i] : i \in 1..w.drawn}
TransactionOK(w) ==
  /\ w.mode = "append" /\ w.alias \in Aliases /\ w.oneShot \in OneShot
  /\ w.statements # <<>> /\ IsInjective(w.statements)
  /\ w.removed = Nothing
  /\ w.pc = "run" => w.drawn < Len(w.statements)
  /\ w.pc = "commit" => w.drawn = Len(w.statements)
  /\ w.pc \in {"run", "commit"} /\ ~w.oneShot => w.added = Copies(Drawn(w))
WriteOK(w) ==
  /\ w.pc = "idle" <=> w.kind = "none"
  /\ w.kind # "none" => w.mode \in Modes /\ w.result = "none"
  /\ w.drawn \in 0..Len(w.statements)
  /\ w.kind = "insert" => InsertOK(w)
  /\ w.kind = "txn" => TransactionOK(w)
  /\ w.pc = "begin" => /\ w.removed = Nothing /\ w.added = Nothing
                       /\ w.oneShot \/ w.drawn = 0

(* With one writer the data are what its own attempts have made of them:   *)
(* nothing, unless a COMMIT was ambiguous; and what waits for a COMMIT is  *)
(* a change to the table as it is.                                         *)
Fresh(w, d) ==
  w.pc = "commit" /\ w.kind = "insert" =>
    \E c \in Changes(w.mode, d[w.alias][w.mode], w.batch) :
      w.removed = c.removed /\ w.added = c.added
Repeated(w, d) ==
  w.kind = "insert" /\ w.mode # "append" /\ w.given # None =>
    d = w.before \/ d \in Once(w, w.given)
Unique(d) == \A a \in Aliases, m \in Modes \ {"append"} : KeysUnique(d[a][m])
Alone(w, d) ==
  w.pc # "idle" => /\ w.doubt \/ d = w.before
                   /\ Unique(w.before) /\ Fresh(w, d) /\ Repeated(w, d)

OneWriter == \A t, u \in Writers : t = u

WritesInv ==
  /\ data \in Data
  /\ write \in [Writers -> LakeWrite]
  /\ \A t \in Writers : WriteOK(write[t])
  /\ OneWriter => Unique(data) /\ \A t \in Writers : Alone(write[t], data)

-----------------------------------------------------------------------------
(* What becomes of a write                                                 *)

WriteBecomes(t, z) ==
  /\ write' = [write EXCEPT ![t] = z]
  /\ z \in LakeWrite /\ WriteOK(z)
SameWrite(z, w) ==
  /\ z.kind = w.kind /\ z.mode = w.mode /\ z.batch = w.batch /\ z.given = w.given
  /\ z.statements = w.statements /\ z.oneShot = w.oneShot
  /\ z.before = w.before /\ z.result = w.result
  /\ w.kind = "txn" => z.alias = w.alias
AskOK(w) ==
  /\ w.kind \in {"insert", "txn"} /\ w.mode \in Modes /\ w.result = "none"
  /\ w.drawn \in 0..Len(w.statements)
  /\ w.kind = "insert" => w.batch # {} /\ w.statements = <<>> /\ ~w.oneShot
  /\ w.kind = "txn" => /\ w.mode = "append" /\ w.alias \in Aliases /\ w.oneShot \in OneShot
                       /\ w.statements # <<>> /\ IsInjective(w.statements)
EndedWith(z, result) == z.kind = "none" /\ z.result = result /\ z.pc = "idle"

LEMMA NoWriteIs ==
  /\ NoWrite \in LakeWrite
  /\ NoWrite.pc = "idle" /\ NoWrite.kind = "none" /\ NoWrite.mode = "none"
  /\ NoWrite.batch = {} /\ NoWrite.given = None /\ NoWrite.statements = <<>>
  /\ NoWrite.oneShot = FALSE /\ NoWrite.drawn = 0 /\ NoWrite.alias = None
  /\ NoWrite.removed = Nothing /\ NoWrite.added = Nothing
  /\ NoWrite.result = "none" /\ NoWrite.doubt = FALSE /\ NoWrite.calls = 0
<1>1. Nothing \in Table /\ <<>> \in Seq(Rows) /\ 0 \in 0..RetryAttempts
  BY CopiesIs, RegistryAssumption
<1>2. [a \in Aliases |-> [m \in Modes |-> Nothing]] \in Data
  BY <1>1 DEF Data
<1> DEFINE before == [a \in Aliases |-> [m \in Modes |-> Nothing]]
<1>3. NoWrite = [pc |-> "idle", kind |-> "none", mode |-> "none", batch |-> {},
                 given |-> None, statements |-> <<>>, oneShot |-> FALSE, drawn |-> 0,
                 left |-> 0, alias |-> None, removed |-> Nothing, added |-> Nothing,
                 before |-> before, doubt |-> FALSE, calls |-> 0, result |-> "none"]
  BY DEF NoWrite
<1> HIDE DEF before
<1> QED
  BY <1>1, <1>2, <1>3 DEF LakeWrite, before

LEMMA StartIs ==
  ASSUME NEW w \in LakeWrite
  PROVE  /\ Start(w) \in LakeWrite /\ SameWrite(Start(w), w)
         /\ Start(w).pc = "begin" /\ Start(w).alias = w.alias /\ Start(w).doubt = w.doubt
         /\ Start(w).drawn = IF w.oneShot THEN w.drawn ELSE 0
         /\ Start(w).removed = Nothing /\ Start(w).added = Nothing
<1> DEFINE drawn == IF w.oneShot THEN w.drawn ELSE 0
           z == [w EXCEPT !.pc = "begin", !.drawn = drawn, !.removed = Nothing, !.added = Nothing]
<1>1. Nothing \in Table /\ drawn \in Nat
  BY CopiesIs DEF LakeWrite
<1>2. Start(w) = z
  BY DEF Start
<1> HIDE DEF drawn
<1>3. z \in LakeWrite
  BY <1>1 DEF LakeWrite
<1>4. z.pc = "begin" /\ z.drawn = drawn /\ z.removed = Nothing /\ z.added = Nothing
  BY DEF LakeWrite
<1>5. SameWrite(z, w) /\ z.alias = w.alias /\ z.doubt = w.doubt
  BY DEF LakeWrite, SameWrite
<1> HIDE DEF z
<1> QED
  BY <1>2, <1>3, <1>4, <1>5 DEF drawn

LEMMA StartOK ==
  ASSUME NEW w \in LakeWrite, AskOK(w)
  PROVE  WriteOK(Start(w))
<1>1. Len(w.statements) \in Nat
  BY DEF LakeWrite
<1>2. Start(w).drawn \in 0..Len(w.statements)
  BY <1>1, StartIs DEF AskOK
<1> QED
  BY <1>2, StartIs DEF AskOK, WriteOK, InsertOK, TransactionOK, SameWrite

LEMMA EndIs ==
  ASSUME NEW w \in LakeWrite, NEW result \in {"ok", "error"}
  PROVE  /\ End(w, result) \in LakeWrite /\ EndedWith(End(w, result), result)
         /\ End(w, result).doubt = w.doubt /\ WriteOK(End(w, result))
<1> DEFINE z == End(w, result)
<1>1. z = [NoWrite EXCEPT !.result = result, !.doubt = w.doubt, !.calls = w.calls]
  BY DEF End
<1>2. w.calls \in Nat /\ w.doubt \in BOOLEAN
  BY DEF LakeWrite
<1> HIDE DEF z
<1>3. z \in LakeWrite
  BY <1>1, <1>2, NoWriteIs DEF LakeWrite
<1>4. /\ z.pc = "idle" /\ z.kind = "none" /\ z.result = result /\ z.doubt = w.doubt
      /\ z.drawn = 0 /\ z.statements = <<>>
  BY <1>1, NoWriteIs DEF LakeWrite
<1>5. WriteOK(z)
  BY <1>4 DEF WriteOK
<1> QED
  BY <1>3, <1>4, <1>5 DEF z, EndedWith

LEMMA LessLeft ==
  ASSUME NEW w \in LakeWrite, w.left > 1
  PROVE  /\ [w EXCEPT !.left = @ - 1] \in LakeWrite
         /\ SameWrite([w EXCEPT !.left = @ - 1], w)
         /\ [w EXCEPT !.left = @ - 1].alias = w.alias
         /\ [w EXCEPT !.left = @ - 1].doubt = w.doubt
         /\ [w EXCEPT !.left = @ - 1].drawn = w.drawn
<1>1. w.left - 1 \in 0..RetryAttempts
  BY RegistryAssumption DEF LakeWrite
<1> QED
  BY <1>1 DEF LakeWrite, SameWrite

LEMMA WriteAsks ==
  ASSUME NEW w \in LakeWrite, WriteOK(w), w.pc # "idle"
  PROVE  AskOK(w)
  BY DEF WriteOK, AskOK, InsertOK, TransactionOK, LakeWrite

(* An attempt that fails starts again or ends the call.                    *)
LEMMA FailedIs ==
  ASSUME NEW w \in LakeWrite, AskOK(w), NEW f
  PROVE  /\ Failed(w, f) \in LakeWrite /\ WriteOK(Failed(w, f))
         /\ Failed(w, f).doubt = w.doubt
         /\ \/ EndedWith(Failed(w, f), "error")
            \/ SameWrite(Failed(w, f), w) /\ Failed(w, f).pc = "begin"
<1>1. CASE f = "transient" /\ w.left > 1
  <2> DEFINE x == [w EXCEPT !.left = @ - 1]
  <2>1. /\ x \in LakeWrite /\ SameWrite(x, w) /\ x.alias = w.alias
        /\ x.doubt = w.doubt /\ x.drawn = w.drawn
    BY <1>1, LessLeft
  <2>2. Failed(w, f) = Start(x)
    BY <1>1 DEF Failed
  <2> HIDE DEF x
  <2>3. AskOK(x)
    BY <2>1 DEF AskOK, SameWrite
  <2>4. WriteOK(Start(x))
    BY <2>1, <2>3, StartOK
  <2>5. SameWrite(Start(x), w)
    BY <2>1, StartIs DEF SameWrite
  <2> QED
    BY <2>1, <2>2, <2>4, <2>5, StartIs
<1>2. CASE ~(f = "transient" /\ w.left > 1)
  <2>1. Failed(w, f) = End(w, "error")
    BY <1>2 DEF Failed
  <2> QED
    BY <2>1, EndIs
<1> QED
  BY <1>1, <1>2

-----------------------------------------------------------------------------
(* What an attempt does before its COMMIT                                  *)

Goes(t, z) ==
  /\ WriteBecomes(t, z) /\ z.doubt = write[t].doubt
  /\ \/ EndedWith(z, "error")
     \/ SameWrite(z, write[t]) /\ z.pc # "idle" /\ Fresh(z, data)

LEMMA DataIs ==
  ASSUME NEW d \in Data, NEW a \in Aliases, NEW m \in Modes
  PROVE  d[a][m] \in Table
  BY DEF Data

LEMMA FailedGoes ==
  ASSUME NEW t, NEW w \in LakeWrite, AskOK(w), SameWrite(w, write[t]), w.doubt = write[t].doubt,
         NEW f, write' = [write EXCEPT ![t] = Failed(w, f)]
  PROVE  \E z : Goes(t, z)
<1> DEFINE z == Failed(w, f)
<1>1. /\ z \in LakeWrite /\ WriteOK(z) /\ z.doubt = w.doubt
      /\ EndedWith(z, "error") \/ (SameWrite(z, w) /\ z.pc = "begin")
  BY FailedIs
<1>2. write' = [write EXCEPT ![t] = z]
  OBVIOUS
<1> HIDE DEF z
<1>3. CASE EndedWith(z, "error")
  BY <1>1, <1>2, <1>3 DEF Goes, WriteBecomes
<1>4. CASE SameWrite(z, w) /\ z.pc = "begin"
  <2>1. SameWrite(z, write[t])
    BY <1>4 DEF SameWrite
  <2>2. Fresh(z, data)
    BY <1>4 DEF Fresh
  <2> QED
    BY <1>1, <1>2, <1>4, <2>1, <2>2 DEF Goes, WriteBecomes
<1> QED
  BY <1>1, <1>3, <1>4

LEMMA ChooseLakeGoes ==
  ASSUME RegistryInv, WritesInv, NEW t \in Writers, ChooseLake(t)
  PROVE  \E z : Goes(t, z)
<1>1. PICK w \in LakeWrite : w = write[t]
  BY DEF WritesInv
<1>2. WriteOK(w) /\ w.pc = "begin" /\ w.kind = "insert"
  BY <1>1 DEF WritesInv, ChooseLake
<1>3. ASSUME NEW a \in Aliases, w.given # None => a = w.given,
             write' = [write EXCEPT ![t] = [w EXCEPT !.pc = "run", !.alias = a]]
      PROVE  \E z : Goes(t, z)
  <2> DEFINE z == [w EXCEPT !.pc = "run", !.alias = a]
  <2>1. /\ z \in LakeWrite /\ SameWrite(z, w) /\ z.pc = "run" /\ z.alias = a /\ z.doubt = w.doubt
        /\ z.drawn = w.drawn /\ z.removed = w.removed /\ z.added = w.added
    BY <1>2 DEF LakeWrite, SameWrite
  <2>2. write' = [write EXCEPT ![t] = z]
    BY <1>3
  <2> HIDE DEF z
  <2>3. WriteOK(z)
    BY <1>2, <1>3, <2>1 DEF WriteOK, InsertOK, SameWrite
  <2>4. Fresh(z, data)
    BY <2>1 DEF Fresh
  <2> QED
    BY <1>1, <2>1, <2>2, <2>3, <2>4 DEF Goes, WriteBecomes
<1>4. CASE w.given # None
  <2>1. w.given \in Aliases
    BY <1>4 DEF LakeWrite
  <2>2. write' = [write EXCEPT ![t] = [w EXCEPT !.pc = "run", !.alias = w.given]]
    BY <1>1, <1>4 DEF ChooseLake
  <2> QED
    BY <1>3, <2>1, <2>2
<1>5. CASE w.given = None /\ Len(lakes) = 1
  <2>1. Head(lakes) \in Aliases
    <3>1. lakes \in Seq(Aliases) /\ lakes # <<>>
      BY <1>5 DEF RegistryInv, CallsInv
    <3> QED
      BY <3>1, HeadTailProperties
  <2>2. write' = [write EXCEPT ![t] = [w EXCEPT !.pc = "run", !.alias = Head(lakes)]]
    BY <1>1, <1>5 DEF ChooseLake
  <2> QED
    BY <1>3, <1>5, <2>1, <2>2
<1>6. CASE w.given = None /\ Len(lakes) # 1
  <2>1. write' = [write EXCEPT ![t] = Failed(w, "permanent")]
    BY <1>1, <1>6 DEF ChooseLake
  <2>2. AskOK(w) /\ SameWrite(w, write[t]) /\ w.doubt = write[t].doubt
    BY <1>1, <1>2, WriteAsks DEF SameWrite
  <2> QED
    BY <2>1, <2>2, FailedGoes
<1> QED
  BY <1>4, <1>5, <1>6

LEMMA RunInsertGoes ==
  ASSUME WritesInv, NEW t \in Writers, RunInsert(t)
  PROVE  \E z : Goes(t, z)
<1>1. PICK w \in LakeWrite : w = write[t]
  BY DEF WritesInv
<1>2. WriteOK(w) /\ w.pc = "run" /\ w.kind = "insert"
  BY <1>1 DEF WritesInv, RunInsert
<1>3. CASE \E f : write' = [write EXCEPT ![t] = Failed(w, f)]
  <2>1. PICK f : write' = [write EXCEPT ![t] = Failed(w, f)]
    BY <1>3
  <2>2. AskOK(w) /\ SameWrite(w, write[t]) /\ w.doubt = write[t].doubt
    BY <1>1, <1>2, WriteAsks DEF SameWrite
  <2> QED
    BY <2>1, <2>2, FailedGoes
<1>4. CASE \E c \in Changes(w.mode, data[w.alias][w.mode], w.batch) :
             write' = [write EXCEPT ![t] =
               [w EXCEPT !.pc = "commit", !.removed = c.removed, !.added = c.added]]
  <2>1. PICK c \in Changes(w.mode, data[w.alias][w.mode], w.batch) :
          write' = [write EXCEPT ![t] =
            [w EXCEPT !.pc = "commit", !.removed = c.removed, !.added = c.added]]
    BY <1>4
  <2>2. w.alias \in Aliases /\ w.mode \in Modes
    BY <1>2 DEF WriteOK, InsertOK
  <2>3. /\ data[w.alias][w.mode] \in Table /\ w.batch \in SUBSET Rows
        /\ w.mode \in {"append", "insert_ignore", "upsert"}
    <3>1. data[w.alias][w.mode] \in Table
      BY <2>2, DataIs DEF WritesInv
    <3>2. w.mode \in {"append", "insert_ignore", "upsert"}
      BY <2>2, WriteAssumption
    <3> QED
      BY <3>1, <3>2 DEF LakeWrite
  <2>4. /\ c.removed \in Table /\ c.added \in Table
        /\ w.mode = "append" => c.removed = Nothing /\ c.added = Copies(w.batch)
    BY <2>3, ChangeIs
  <2> DEFINE z == [w EXCEPT !.pc = "commit", !.removed = c.removed, !.added = c.added]
  <2>5. /\ z \in LakeWrite /\ SameWrite(z, w) /\ z.pc = "commit" /\ z.alias = w.alias
        /\ z.doubt = w.doubt /\ z.drawn = w.drawn
        /\ z.removed = c.removed /\ z.added = c.added
    BY <2>4 DEF LakeWrite, SameWrite
  <2>6. write' = [write EXCEPT ![t] = z]
    BY <2>1
  <2> HIDE DEF z
  <2>7. WriteOK(z)
    BY <1>2, <2>4, <2>5 DEF WriteOK, InsertOK, SameWrite
  <2>8. Fresh(z, data)
    BY <2>5 DEF Fresh, SameWrite
  <2> QED
    BY <1>1, <2>5, <2>6, <2>7, <2>8 DEF Goes, WriteBecomes
<1> QED
  BY <1>1, <1>3, <1>4 DEF RunInsert

LEMMA LoopingIs ==
  ASSUME NEW w \in LakeWrite, w.drawn \in 0..Len(w.statements)
  PROVE  /\ Looping(w) \in LakeWrite /\ SameWrite(Looping(w), w)
         /\ Looping(w).alias = w.alias /\ Looping(w).doubt = w.doubt
         /\ Looping(w).drawn = w.drawn
         /\ Looping(w).removed = w.removed /\ Looping(w).added = w.added
         /\ Looping(w).pc \in {"run", "commit"}
         /\ Looping(w).pc = "run" => w.drawn < Len(w.statements)
         /\ Looping(w).pc = "commit" => w.drawn = Len(w.statements)
<1> DEFINE pc == IF w.drawn = Len(w.statements) THEN "commit" ELSE "run"
           z == [w EXCEPT !.pc = pc]
<1>1. /\ pc \in {"run", "commit"} /\ (pc = "run" => w.drawn < Len(w.statements))
      /\ pc = "commit" => w.drawn = Len(w.statements)
  BY DEF LakeWrite
<1>2. Looping(w) = z
  BY DEF Looping
<1> HIDE DEF pc
<1>3. z \in LakeWrite
  BY <1>1 DEF LakeWrite
<1>4. /\ SameWrite(z, w) /\ z.alias = w.alias /\ z.doubt = w.doubt /\ z.drawn = w.drawn
      /\ z.removed = w.removed /\ z.added = w.added /\ z.pc = pc
  BY DEF LakeWrite, SameWrite
<1> HIDE DEF z
<1> QED
  BY <1>1, <1>2, <1>3, <1>4

LEMMA BeginTransactionGoes ==
  ASSUME WritesInv, NEW t \in Writers, BeginTransaction(t)
  PROVE  \E z : Goes(t, z)
<1>1. PICK w \in LakeWrite : w = write[t]
  BY DEF WritesInv
<1>2. WriteOK(w) /\ w.pc = "begin" /\ w.kind = "txn"
  BY <1>1 DEF WritesInv, BeginTransaction
<1>3. CASE closed
  <2>1. write' = [write EXCEPT ![t] = Failed(w, "permanent")]
    BY <1>1, <1>3 DEF BeginTransaction
  <2>2. AskOK(w) /\ SameWrite(w, write[t]) /\ w.doubt = write[t].doubt
    BY <1>1, <1>2, WriteAsks DEF SameWrite
  <2> QED
    BY <2>1, <2>2, FailedGoes
<1>4. CASE ~closed
  <2> DEFINE z == Looping(w)
  <2>1. write' = [write EXCEPT ![t] = z]
    BY <1>1, <1>4 DEF BeginTransaction
  <2>2. /\ z \in LakeWrite /\ SameWrite(z, w) /\ z.alias = w.alias /\ z.doubt = w.doubt
        /\ z.drawn = w.drawn /\ z.removed = w.removed /\ z.added = w.added
        /\ z.pc \in {"run", "commit"}
        /\ z.pc = "run" => w.drawn < Len(w.statements)
        /\ z.pc = "commit" => w.drawn = Len(w.statements)
    BY <1>2, LoopingIs DEF WriteOK
  <2> HIDE DEF z
  <2>3. ~z.oneShot => z.added = Copies(Drawn(z))
    <3>1. SUFFICES ASSUME ~z.oneShot PROVE z.added = Copies(Drawn(z))
      OBVIOUS
    <3>2. z.added = Nothing /\ z.drawn = 0
      BY <1>2, <2>2, <3>1 DEF WriteOK, SameWrite
    <3>3. Drawn(z) = {}
      BY <3>2 DEF Drawn
    <3>4. Copies({}) = Nothing
      BY DEF Copies, Nothing
    <3> QED
      BY <3>2, <3>3, <3>4
  <2>4. WriteOK(z)
    BY <1>2, <2>2, <2>3 DEF WriteOK, TransactionOK, SameWrite
  <2>5. Fresh(z, data)
    BY <1>2, <2>2 DEF Fresh, SameWrite
  <2> QED
    BY <1>1, <2>1, <2>2, <2>4, <2>5 DEF Goes, WriteBecomes
<1> QED
  BY <1>3, <1>4

(* The next statement of a transaction adds a row that it has not added.   *)
LEMMA DrawnNext ==
  ASSUME NEW s \in Seq(Rows), IsInjective(s), NEW n \in Nat, n < Len(s)
  PROVE  /\ s[n + 1] \in Rows
         /\ s[n + 1] \notin {s[i] : i \in 1..n}
         /\ {s[i] : i \in 1..(n + 1)} = {s[i] : i \in 1..n} \cup {s[n + 1]}
<1>1. Len(s) \in Nat /\ DOMAIN s = 1..Len(s) /\ \A i \in 1..Len(s) : s[i] \in Rows
  BY ElementOfSeq
<1>2. \A i, j \in 1..Len(s) : s[i] = s[j] => i = j
  BY <1>1 DEF IsInjective
<1>3. n + 1 \in 1..Len(s) /\ \A i \in 1..n : i \in 1..Len(s) /\ i # n + 1
  BY <1>1
<1>4. 1..(n + 1) = (1..n) \cup {n + 1}
  OBVIOUS
<1> QED
  BY <1>1, <1>2, <1>3, <1>4

LEMMA RunStatementGoes ==
  ASSUME WritesInv, NEW t \in Writers, RunStatement(t)
  PROVE  \E z : Goes(t, z)
<1>1. PICK x \in LakeWrite : x = write[t]
  BY DEF WritesInv
<1>2. WriteOK(x) /\ x.pc = "run" /\ x.kind = "txn"
  BY <1>1 DEF WritesInv, RunStatement
<1>3. /\ TransactionOK(x) /\ x.drawn < Len(x.statements) /\ x.drawn \in Nat
      /\ x.statements \in Seq(Rows) /\ x.added \in Table /\ Len(x.statements) \in Nat
  BY <1>2 DEF WriteOK, TransactionOK, LakeWrite
<1> DEFINE w == [x EXCEPT !.drawn = @ + 1]
<1>4. /\ w \in LakeWrite /\ SameWrite(w, x) /\ w.alias = x.alias /\ w.doubt = x.doubt
      /\ w.drawn = x.drawn + 1 /\ w.added = x.added /\ w.removed = x.removed /\ w.pc = x.pc
  BY <1>3 DEF LakeWrite, SameWrite
<1>5. \/ \E f : write' = [write EXCEPT ![t] = Failed(w, f)]
      \/ write' = [write EXCEPT ![t] = Looping([w EXCEPT !.added[w.statements[w.drawn]] = @ + 1])]
  BY <1>1 DEF RunStatement
<1> HIDE DEF w
<1>6. AskOK(w)
  <2>1. w.drawn \in 0..Len(w.statements)
    BY <1>3, <1>4 DEF SameWrite
  <2>2. AskOK(x)
    BY <1>2, WriteAsks
  <2> QED
    BY <1>4, <2>1, <2>2 DEF AskOK, SameWrite
<1>7. CASE \E f : write' = [write EXCEPT ![t] = Failed(w, f)]
  <2>1. PICK f : write' = [write EXCEPT ![t] = Failed(w, f)]
    BY <1>7
  <2>2. SameWrite(w, write[t]) /\ w.doubt = write[t].doubt
    BY <1>1, <1>4
  <2> QED
    BY <1>4, <1>6, <2>1, <2>2, FailedGoes
<1>8. CASE write' = [write EXCEPT ![t] = Looping([w EXCEPT !.added[w.statements[w.drawn]] = @ + 1])]
  <2>1. PICK r \in Rows : r = w.statements[w.drawn]
    BY <1>3, <1>4, DrawnNext DEF TransactionOK, SameWrite
  <2>2. PICK f \in Table : f = w.added
    BY <1>3, <1>4
  <2>3. [f EXCEPT ![r] = f[r] + 1] \in Table
    BY DEF Table
  <2>4. PICK added \in Table : added = [f EXCEPT ![r] = f[r] + 1]
    BY <2>3
  <2> DEFINE y == [w EXCEPT !.added = added]
             z == Looping(y)
  <2>5. write' = [write EXCEPT ![t] = z]
    BY <1>8, <2>1, <2>2, <2>4
  <2>6. /\ y \in LakeWrite /\ SameWrite(y, w) /\ y.alias = w.alias /\ y.doubt = w.doubt
        /\ y.drawn = w.drawn /\ y.added = added /\ y.removed = w.removed
    BY <1>4 DEF LakeWrite, SameWrite
  <2> HIDE DEF y
  <2>7. y.drawn \in 0..Len(y.statements)
    BY <1>6, <2>6 DEF AskOK, SameWrite
  <2>8. /\ z \in LakeWrite /\ SameWrite(z, y) /\ z.alias = y.alias /\ z.doubt = y.doubt
        /\ z.drawn = y.drawn /\ z.removed = y.removed /\ z.added = y.added
        /\ z.pc \in {"run", "commit"}
        /\ z.pc = "run" => y.drawn < Len(y.statements)
        /\ z.pc = "commit" => y.drawn = Len(y.statements)
    BY <2>6, <2>7, LoopingIs
  <2> HIDE DEF z
  <2>9. /\ SameWrite(z, x) /\ z.alias = x.alias /\ z.doubt = x.doubt
        /\ z.drawn = x.drawn + 1 /\ z.removed = x.removed /\ z.added = added
    BY <1>4, <2>6, <2>8 DEF SameWrite
  <2>10. ~z.oneShot => z.added = Copies(Drawn(z))
    <3> SUFFICES ASSUME ~z.oneShot PROVE z.added = Copies(Drawn(z))
      OBVIOUS
    <3>1. f = Copies(Drawn(x))
      BY <1>2, <1>3, <1>4, <2>2, <2>9 DEF TransactionOK, SameWrite
    <3>2. r = x.statements[x.drawn + 1] /\ r \notin Drawn(x) /\ Drawn(z) = Drawn(x) \cup {r}
      BY <1>3, <1>4, <2>1, <2>9, DrawnNext DEF TransactionOK, SameWrite, Drawn
    <3>3. \A q \in Rows : added[q] = Copies(Drawn(z))[q]
      BY <2>4, <3>1, <3>2, CopiesIs DEF Table
    <3> QED
      BY <2>9, <3>3, CopiesIs, TableEqual
  <2>11. z.drawn \in 0..Len(z.statements)
    BY <2>7, <2>8 DEF SameWrite
  <2>12. WriteOK(z)
    BY <1>2, <1>3, <2>8, <2>9, <2>10, <2>11 DEF WriteOK, TransactionOK, SameWrite
  <2>13. Fresh(z, data)
    BY <1>2, <2>9 DEF Fresh, SameWrite
  <2> QED
    BY <1>1, <2>5, <2>8, <2>9, <2>12, <2>13 DEF Goes, WriteBecomes
<1> QED
  BY <1>5, <1>7, <1>8

-----------------------------------------------------------------------------
(* Calls                                                                   *)

Begins(t, z) == WriteBecomes(t, z) /\ z.pc = "begin" /\ z.before = data /\ ~z.doubt

LEMMA AttemptsIs ==
  ASSUME NEW left \in Attempts
  PROVE  left \in 0..RetryAttempts
  BY RegistryAssumption DEF Attempts

LEMMA CallInsertBegins ==
  ASSUME WritesInv, NEW t \in Writers, NEW m \in Modes, NEW batch \in Batches,
         CallInsert(t, m, batch)
  PROVE  \E z : Begins(t, z) /\ z.kind = "insert" /\ z.mode = m /\ z.batch = batch
<1>1. PICK lake \in Aliases \cup {None}, left \in Attempts :
        write' = [write EXCEPT ![t] =
          Start([NoWrite EXCEPT !.kind = "insert", !.mode = m, !.batch = batch,
                                !.given = lake, !.left = left, !.before = data,
                                !.calls = write[t].calls + 1])]
  BY DEF CallInsert
<1> DEFINE w == [NoWrite EXCEPT !.kind = "insert", !.mode = m, !.batch = batch,
                                !.given = lake, !.left = left, !.before = data,
                                !.calls = write[t].calls + 1]
<1>2. /\ batch \subseteq Rows /\ batch # {} /\ data \in Data /\ left \in 0..RetryAttempts
      /\ write[t].calls + 1 \in Nat
  BY AttemptsIs DEF Batches, WritesInv, LakeWrite
<1>3. w \in LakeWrite
  BY <1>2, NoWriteIs DEF LakeWrite
<1>4. /\ w.kind = "insert" /\ w.mode = m /\ w.batch = batch /\ w.before = data
      /\ w.result = "none" /\ w.statements = <<>> /\ w.oneShot = FALSE /\ w.drawn = 0
      /\ w.doubt = FALSE
  BY NoWriteIs DEF LakeWrite
<1>5. write' = [write EXCEPT ![t] = Start(w)]
  BY <1>1
<1> HIDE DEF w
<1>6. AskOK(w)
  BY <1>2, <1>4 DEF AskOK
<1> DEFINE z == Start(w)
<1>7. /\ z \in LakeWrite /\ WriteOK(z) /\ SameWrite(z, w)
      /\ z.pc = "begin" /\ z.alias = w.alias /\ z.doubt = w.doubt
  BY <1>3, <1>6, StartOK, StartIs
<1> HIDE DEF z
<1>8. write' = [write EXCEPT ![t] = z]
  BY <1>5 DEF z
<1>9. Begins(t, z)
  BY <1>4, <1>7, <1>8 DEF Begins, WriteBecomes, SameWrite
<1> QED
  BY <1>4, <1>7, <1>9 DEF SameWrite

LEMMA LakeScriptIs ==
  ASSUME NEW script \in Scripts
  PROVE  /\ script \in Seq(Rows) /\ script # <<>> /\ IsInjective(script)
         /\ Range(script) \in Batches /\ Len(script) \in Nat
<1>1. PICK i \in 1..2 : script \in [1..i -> Rows]
  BY DEF Scripts
<1>2. script \in Seq(Rows) /\ script # <<>> /\ DOMAIN script = 1..i /\ 1 \in DOMAIN script
  BY <1>1
<1>3. Range(script) \subseteq Rows /\ script[1] \in Range(script)
  BY <1>1, <1>2 DEF Range
<1> QED
  BY <1>2, <1>3 DEF Scripts, Batches

LEMMA CallTransactionBegins ==
  ASSUME WritesInv, NEW t \in Writers, NEW a \in Aliases, NEW script \in Scripts,
         CallTransaction(t, a, script)
  PROVE  \E z : /\ Begins(t, z) /\ z.kind = "txn" /\ z.mode = "append" /\ "append" \in Modes
                /\ z.alias = a /\ z.statements = script /\ z.oneShot \in OneShot
<1>1. PICK oneShot \in OneShot, left \in Attempts :
        write' = [write EXCEPT ![t] =
          Start([NoWrite EXCEPT !.kind = "txn", !.mode = "append", !.alias = a,
                                !.statements = script, !.oneShot = oneShot,
                                !.left = left, !.before = data,
                                !.calls = write[t].calls + 1])]
  BY DEF CallTransaction
<1> DEFINE w == [NoWrite EXCEPT !.kind = "txn", !.mode = "append", !.alias = a,
                                !.statements = script, !.oneShot = oneShot,
                                !.left = left, !.before = data,
                                !.calls = write[t].calls + 1]
<1>2. /\ script \in Seq(Rows) /\ script # <<>> /\ IsInjective(script) /\ Len(script) \in Nat
      /\ data \in Data /\ left \in 0..RetryAttempts /\ oneShot \in BOOLEAN
      /\ write[t].calls + 1 \in Nat /\ "append" \in Modes
  BY AttemptsIs, LakeScriptIs, WriteAssumption DEF WritesInv, LakeWrite, CallTransaction
<1>3. w \in LakeWrite
  BY <1>2, NoWriteIs DEF LakeWrite
<1>4. /\ w.kind = "txn" /\ w.mode = "append" /\ w.alias = a /\ w.before = data
      /\ w.result = "none" /\ w.statements = script /\ w.oneShot = oneShot /\ w.drawn = 0
      /\ w.doubt = FALSE
  BY NoWriteIs DEF LakeWrite
<1>5. write' = [write EXCEPT ![t] = Start(w)]
  BY <1>1
<1> HIDE DEF w
<1>6. AskOK(w)
  BY <1>2, <1>4 DEF AskOK
<1> DEFINE z == Start(w)
<1>7. /\ z \in LakeWrite /\ WriteOK(z) /\ SameWrite(z, w)
      /\ z.pc = "begin" /\ z.alias = w.alias /\ z.doubt = w.doubt
  BY <1>3, <1>6, StartOK, StartIs
<1> HIDE DEF z
<1>8. write' = [write EXCEPT ![t] = z]
  BY <1>5 DEF z
<1>9. Begins(t, z)
  BY <1>4, <1>7, <1>8 DEF Begins, WriteBecomes, SameWrite
<1> QED
  BY <1>2, <1>4, <1>7, <1>9 DEF SameWrite

-----------------------------------------------------------------------------
(* COMMIT                                                                  *)

Put(d, a, m, table) == [d EXCEPT ![a][m] = table]

LEMMA PutIs ==
  ASSUME NEW d \in Data, NEW a \in Aliases, NEW m \in Modes, NEW table \in Table
  PROVE  /\ Put(d, a, m, table) \in Data
         /\ \A b \in Aliases, n \in Modes :
              Put(d, a, m, table)[b][n] = IF b = a /\ n = m THEN table ELSE d[b][n]
<1> DEFINE row == [d[a] EXCEPT ![m] = table]
<1>1. row \in [Modes -> Table] /\ \A n \in Modes : row[n] = IF n = m THEN table ELSE d[a][n]
  BY DEF Data
<1>2. Put(d, a, m, table) = [d EXCEPT ![a] = row]
  BY DEF Put
<1> HIDE DEF row
<1> QED
  BY <1>1, <1>2 DEF Data

LEMMA PutTwice ==
  ASSUME NEW d \in Data, NEW a \in Aliases, NEW m \in Modes,
         NEW table \in Table, NEW later \in Table
  PROVE  Put(Put(d, a, m, table), a, m, later) = Put(d, a, m, later)
<1> DEFINE x == Put(Put(d, a, m, table), a, m, later)
           y == Put(d, a, m, later)
<1>1. Put(d, a, m, table) \in Data
  BY PutIs
<1>2. x \in Data /\ y \in Data
  BY <1>1, PutIs
<1>3. \A b \in Aliases, n \in Modes : x[b][n] = y[b][n]
  BY <1>1, PutIs
<1> HIDE DEF x, y
<1>4. \A b \in Aliases : x[b] = y[b]
  BY <1>2, <1>3 DEF Data
<1>5. x = y
  BY <1>2, <1>4 DEF Data
<1> QED
  BY <1>5 DEF x, y

(* The rows that a call has asked for.                                     *)
BatchOf(w) == IF w.kind = "txn" THEN Range(w.statements) ELSE w.batch

LEMMA CommitIs ==
  ASSUME WritesInv, NEW t \in Writers, NEW o, Commit(t, o), NEW w \in LakeWrite, w = write[t]
  PROVE  /\ WriteOK(w) /\ w.pc = "commit" /\ w.kind \in {"insert", "txn"}
         /\ w.alias \in Aliases /\ w.mode \in Modes
         /\ data[w.alias][w.mode] \in Table
         /\ o = "rolledBack" => data' = data
         /\ o # "rolledBack" =>
              /\ Changed(data[w.alias][w.mode], w) \in Table
              /\ data' = Put(data, w.alias, w.mode, Changed(data[w.alias][w.mode], w))
         /\ o = "committed" => \E z : /\ WriteBecomes(t, z) /\ EndedWith(z, "ok")
                                      /\ z.doubt = w.doubt
         /\ o # "committed" => \E z : /\ WriteBecomes(t, z)
                                      /\ z.doubt = (w.doubt \/ o = "ambiguous")
                                      /\ \/ EndedWith(z, "error")
                                         \/ SameWrite(z, w) /\ z.pc = "begin"
<1>1. WriteOK(w) /\ w.pc = "commit" /\ w.kind \in {"insert", "txn"}
  BY DEF WritesInv, Commit, WriteOK, LakeWrite
<1>2. w.alias \in Aliases /\ w.mode \in Modes
  BY <1>1 DEF WriteOK, InsertOK, TransactionOK
<1>3. PICK table \in Table : table = data[w.alias][w.mode]
  BY <1>2, DataIs DEF WritesInv
<1>4. o = "rolledBack" => data' = data
  BY DEF Commit
<1>5. ASSUME o # "rolledBack"
      PROVE  /\ Changed(table, w) \in Table
             /\ data' = Put(data, w.alias, w.mode, Changed(table, w))
  <2>1. \A r \in Rows : w.removed[r] <= table[r]
    BY <1>3, <1>5 DEF Commit
  <2>2. w.removed \in Table /\ w.added \in Table
    BY DEF LakeWrite
  <2>3. data' = [data EXCEPT ![w.alias][w.mode] = Changed(@, w)]
    BY <1>5 DEF Commit
  <2> QED
    BY <1>3, <2>1, <2>2, <2>3, ChangedIs DEF Put
<1>6. ASSUME o = "committed"
      PROVE  \E z : WriteBecomes(t, z) /\ EndedWith(z, "ok") /\ z.doubt = w.doubt
  <2>1. write' = [write EXCEPT ![t] = End(w, "ok")]
    BY <1>6 DEF Commit
  <2> QED
    BY <2>1, EndIs DEF WriteBecomes
<1>7. ASSUME o # "committed"
      PROVE  \E z : /\ WriteBecomes(t, z) /\ z.doubt = (w.doubt \/ o = "ambiguous")
                    /\ \/ EndedWith(z, "error")
                       \/ SameWrite(z, w) /\ z.pc = "begin"
  <2> DEFINE doubt == w.doubt \/ o = "ambiguous"
             x == [w EXCEPT !.doubt = doubt]
  <2>1. PICK f : write' = [write EXCEPT ![t] = Failed(x, f)]
    BY <1>7 DEF Commit
  <2>2. doubt \in BOOLEAN
    BY DEF LakeWrite
  <2> HIDE DEF doubt
  <2>3. /\ x \in LakeWrite /\ SameWrite(x, w) /\ x.doubt = doubt /\ x.drawn = w.drawn
        /\ x.alias = w.alias
    BY <2>2 DEF LakeWrite, SameWrite
  <2> HIDE DEF x
  <2>4. AskOK(w)
    BY <1>1, WriteAsks
  <2>5. AskOK(x)
    BY <2>3, <2>4 DEF AskOK, SameWrite
  <2> DEFINE z == Failed(x, f)
  <2>6. /\ z \in LakeWrite /\ WriteOK(z) /\ z.doubt = doubt
        /\ EndedWith(z, "error") \/ (SameWrite(z, x) /\ z.pc = "begin")
    BY <2>3, <2>5, FailedIs
  <2> HIDE DEF z
  <2>7. SameWrite(z, x) => SameWrite(z, w)
    BY <2>3 DEF SameWrite
  <2>8. WriteBecomes(t, z)
    BY <2>1, <2>6 DEF WriteBecomes, z
  <2> QED
    BY <2>6, <2>7, <2>8 DEF doubt
<1> QED
  BY <1>1, <1>2, <1>3, <1>4, <1>5, <1>6, <1>7

(* What a COMMIT makes of a table is what the write makes of it at that    *)
(* moment: for an insert because its own statement saw that table, with no *)
(* other writer, and for a transaction because it only adds rows.          *)
LEMMA CommitChanges ==
  ASSUME NEW w \in LakeWrite, NEW d \in Data, WriteOK(w), w.pc = "commit", ~w.oneShot,
         w.kind = "insert" => Fresh(w, d) \/ w.mode = "append"
  PROVE  \E c \in Changes(w.mode, d[w.alias][w.mode], BatchOf(w)) :
           Changed(d[w.alias][w.mode], w) = Changed(d[w.alias][w.mode], c)
<1> DEFINE table == d[w.alias][w.mode]
<1>1. \A c : c.removed = w.removed /\ c.added = w.added => Changed(table, w) = Changed(table, c)
  BY DEF Changed
<1> HIDE DEF table
<1>2. CASE w.kind = "insert"
  <2>1. \E c \in Changes(w.mode, table, w.batch) : w.removed = c.removed /\ w.added = c.added
    <3>1. CASE Fresh(w, d)
      BY <1>2, <3>1 DEF Fresh, table
    <3>2. CASE w.mode = "append"
      <4>1. w.removed = Nothing /\ w.added = Copies(w.batch)
        BY <1>2, <3>2 DEF WriteOK, InsertOK
      <4> QED
        BY <3>2, <4>1 DEF Changes, Inserted
    <3> QED
      BY <1>2, <3>1, <3>2
  <2> QED
    BY <1>1, <1>2, <2>1 DEF BatchOf, table
<1>3. CASE w.kind = "txn"
  <2>1. /\ w.mode = "append" /\ w.removed = Nothing /\ w.added = Copies(Drawn(w))
        /\ w.drawn = Len(w.statements)
    BY <1>3 DEF WriteOK, TransactionOK
  <2>2. Drawn(w) = Range(w.statements)
    <3>1. w.statements \in Seq(Rows)
      BY DEF LakeWrite
    <3>2. DOMAIN w.statements = 1..Len(w.statements)
      BY <3>1
    <3> QED
      BY <2>1, <3>2 DEF Drawn, Range
  <2> DEFINE c == [removed |-> Nothing, added |-> Copies(Range(w.statements))]
  <2>3. c \in Changes(w.mode, table, BatchOf(w))
    BY <1>3, <2>1 DEF Changes, Inserted, BatchOf
  <2>4. c.removed = w.removed /\ c.added = w.added
    BY <2>1, <2>2
  <2> HIDE DEF c
  <2> QED
    BY <1>1, <2>3, <2>4 DEF table
<1>4. w.kind \in {"insert", "txn"}
  BY DEF WriteOK, LakeWrite
<1> QED
  BY <1>2, <1>3, <1>4

(* A call on keys may be applied once more to what it has made.            *)
LEMMA OnceMore ==
  ASSUME NEW w \in LakeWrite, NEW d \in Data, w.kind = "insert",
         w.mode \in Modes \ {"append"}, NEW a \in Aliases, Unique(w.before),
         d = w.before \/ d \in Once(w, a),
         NEW c \in Changes(w.mode, d[a][w.mode], w.batch)
  PROVE  Put(d, a, w.mode, Changed(d[a][w.mode], c)) \in Once(w, a)
<1> DEFINE m == w.mode
           first == w.before[a][m]
<1>1. /\ m \in Modes /\ m \in {"insert_ignore", "upsert"} /\ w.before \in Data
      /\ w.batch \in SUBSET Rows
  BY WriteAssumption DEF LakeWrite
<1>2. first \in Table /\ KeysUnique(first)
  BY <1>1, DataIs DEF Unique
<1>3. \A e \in Changes(m, first, w.batch) : Put(w.before, a, m, Changed(first, e)) \in Once(w, a)
  BY DEF Once, Put
<1>4. CASE d = w.before
  BY <1>3, <1>4
<1>5. CASE d # w.before
  <2>1. PICK e \in Changes(m, first, w.batch) : d = Put(w.before, a, m, Changed(first, e))
    BY <1>5 DEF Once, Put
  <2>2. PICK between \in Table : between = Changed(first, e)
    BY <1>1, <1>2, ChangeIs, ChangedIs
  <2>3. d[a][m] = between
    BY <1>1, <2>1, <2>2, PutIs
  <2>4. PICK b \in Changes(m, first, w.batch) : Changed(between, c) = Changed(first, b)
    <3> HIDE DEF m, first
    <3>1. c \in Changes(m, between, w.batch)
      BY <2>3 DEF m
    <3> QED
      BY <1>1, <1>2, <2>2, <3>1, ChangedTwice
  <2>5. Changed(first, b) \in Table
    BY <1>1, <1>2, ChangeIs, ChangedIs
  <2> HIDE DEF first
  <2>6. Put(d, a, m, Changed(first, b)) = Put(w.before, a, m, Changed(first, b))
    BY <1>1, <2>1, <2>2, <2>5, PutTwice
  <2> QED
    BY <1>3, <2>3, <2>4, <2>6
<1> QED
  BY <1>4, <1>5

-----------------------------------------------------------------------------
(* The invariant holds                                                     *)

LEMMA WritesKeep ==
  ASSUME WritesInv, NEW t \in Writers, NEW z, WriteBecomes(t, z), data' \in Data,
         OneWriter => Unique(data') /\ Alone(z, data')
  PROVE  WritesInv'
<1>1. /\ write' \in [Writers -> LakeWrite]
      /\ \A u \in Writers : write'[u] = IF u = t THEN z ELSE write[u]
  BY DEF WriteBecomes, WritesInv
<1>2. \A u \in Writers : WriteOK(write'[u])
  BY <1>1 DEF WriteBecomes, WritesInv
<1>3. OneWriter => Unique(data') /\ \A u \in Writers : Alone(write'[u], data')
  BY <1>1 DEF OneWriter
<1> QED
  BY <1>1, <1>2, <1>3 DEF WritesInv

LEMMA SameAlone ==
  ASSUME NEW z, NEW w, SameWrite(z, w), Alone(w, data), w.pc # "idle",
         z.doubt = w.doubt, Fresh(z, data)
  PROVE  Alone(z, data)
<1>1. Once(z, z.given) = Once(w, w.given)
  BY DEF SameWrite, Once
<1> QED
  BY <1>1 DEF SameWrite, Alone, Repeated

LEMMA GoesKeeps ==
  ASSUME WritesInv, NEW t \in Writers, NEW z, Goes(t, z), write[t].pc # "idle", data' = data
  PROVE  WritesInv'
<1>1. WriteBecomes(t, z) /\ data' \in Data
  BY DEF Goes, WritesInv
<1>2. ASSUME OneWriter PROVE Unique(data') /\ Alone(z, data')
  <2>1. Unique(data) /\ Alone(write[t], data)
    BY <1>2 DEF WritesInv
  <2>2. CASE EndedWith(z, "error")
    BY <2>1, <2>2 DEF EndedWith, Alone
  <2>3. CASE SameWrite(z, write[t]) /\ z.pc # "idle" /\ Fresh(z, data)
    <3>1. Alone(z, data)
      BY <2>1, <2>3, SameAlone DEF Goes
    <3> QED
      BY <2>1, <3>1
  <2> QED
    BY <2>2, <2>3 DEF Goes
<1> QED
  BY <1>1, <1>2, WritesKeep

LEMMA BeginsKeeps ==
  ASSUME WritesInv, NEW t \in Writers, NEW z, Begins(t, z), data' = data
  PROVE  WritesInv'
<1>1. WriteBecomes(t, z) /\ data' \in Data
  BY DEF Begins, WritesInv
<1>2. ASSUME OneWriter PROVE Unique(data') /\ Alone(z, data')
  <2>1. Unique(data)
    BY <1>2 DEF WritesInv
  <2> QED
    BY <2>1 DEF Begins, Alone, Fresh, Repeated
<1> QED
  BY <1>1, <1>2, WritesKeep

LEMMA LakeCommitKeeps ==
  ASSUME WritesInv, NEW t \in Writers, NEW o \in CommitOutcomes, Commit(t, o)
  PROVE  WritesInv'
<1>1. PICK w \in LakeWrite : w = write[t]
  BY DEF WritesInv
<1>2. /\ WriteOK(w) /\ w.pc = "commit" /\ w.kind \in {"insert", "txn"}
      /\ w.alias \in Aliases /\ w.mode \in Modes /\ data[w.alias][w.mode] \in Table
      /\ o = "rolledBack" => data' = data
      /\ o # "rolledBack" =>
           /\ Changed(data[w.alias][w.mode], w) \in Table
           /\ data' = Put(data, w.alias, w.mode, Changed(data[w.alias][w.mode], w))
  BY <1>1, CommitIs
<1>3. data' \in Data
  BY <1>2, PutIs DEF WritesInv
<1>4. PICK z : /\ WriteBecomes(t, z)
               /\ \/ z.pc = "idle"
                  \/ SameWrite(z, w) /\ z.pc = "begin" /\ o # "committed"
                                     /\ z.doubt = (w.doubt \/ o = "ambiguous")
  <2>1. CASE o = "committed"
    BY <1>1, <2>1, CommitIs DEF EndedWith
  <2>2. CASE o # "committed"
    BY <1>1, <2>2, CommitIs DEF EndedWith
  <2> QED
    BY <2>1, <2>2
<1>5. ASSUME OneWriter PROVE Unique(data') /\ Alone(z, data')
  <2>1. Unique(data) /\ Alone(w, data)
    BY <1>1, <1>5 DEF WritesInv
  <2>2. CASE o = "rolledBack"
    <3>1. data' = data
      BY <1>2, <2>2
    <3>2. CASE z.pc = "idle"
      BY <2>1, <3>1, <3>2 DEF Alone
    <3>3. CASE SameWrite(z, w) /\ z.pc = "begin" /\ z.doubt = (w.doubt \/ o = "ambiguous")
      <4>1. Fresh(z, data)
        BY <3>3 DEF Fresh
      <4>2. z.doubt = w.doubt
        BY <2>2, <3>3 DEF LakeWrite
      <4>3. Alone(z, data)
        BY <1>2, <2>1, <3>3, <4>1, <4>2, SameAlone
      <4> QED
        BY <2>1, <3>1, <4>3
    <3> QED
      BY <1>4, <3>2, <3>3
  <2>3. CASE o # "rolledBack"
    <3> DEFINE table == data[w.alias][w.mode]
               after == Changed(table, w)
    <3>1. /\ table \in Table /\ after \in Table /\ data \in Data
          /\ data' = Put(data, w.alias, w.mode, after)
      BY <1>2, <2>3 DEF WritesInv
    <3>2. ASSUME w.mode # "append"
          PROVE  /\ w.kind = "insert"
                 /\ KeysUnique(after)
                 /\ \E c \in Changes(w.mode, table, w.batch) : after = Changed(table, c)
      <4>1. w.kind = "insert" /\ ~w.oneShot
        BY <1>2, <3>2 DEF WriteOK, TransactionOK, InsertOK
      <4>2. Fresh(w, data)
        BY <1>2, <2>1 DEF Alone
      <4>3. PICK c \in Changes(w.mode, table, BatchOf(w)) : after = Changed(table, c)
        BY <1>2, <3>1, <4>1, <4>2, CommitChanges
      <4>4. BatchOf(w) = w.batch /\ w.batch \in SUBSET Rows
        BY <4>1 DEF BatchOf, LakeWrite
      <4>5. w.mode \in {"insert_ignore", "upsert"} /\ KeysUnique(table)
        BY <1>2, <2>1, <3>2, WriteAssumption DEF Unique
      <4> HIDE DEF table, after
      <4>6. Left(w.mode, table, w.batch, after)
        BY <3>1, <4>3, <4>4, <4>5, ChangeLeaves
      <4>7. KeysUnique(after)
        BY <3>1, <4>4, <4>5, <4>6, LeftKeeps
      <4> QED
        BY <4>1, <4>3, <4>4, <4>7
    <3> HIDE DEF after
    <3>3. Unique(data')
      <4> SUFFICES ASSUME NEW a \in Aliases, NEW m \in Modes \ {"append"}
                   PROVE  KeysUnique(Put(data, w.alias, w.mode, after)[a][m])
        BY <3>1 DEF Unique
      <4>1. Put(data, w.alias, w.mode, after)[a][m]
              = IF a = w.alias /\ m = w.mode THEN after ELSE data[a][m]
        BY <1>2, <3>1, PutIs
      <4>2. KeysUnique(data[a][m])
        BY <2>1 DEF Unique
      <4> QED
        BY <3>2, <4>1, <4>2
    <3>4. CASE z.pc = "idle"
      BY <3>3, <3>4 DEF Alone
    <3>5. CASE SameWrite(z, w) /\ z.pc = "begin" /\ z.doubt = (w.doubt \/ o = "ambiguous")
                               /\ o # "committed"
      <4>1. z.doubt
        BY <2>3, <3>5, WriteAssumption
      <4>2. Fresh(z, data') /\ Unique(z.before)
        BY <1>2, <2>1, <3>5 DEF Fresh, Alone, SameWrite
      <4>3. Repeated(z, data')
        <5> SUFFICES ASSUME w.kind = "insert", w.mode # "append", w.given # None
                     PROVE  data' \in Once(w, w.given)
          BY <3>5 DEF Repeated, SameWrite, Once
        <5>1. w.alias = w.given /\ w.given \in Aliases
          BY <1>2 DEF WriteOK, InsertOK
        <5>2. Unique(w.before) /\ (data = w.before \/ data \in Once(w, w.given))
          BY <1>2, <2>1 DEF Alone, Repeated
        <5>3. PICK c \in Changes(w.mode, table, w.batch) : after = Changed(table, c)
          BY <3>2
        <5>4. Put(data, w.given, w.mode, Changed(table, c)) \in Once(w, w.given)
          BY <1>2, <3>1, <5>1, <5>2, OnceMore
        <5> QED
          BY <3>1, <5>1, <5>3, <5>4
      <4> QED
        BY <3>3, <4>1, <4>2, <4>3 DEF Alone
    <3> QED
      BY <1>4, <3>4, <3>5
  <2> QED
    BY <2>2, <2>3
<1> QED
  BY <1>3, <1>4, <1>5, WritesKeep

LEMMA WritesInvInit == WriteInit => WritesInv
<1> SUFFICES ASSUME WriteInit PROVE WritesInv
  OBVIOUS
<1>1. Nothing \in Table
  BY CopiesIs
<1>2. data \in Data /\ \A a \in Aliases, m \in Modes : data[a][m] = Nothing
  BY <1>1 DEF WriteInit, Data
<1>3. write \in [Writers -> LakeWrite] /\ \A t \in Writers : write[t] = NoWrite
  BY NoWriteIs DEF WriteInit
<1>4. WriteOK(NoWrite) /\ Alone(NoWrite, data)
  BY NoWriteIs DEF WriteOK, Alone
<1>5. KeysUnique(Nothing)
  BY CopiesIs DEF KeysUnique
<1>6. Unique(data)
  BY <1>2, <1>5 DEF Unique
<1> QED
  BY <1>2, <1>3, <1>4, <1>6 DEF WritesInv

Attempting(t) == ChooseLake(t) \/ RunInsert(t) \/ BeginTransaction(t) \/ RunStatement(t)
CallsWrite(t) ==
  \/ \E m \in Modes, batch \in Batches : CallInsert(t, m, batch)
  \/ \E a \in Aliases, script \in Scripts : CallTransaction(t, a, script)

LEMMA WriteNextIs ==
  ASSUME [WriteNext]_writeVars
  PROVE  \/ UNCHANGED <<data, write>> /\ [Next]_vars
         \/ UNCHANGED vars /\ \E t \in Writers :
              \/ CallsWrite(t) \/ Attempting(t)
              \/ \E o \in CommitOutcomes : Commit(t, o)
<1>1. UNCHANGED writeVars => UNCHANGED <<data, write>> /\ UNCHANGED vars
  BY DEF writeVars
<1>2. ASSUME NEW t \in Writers, CallsWrite(t) \/ Attempting(t)
      PROVE  UNCHANGED vars
  BY <1>2 DEF CallsWrite, Attempting, CallInsert, CallTransaction, ChooseLake, RunInsert,
         BeginTransaction, RunStatement
<1>3. ASSUME NEW t \in Writers, NEW o \in CommitOutcomes, Commit(t, o)
      PROVE  UNCHANGED vars
  BY <1>3 DEF Commit
<1>4. ASSUME WriteNext
      PROVE  \/ Next /\ UNCHANGED <<data, write>>
             \/ \E t \in Writers : \/ CallsWrite(t) \/ Attempting(t)
                                   \/ \E o \in CommitOutcomes : Commit(t, o)
  BY <1>4 DEF WriteNext, WriteStep, CallsWrite, Attempting
<1> QED
  BY <1>1, <1>2, <1>3, <1>4

LEMMA AttemptingGoes ==
  ASSUME RegistryInv, WritesInv, NEW t \in Writers, Attempting(t)
  PROVE  write[t].pc # "idle" /\ data' = data /\ \E z : Goes(t, z)
<1>1. write[t].pc # "idle" /\ data' = data
  <2>1. CASE ChooseLake(t)
    BY <2>1 DEF ChooseLake
  <2>2. CASE RunInsert(t)
    BY <2>2 DEF RunInsert
  <2>3. CASE BeginTransaction(t)
    BY <2>3 DEF BeginTransaction
  <2>4. CASE RunStatement(t)
    <3>1. PICK w \in LakeWrite : w = write[t]
      BY DEF WritesInv
    <3>2. [w EXCEPT !.drawn = @ + 1].pc = w.pc
      BY DEF LakeWrite
    <3> QED
      BY <2>4, <3>1, <3>2 DEF RunStatement
  <2> QED
    BY <2>1, <2>2, <2>3, <2>4 DEF Attempting
<1>2. \E z : Goes(t, z)
  BY ChooseLakeGoes, RunInsertGoes, BeginTransactionGoes, RunStatementGoes DEF Attempting
<1> QED
  BY <1>1, <1>2

LEMMA CallsBegin ==
  ASSUME WritesInv, NEW t \in Writers, CallsWrite(t)
  PROVE  /\ write[t].pc = "idle" /\ data' = data
         /\ \E z : /\ Begins(t, z)
                   /\ \/ z.kind = "insert" /\ z.mode \in Modes /\ z.batch \in Batches
                      \/ /\ z.kind = "txn" /\ z.mode \in Modes
                         /\ Range(z.statements) \in Batches /\ z.oneShot \in OneShot
<1>1. write[t].pc = "idle" /\ data' = data
  BY DEF CallsWrite, CallInsert, CallTransaction
<1>2. CASE \E m \in Modes, batch \in Batches : CallInsert(t, m, batch)
  <2>1. PICK m \in Modes, batch \in Batches : CallInsert(t, m, batch)
    BY <1>2
  <2>2. PICK z : Begins(t, z) /\ z.kind = "insert" /\ z.mode = m /\ z.batch = batch
    BY <2>1, CallInsertBegins
  <2> QED
    BY <1>1, <2>2
<1>3. CASE \E a \in Aliases, script \in Scripts : CallTransaction(t, a, script)
  <2>1. PICK a \in Aliases, script \in Scripts : CallTransaction(t, a, script)
    BY <1>3
  <2>2. PICK z : /\ Begins(t, z) /\ z.kind = "txn" /\ z.mode = "append" /\ "append" \in Modes
                 /\ z.alias = a /\ z.statements = script /\ z.oneShot \in OneShot
    BY <2>1, CallTransactionBegins
  <2>3. Range(z.statements) \in Batches
    BY <2>2, LakeScriptIs
  <2> QED
    BY <1>1, <2>2, <2>3
<1> QED
  BY <1>2, <1>3 DEF CallsWrite

LEMMA WritesInvNext ==
  ASSUME RegistryInv, WritesInv, [WriteNext]_writeVars
  PROVE  RegistryInv' /\ WritesInv'
<1>1. CASE UNCHANGED <<data, write>> /\ [Next]_vars
  <2>1. WritesInv'
    BY <1>1 DEF WritesInv
  <2> QED
    BY <1>1, <2>1, RegistryInvNext
<1>2. ASSUME UNCHANGED vars, NEW t \in Writers,
             \/ CallsWrite(t) \/ Attempting(t)
             \/ \E o \in CommitOutcomes : Commit(t, o)
      PROVE  RegistryInv' /\ WritesInv'
  <2>1. RegistryInv'
    BY <1>2, RegistryInvNext
  <2>2. CASE CallsWrite(t)
    BY <2>1, <2>2, CallsBegin, BeginsKeeps
  <2>3. CASE Attempting(t)
    BY <2>1, <2>3, AttemptingGoes, GoesKeeps
  <2>4. CASE \E o \in CommitOutcomes : Commit(t, o)
    BY <2>1, <2>4, LakeCommitKeeps
  <2> QED
    BY <1>2, <2>2, <2>3, <2>4
<1> QED
  BY <1>1, <1>2, WriteNextIs

LEMMA WritesInvariant == WriteSpec => [](RegistryInv /\ WritesInv)
<1>1. WriteInit => RegistryInv /\ WritesInv
  BY WritesInvInit, RegistryInvInit DEF WriteInit
<1>2. RegistryInv /\ WritesInv /\ [WriteNext]_writeVars => (RegistryInv /\ WritesInv)'
  BY WritesInvNext
<1> QED
  BY <1>1, <1>2, PTL DEF WriteSpec

-----------------------------------------------------------------------------
(* One row per key, once per call                                          *)

LEMMA OneRowByInv == OneWriter /\ WritesInv => OneRowPerStoredKey
<1> SUFFICES ASSUME OneWriter, WritesInv PROVE OneRowPerStoredKey
  OBVIOUS
<1>1. WriteTypeOK
  <2>1. data \in [Aliases -> [Modes -> [Rows -> Nat]]]
    BY DEF WritesInv, Data, Table
  <2>2. ASSUME NEW t \in Writers, NEW w \in LakeWrite, w = write[t], WriteOK(w)
        PROVE  /\ w.pc \in {"idle", "begin", "run", "commit"}
               /\ w.kind \in {"none", "insert", "txn"}
               /\ w.batch \subseteq Rows /\ w.left \in 0..RetryAttempts
               /\ w.drawn \in 0..Len(w.statements)
               /\ {w.removed, w.added} \subseteq [Rows -> Nat]
               /\ w.pc = "begin" => w.removed = Nothing /\ w.added = Nothing
    BY <2>2 DEF LakeWrite, WriteOK, Table
  <2> QED
    BY <2>1, <2>2 DEF WriteTypeOK, WritesInv
<1> QED
  BY <1>1 DEF OneRowPerStoredKey, WritesInv, Unique

(* With one writer at a time, a table that is written on keys has one row  *)
(* per key: however often transient failures and ambiguous COMMITs make an *)
(* attempt run again, whatever lakes come and go, and although nothing in  *)
(* a lake enforces it.                                                     *)
THEOREM OneRow == OneWriter => (WriteSpec => []OneRowPerStoredKey)
<1> SUFFICES ASSUME OneWriter PROVE WriteSpec => []OneRowPerStoredKey
  OBVIOUS
<1>1. WritesInv => OneRowPerStoredKey
  BY OneRowByInv
<1> QED
  BY <1>1, WritesInvariant, PTL

(* Each row of a transaction's statements is inserted once.                *)
LEMMA StatementsOnce ==
  ASSUME NEW s \in Seq(Rows), IsInjective(s), NEW r \in Rows
  PROVE  Cardinality({i \in DOMAIN s : s[i] = r}) = IF r \in Range(s) THEN 1 ELSE 0
<1>1. CASE r \in Range(s)
  <2>1. PICK j \in DOMAIN s : s[j] = r
    BY <1>1 DEF Range
  <2>2. {i \in DOMAIN s : s[i] = r} = {j}
    BY <2>1 DEF IsInjective
  <2> QED
    BY <1>1, <2>2, FS_Singleton
<1>2. CASE r \notin Range(s)
  <2>1. {i \in DOMAIN s : s[i] = r} = {}
    BY <1>2 DEF Range
  <2> QED
    BY <1>2, <2>1, FS_EmptySet
<1> QED
  BY <1>1, <1>2

LEMMA CommitOnce ==
  ASSUME NEW w \in LakeWrite, WriteOK(w), w.pc = "commit", ~w.oneShot, Fresh(w, w.before)
  PROVE  Put(w.before, w.alias, w.mode, Changed(w.before[w.alias][w.mode], w))
           \in Once(w, w.alias)
<1> DEFINE table == w.before[w.alias][w.mode]
<1>1. w.kind \in {"insert", "txn"} /\ w.alias \in Aliases /\ w.mode \in Modes /\ w.before \in Data
  BY DEF WriteOK, InsertOK, TransactionOK, LakeWrite
<1>2. table \in Table
  BY <1>1, DataIs
<1>3. CASE w.kind = "insert"
  <2>1. PICK c \in Changes(w.mode, table, w.batch) : Changed(table, w) = Changed(table, c)
    BY <1>1, <1>3, CommitChanges DEF BatchOf
  <2> QED
    BY <1>3, <2>1 DEF Once, Put
<1>4. CASE w.kind = "txn"
  <2>1. /\ w.mode = "append" /\ w.removed = Nothing /\ w.added = Copies(Drawn(w))
        /\ w.drawn = Len(w.statements) /\ IsInjective(w.statements) /\ w.statements \in Seq(Rows)
    BY <1>4 DEF WriteOK, TransactionOK, LakeWrite
  <2>2. Drawn(w) = Range(w.statements)
    <3>1. DOMAIN w.statements = 1..Len(w.statements)
      BY <2>1
    <3> QED
      BY <2>1, <3>1 DEF Drawn, Range
  <2> DEFINE inserted == [r \in Rows |->
               table[r] + Cardinality({i \in DOMAIN w.statements : w.statements[i] = r})]
  <2>3. Changed(table, w) = inserted
    <3> HIDE DEF table
    <3>1. ASSUME NEW r \in Rows
          PROVE  table[r] - w.removed[r] + w.added[r] =
                 table[r] + Cardinality({i \in DOMAIN w.statements : w.statements[i] = r})
      <4>1. w.removed[r] = 0 /\ w.added[r] = IF r \in Range(w.statements) THEN 1 ELSE 0
        BY <2>1, <2>2, CopiesIs
      <4>2. Cardinality({i \in DOMAIN w.statements : w.statements[i] = r})
              = IF r \in Range(w.statements) THEN 1 ELSE 0
        BY <2>1, StatementsOnce
      <4>3. table[r] \in Nat
        BY <1>2 DEF Table
      <4> QED
        BY <4>1, <4>2, <4>3
    <3> QED
      BY <3>1 DEF Changed
  <2> QED
    BY <1>4, <2>1, <2>3 DEF Once, Put
<1> QED
  BY <1>1, <1>3, <1>4

(* A call ends when an attempt of it fails for good, or in a COMMIT.       *)
LEMMA EndsIs ==
  ASSUME RegistryInv, WritesInv, [WriteNext]_writeVars, NEW t \in Writers, Ends(t)
  PROVE  \/ data' = data /\ write'[t].result = "error" /\ write'[t].doubt = write[t].doubt
         \/ \E o \in CommitOutcomes :
              /\ Commit(t, o)
              /\ write'[t].result = IF o = "committed" THEN "ok" ELSE "error"
              /\ write'[t].doubt = (write[t].doubt \/ o = "ambiguous")
<1>1. write[t].pc # "idle" /\ write'[t].pc = "idle"
  BY DEF Ends
<1>2. ASSUME NEW u \in Writers, NEW z, WriteBecomes(u, z)
      PROVE  write'[t] = IF t = u THEN z ELSE write[t]
  BY <1>2 DEF WriteBecomes, WritesInv
<1>3. ASSUME NEW u \in Writers, NEW z, WriteBecomes(u, z)
      PROVE  t = u
  BY <1>1, <1>2, <1>3
<1>4. PICK u \in Writers : \/ CallsWrite(u) \/ Attempting(u)
                           \/ \E o \in CommitOutcomes : Commit(u, o)
  BY <1>1, WriteNextIs
<1>5. CASE CallsWrite(u)
  <2>1. write[u].pc = "idle" /\ \E z : WriteBecomes(u, z)
    BY <1>5, CallsBegin DEF Begins
  <2> QED
    BY <1>1, <1>3, <2>1
<1>6. CASE Attempting(u)
  <2>1. PICK z : Goes(u, z)
    BY <1>6, AttemptingGoes
  <2>2. t = u /\ write'[t] = z
    BY <1>2, <1>3, <2>1 DEF Goes
  <2> QED
    BY <1>1, <1>6, <2>1, <2>2, AttemptingGoes DEF Goes, EndedWith
<1>7. CASE \E o \in CommitOutcomes : Commit(u, o)
  <2>1. PICK o \in CommitOutcomes : Commit(u, o)
    BY <1>7
  <2>2. PICK w \in LakeWrite : w = write[u]
    BY DEF WritesInv
  <2>3. CASE o = "committed"
    <3>1. PICK z : WriteBecomes(u, z) /\ EndedWith(z, "ok") /\ z.doubt = w.doubt
      BY <2>1, <2>2, <2>3, CommitIs
    <3>2. t = u /\ write'[t] = z
      BY <1>2, <1>3, <3>1
    <3>3. z.doubt = (w.doubt \/ o = "ambiguous")
      BY <2>3, <3>1 DEF LakeWrite
    <3> QED
      BY <2>1, <2>2, <2>3, <3>1, <3>2, <3>3 DEF EndedWith
  <2>4. CASE o # "committed"
    <3>1. PICK z : /\ WriteBecomes(u, z) /\ z.doubt = (w.doubt \/ o = "ambiguous")
                   /\ \/ EndedWith(z, "error")
                      \/ SameWrite(z, w) /\ z.pc = "begin"
      BY <2>1, <2>2, <2>4, CommitIs
    <3>2. t = u /\ write'[t] = z
      BY <1>2, <1>3, <3>1
    <3> QED
      BY <1>1, <2>1, <2>2, <2>4, <3>1, <3>2 DEF EndedWith
  <2> QED
    BY <2>3, <2>4
<1> QED
  BY <1>4, <1>5, <1>6, <1>7

LEMMA EndsOnce ==
  ASSUME OneWriter, RegistryInv, WritesInv, [WriteNext]_writeVars, NEW t \in Writers,
         Ends(t), ~write'[t].doubt, ~write[t].oneShot
  PROVE  data' \in IF write'[t].result = "ok"
                   THEN UNION {Once(write[t], a) : a \in Aliases} ELSE {write[t].before}
<1>1. PICK w \in LakeWrite : w = write[t]
  BY DEF WritesInv
<1>2. WriteOK(w) /\ w.pc # "idle" /\ Alone(w, data)
  BY <1>1 DEF WritesInv, Ends
<1>3. CASE data' = data /\ write'[t].result = "error" /\ write'[t].doubt = w.doubt
  BY <1>1, <1>2, <1>3 DEF Alone
<1>4. ASSUME NEW o \in CommitOutcomes, Commit(t, o),
             write'[t].result = IF o = "committed" THEN "ok" ELSE "error",
             write'[t].doubt = (w.doubt \/ o = "ambiguous")
      PROVE  data' \in IF write'[t].result = "ok"
                       THEN UNION {Once(w, a) : a \in Aliases} ELSE {w.before}
  <2>1. ~w.doubt /\ o # "ambiguous" /\ data = w.before
    BY <1>2, <1>4 DEF Alone
  <2>2. CASE o = "committed"
    <3>1. /\ w.pc = "commit" /\ w.alias \in Aliases
          /\ data' = Put(data, w.alias, w.mode, Changed(data[w.alias][w.mode], w))
      BY <1>1, <1>4, <2>2, CommitIs
    <3>2. Fresh(w, data)
      BY <1>2 DEF Alone
    <3>3. data' \in Once(w, w.alias)
      BY <1>1, <1>2, <2>1, <3>1, <3>2, CommitOnce
    <3> QED
      BY <1>4, <2>2, <3>1, <3>3
  <2>3. CASE o = "rolledBack"
    BY <1>1, <1>4, <2>1, <2>3, CommitIs
  <2> QED
    BY <2>1, <2>2, <2>3, WriteAssumption
<1> QED
  BY <1>1, <1>3, <1>4, EndsIs

LEMMA EndsRepeated ==
  ASSUME OneWriter, RegistryInv, WritesInv, [WriteNext]_writeVars, NEW t \in Writers,
         Ends(t), write'[t].result = "ok", write[t].kind = "insert",
         write[t].mode # "append", write[t].given # None
  PROVE  data' \in Once(write[t], write[t].given)
<1>1. PICK w \in LakeWrite : w = write[t]
  BY DEF WritesInv
<1>2. WriteOK(w) /\ w.pc # "idle" /\ Alone(w, data)
  BY <1>1 DEF WritesInv, Ends
<1>3. PICK o \in CommitOutcomes : Commit(t, o) /\ o = "committed"
  BY EndsIs
<1>4. /\ w.pc = "commit" /\ w.alias \in Aliases /\ w.mode \in Modes
      /\ data' = Put(data, w.alias, w.mode, Changed(data[w.alias][w.mode], w))
  BY <1>1, <1>3, CommitIs
<1>5. w.alias = w.given /\ ~w.oneShot
  BY <1>1, <1>2, <1>4 DEF WriteOK, InsertOK
<1>6. PICK c \in Changes(w.mode, data[w.alias][w.mode], BatchOf(w)) :
        Changed(data[w.alias][w.mode], w) = Changed(data[w.alias][w.mode], c)
  <2>1. Fresh(w, data) /\ data \in Data
    BY <1>2 DEF Alone, WritesInv
  <2> QED
    BY <1>2, <1>4, <1>5, <2>1, CommitChanges
<1>7. Unique(w.before) /\ (data = w.before \/ data \in Once(w, w.given))
  BY <1>1, <1>2 DEF Alone, Repeated
<1>8. Put(data, w.given, w.mode, Changed(data[w.given][w.mode], c)) \in Once(w, w.given)
  <2>1. BatchOf(w) = w.batch /\ data \in Data /\ w.mode \in Modes \ {"append"}
    BY <1>1, <1>4 DEF BatchOf, WritesInv
  <2> QED
    BY <1>1, <1>4, <1>5, <1>6, <1>7, <2>1, OnceMore
<1> QED
  BY <1>1, <1>4, <1>5, <1>6, <1>8

(* With one writer at a time: a call that raises has stored nothing, and   *)
(* one that returns has stored its rows once, in one lake, whichever       *)
(* attempts failed before and whatever lakes came and went meanwhile;      *)
(* unless a COMMIT of it was ambiguous.                                    *)
THEOREM InsertedOnce == OneWriter => (WriteSpec => StoredOnce)
<1> SUFFICES ASSUME OneWriter PROVE WriteSpec => StoredOnce
  OBVIOUS
<1>1. RegistryInv /\ WritesInv /\ [WriteNext]_writeVars =>
        [\A t \in Writers : Ends(t) /\ ~write'[t].doubt /\ ~write[t].oneShot =>
           data' \in IF write'[t].result = "ok"
                     THEN UNION {Once(write[t], a) : a \in Aliases}
                     ELSE {write[t].before}]_writeVars
  BY EndsOnce
<1> QED
  BY <1>1, WritesInvariant, PTL DEF WriteSpec, StoredOnce

(* With key columns and one writer, a call that names its lake and returns *)
(* leaves what one attempt leaves, however many COMMITs of it took effect. *)
THEOREM Harmless == OneWriter => (WriteSpec => RepeatHarmless)
<1> SUFFICES ASSUME OneWriter PROVE WriteSpec => RepeatHarmless
  OBVIOUS
<1>1. RegistryInv /\ WritesInv /\ [WriteNext]_writeVars =>
        [\A t \in Writers :
           (Ends(t) /\ write'[t].result = "ok" /\ write[t].kind = "insert"
              /\ write[t].mode # "append" /\ write[t].given # None)
             => data' \in Once(write[t], write[t].given)]_writeVars
  BY EndsRepeated
<1> QED
  BY <1>1, WritesInvariant, PTL DEF WriteSpec, RepeatHarmless

-----------------------------------------------------------------------------
(* The lakes are TableWrites                                               *)

Stored == [p \in Aliases \X Modes |-> data[p[1]][p[2]]]
Requested == [t \in Writers |-> Asked(write[t])]

LEMMA RequestedBecomes ==
  ASSUME WritesInv, NEW t \in Writers, NEW z, WriteBecomes(t, z)
  PROVE  Requested' = [Requested EXCEPT ![t] = Asked(z)] /\ Requested'[t] = Asked(z)
<1>1. \A u \in Writers : write'[u] = IF u = t THEN z ELSE write[u]
  BY DEF WriteBecomes, WritesInv
<1>2. Requested' = [u \in Writers |-> Asked(write'[u])]
  BY DEF Requested, Asked
<1>3. \A u \in Writers : Asked(write'[u]) = IF u = t THEN Asked(z) ELSE Asked(write[u])
  BY <1>1
<1>4. [Requested EXCEPT ![t] = Asked(z)] = [u \in Writers |-> IF u = t THEN Asked(z) ELSE Asked(write[u])]
  BY DEF Requested
<1>5. Requested' = [u \in Writers |-> IF u = t THEN Asked(z) ELSE Asked(write[u])]
  BY <1>2, <1>3
<1> QED
  BY <1>4, <1>5

LEMMA RequestedSame ==
  ASSUME WritesInv, NEW t \in Writers, NEW z, WriteBecomes(t, z), SameWrite(z, write[t]),
         z.pc # "idle", write[t].pc # "idle"
  PROVE  Requested' = Requested
<1>1. Asked(z) = Asked(write[t])
  BY DEF Asked, SameWrite
<1>2. Requested' = [Requested EXCEPT ![t] = Asked(write[t])]
  BY <1>1, RequestedBecomes
<1>3. Requested = [Requested EXCEPT ![t] = Asked(write[t])]
  BY DEF Requested
<1> QED
  BY <1>2, <1>3

LEMMA AskedIs ==
  ASSUME NEW w
  PROVE  /\ w.pc # "idle" =>
              /\ Asked(w).mode = w.mode /\ Asked(w).batch = BatchOf(w)
              /\ Asked(w).where = {p \in Aliases \X {w.mode} :
                                     p[1] = IF w.kind = "txn" THEN w.alias
                                            ELSE IF w.given # None THEN w.given ELSE p[1]}
              /\ Asked(w) = [mode |-> w.mode, batch |-> BatchOf(w),
                             where |-> Asked(w).where, result |-> "none"]
         /\ w.pc = "idle" => Asked(w) = Stores!Answer(w.result) /\ Asked(w).mode = "none"
<1>1. CASE w.pc = "idle"
  BY <1>1 DEF Asked, Stores!Answer
<1>2. CASE w.pc # "idle"
  BY <1>2 DEF Asked, BatchOf
<1> QED
  BY <1>1, <1>2

(* The tables of both are those of RowTable.                               *)
LEMMA SameRows ==
  /\ Stores!Rows = Rows /\ Stores!Batches = Batches /\ Stores!Nothing = Nothing
  BY DEF Stores!Rows, Rows, Stores!Batches, Batches, Stores!Nothing, Nothing

LEMMA SameChanged ==
  ASSUME NEW table, NEW c
  PROVE  Stores!Changed(table, c) = Changed(table, c)
  BY DEF Stores!Changed, Changed, Stores!Rows, Rows

LEMMA SameChanges ==
  ASSUME NEW mode, NEW table, NEW batch
  PROVE  Stores!Changes(mode, table, batch) = Changes(mode, table, batch)
  BY DEF Stores!Changes, Changes, Stores!Inserted, Inserted,
         Stores!InsertedOrIgnored, InsertedOrIgnored, Stores!Upserted, Upserted,
         Stores!OneRowPerKey, OneRowPerKey, Stores!KeysOf, KeysOf, Stores!HasKey, HasKey,
         Stores!CopiesWith, CopiesWith, Stores!Copies, Copies, Stores!Nothing, Nothing,
         Stores!Rows, Rows

LEMMA StoredIs ==
  ASSUME NEW a \in Aliases, NEW m \in Modes, NEW table \in Table, data \in Data,
         data' = Put(data, a, m, table)
  PROVE  Stored' = [Stored EXCEPT ![<<a, m>>] = table]
<1>1. data' \in Data
  BY PutIs
<1>2. \A b \in Aliases, n \in Modes :
        data'[b][n] = IF b = a /\ n = m THEN table ELSE data[b][n]
  BY PutIs
<1>3. Stored' = [p \in Aliases \X Modes |-> data'[p[1]][p[2]]]
  BY DEF Stored
<1>4. \A p \in Aliases \X Modes :
        data'[p[1]][p[2]] = IF p = <<a, m>> THEN table ELSE data[p[1]][p[2]]
  BY <1>2
<1>5. [Stored EXCEPT ![<<a, m>>] = table]
        = [p \in Aliases \X Modes |-> IF p = <<a, m>> THEN table ELSE data[p[1]][p[2]]]
  BY DEF Stored
<1> QED
  BY <1>3, <1>4, <1>5

LEMMA LakeAsks ==
  ASSUME WritesInv, NEW t \in Writers, CallsWrite(t)
  PROVE  Stores!Next
<1>1. PICK z : /\ Begins(t, z)
               /\ \/ z.kind = "insert" /\ z.mode \in Modes /\ z.batch \in Batches
                  \/ /\ z.kind = "txn" /\ z.mode \in Modes
                     /\ Range(z.statements) \in Batches /\ z.oneShot \in OneShot
  BY CallsBegin
<1>2. WriteBecomes(t, z) /\ z.pc = "begin" /\ z.mode \in Modes /\ BatchOf(z) \in Batches
  BY <1>1 DEF Begins, BatchOf
<1>3. write[t].pc = "idle" /\ data' = data
  BY CallsBegin
<1>4. Requested' = [Requested EXCEPT ![t] = Requested'[t]] /\ Requested'[t] = Asked(z)
  BY <1>2, RequestedBecomes
<1>5. Requested[t].mode = "none"
  BY <1>3, AskedIs DEF Requested
<1>6. Asked(z) \in Stores!Requests
  <2>1. Asked(z) = [mode |-> z.mode, batch |-> BatchOf(z),
                    where |-> Asked(z).where, result |-> "none"]
    BY <1>2, AskedIs
  <2>2. Asked(z).where \in SUBSET (Aliases \X Modes)
    BY <1>2, AskedIs
  <2> QED
    BY <1>2, <2>1, <2>2, SameRows DEF Stores!Requests
<1>7. Stored' = Stored
  BY <1>3 DEF Stored
<1>8. Stores!Asks(t)
  BY <1>4, <1>5, <1>6, <1>7 DEF Stores!Asks, Requested, Stored
<1> QED
  BY <1>8 DEF Stores!Next, Stores!Certain

LEMMA LakeRaises ==
  ASSUME WritesInv, NEW t \in Writers, NEW z, WriteBecomes(t, z), EndedWith(z, "error"),
         write[t].pc # "idle", data' = data
  PROVE  Stores!Next
<1>1. Requested' = [Requested EXCEPT ![t] = Stores!Answer("error")]
  BY RequestedBecomes, AskedIs DEF EndedWith
<1>2. Requested[t].mode # "none"
  <2>1. write[t].mode \in Modes
    BY DEF WritesInv, WriteOK
  <2> QED
    BY <2>1, AskedIs, WriteAssumption DEF Requested
<1>3. Stored' = Stored
  BY DEF Stored
<1>4. Stores!Raises(t)
  BY <1>1, <1>2, <1>3 DEF Stores!Raises, Requested, Stored
<1> QED
  BY <1>4 DEF Stores!Next, Stores!Certain

(* What waits for a COMMIT is a change to the table as it will be then:    *)
(* where there is one writer, or where nothing is inserted on keys.        *)
KeyedAlone == OneWriter \/ Modes \subseteq {"append"}

LEMMA LakeStores ==
  ASSUME KeyedAlone, OneShot \subseteq {FALSE}, WritesInv, NEW t \in Writers,
         NEW o \in CommitOutcomes, Commit(t, o), o # "rolledBack"
  PROVE  Stores!Next
<1>1. PICK w \in LakeWrite : w = write[t]
  BY DEF WritesInv
<1>2. /\ WriteOK(w) /\ w.pc = "commit" /\ w.kind \in {"insert", "txn"}
      /\ w.alias \in Aliases /\ w.mode \in Modes /\ data[w.alias][w.mode] \in Table
      /\ Changed(data[w.alias][w.mode], w) \in Table
      /\ data' = Put(data, w.alias, w.mode, Changed(data[w.alias][w.mode], w))
  BY <1>1, CommitIs
<1>3. data \in Data
  BY DEF WritesInv
<1>4. ~w.oneShot
  BY <1>2 DEF WriteOK, InsertOK, TransactionOK
<1>5. w.kind = "insert" => Fresh(w, data) \/ w.mode = "append"
  <2>1. CASE OneWriter
    BY <1>1, <1>2, <2>1 DEF WritesInv, Alone
  <2>2. CASE Modes \subseteq {"append"}
    BY <1>2, <2>2
  <2> QED
    BY <2>1, <2>2 DEF KeyedAlone
<1>6. PICK c \in Changes(w.mode, data[w.alias][w.mode], BatchOf(w)) :
        Changed(data[w.alias][w.mode], w) = Changed(data[w.alias][w.mode], c)
  BY <1>2, <1>3, <1>4, <1>5, CommitChanges
<1>7. PICK p \in Aliases \X Modes : p = <<w.alias, w.mode>>
  BY <1>2
<1>8. Stored[p] = data[w.alias][w.mode]
  BY <1>7 DEF Stored
<1>9. Stored' = [Stored EXCEPT ![p] = Changed(Stored[p], c)]
  BY <1>2, <1>3, <1>6, <1>7, <1>8, StoredIs
<1>10. /\ Requested[t] = Asked(w) /\ Asked(w).mode = w.mode /\ Asked(w).batch = BatchOf(w)
       /\ p \in Asked(w).where
  <2>1. w.kind = "insert" /\ w.given # None => w.alias = w.given
    BY <1>2 DEF WriteOK, InsertOK
  <2>2. /\ Requested[t] = Asked(w) /\ Asked(w).mode = w.mode /\ Asked(w).batch = BatchOf(w)
        /\ Asked(w).where = {q \in Aliases \X {w.mode} :
                               q[1] = IF w.kind = "txn" THEN w.alias
                                      ELSE IF w.given # None THEN w.given ELSE q[1]}
    BY <1>1, <1>2, AskedIs DEF Requested
  <2>3. p \in Aliases \X {w.mode} /\ p[1] = w.alias
    BY <1>2, <1>7
  <2> QED
    BY <1>2, <2>1, <2>2, <2>3
<1>11. Stores!Stores(t)
  <2>1. c \in Stores!Changes(Requested[t].mode, Stored[p], Requested[t].batch)
    BY <1>6, <1>8, <1>10, SameChanges
  <2>2. Stored' = [Stored EXCEPT ![p] = Stores!Changed(Stored[p], c)]
    BY <1>9, SameChanged
  <2>3. \E q \in Requested[t].where :
          \E e \in Stores!Changes(Requested[t].mode, Stored[q], Requested[t].batch) :
            Stored' = [Stored EXCEPT ![q] = Stores!Changed(Stored[q], e)]
    BY <1>10, <2>1, <2>2
  <2> QED
    BY <2>3 DEF Stores!Stores, Requested, Stored
<1>12. Requested[t].mode # "none"
  BY <1>2, <1>10, WriteAssumption
<1>13. CASE o = "committed"
  <2>1. PICK z : WriteBecomes(t, z) /\ EndedWith(z, "ok")
    BY <1>1, <1>13, CommitIs
  <2>2. Requested' = [Requested EXCEPT ![t] = Stores!Answer("ok")]
    BY <2>1, RequestedBecomes, AskedIs DEF EndedWith
  <2>3. Stores!Returns(t)
    BY <1>11, <1>12, <2>2 DEF Stores!Returns, Requested
  <2> QED
    BY <2>3 DEF Stores!Next, Stores!Certain
<1>14. CASE o # "committed"
  <2>1. PICK z : WriteBecomes(t, z) /\ (EndedWith(z, "error") \/ (SameWrite(z, w) /\ z.pc = "begin"))
    BY <1>1, <1>14, CommitIs
  <2>2. Requested' \in {Requested, [Requested EXCEPT ![t] = Stores!Answer("error")]}
    <3>1. CASE EndedWith(z, "error")
      BY <2>1, <3>1, RequestedBecomes, AskedIs DEF EndedWith
    <3>2. CASE SameWrite(z, w) /\ z.pc = "begin"
      BY <1>1, <1>2, <2>1, <3>2, RequestedSame
    <3> QED
      BY <2>1, <3>1, <3>2
  <2>3. Stores!StoresAndFails(t)
    BY <1>11, <1>12, <2>2 DEF Stores!StoresAndFails, Requested
  <2> QED
    BY <2>3 DEF Stores!Next
<1> QED
  BY <1>13, <1>14

LEMMA LakeStep ==
  ASSUME KeyedAlone, OneShot \subseteq {FALSE}, RegistryInv, WritesInv, [WriteNext]_writeVars
  PROVE  [Stores!Next]_(Stores!vars)
<1>1. Stored' = Stored /\ Requested' = Requested => UNCHANGED Stores!vars
  BY DEF Stores!vars, Stored, Requested
<1>2. CASE UNCHANGED <<data, write>>
  <2>1. Stored' = Stored /\ Requested' = Requested
    BY <1>2 DEF Stored, Requested, Asked
  <2> QED
    BY <1>1, <2>1
<1>3. ASSUME NEW t \in Writers, CallsWrite(t) PROVE Stores!Next
  BY <1>3, LakeAsks
<1>4. ASSUME NEW t \in Writers, NEW z, WriteBecomes(t, z), write[t].pc # "idle", data' = data,
             EndedWith(z, "error") \/ (SameWrite(z, write[t]) /\ z.pc # "idle")
      PROVE  [Stores!Next]_(Stores!vars)
  <2>1. CASE EndedWith(z, "error")
    BY <1>4, <2>1, LakeRaises
  <2>2. CASE SameWrite(z, write[t]) /\ z.pc # "idle"
    <3>1. Stored' = Stored /\ Requested' = Requested
      BY <1>4, <2>2, RequestedSame DEF Stored
    <3> QED
      BY <1>1, <3>1
  <2> QED
    BY <1>4, <2>1, <2>2
<1>5. ASSUME NEW t \in Writers, Attempting(t) PROVE [Stores!Next]_(Stores!vars)
  <2>1. PICK z : Goes(t, z)
    BY <1>5, AttemptingGoes
  <2>2. write[t].pc # "idle" /\ data' = data
    BY <1>5, AttemptingGoes
  <2> QED
    BY <1>4, <2>1, <2>2 DEF Goes
<1>6. ASSUME NEW t \in Writers, NEW o \in CommitOutcomes, Commit(t, o)
      PROVE  [Stores!Next]_(Stores!vars)
  <2>1. CASE o = "rolledBack"
    <3>1. PICK w \in LakeWrite : w = write[t]
      BY DEF WritesInv
    <3>2. w.pc = "commit" /\ data' = data
      BY <1>6, <2>1, <3>1, CommitIs
    <3>3. PICK z : WriteBecomes(t, z) /\ (EndedWith(z, "error") \/ (SameWrite(z, w) /\ z.pc = "begin"))
      BY <1>6, <2>1, <3>1, CommitIs
    <3> QED
      BY <1>4, <3>1, <3>2, <3>3
  <2>2. CASE o # "rolledBack"
    BY <1>6, <2>2, LakeStores
  <2> QED
    BY <2>1, <2>2
<1> QED
  BY <1>2, <1>3, <1>5, <1>6, WriteNextIs

LEMMA LakeInit == WriteInit => Stores!Init
<1> SUFFICES ASSUME WriteInit PROVE Stores!Init
  OBVIOUS
<1>1. \A t \in Writers : write[t] = NoWrite
  BY DEF WriteInit
<1>2. Asked(NoWrite) = Stores!Answer("none")
  BY NoWriteIs, AskedIs
<1>3. [t \in Writers |-> Asked(write[t])] = [t \in Writers |-> Stores!Answer("none")]
  BY <1>1, <1>2
<1>4. [p \in Aliases \X Modes |-> data[p[1]][p[2]]] = [p \in Aliases \X Modes |-> Nothing]
  BY DEF WriteInit
<1> QED
  BY <1>3, <1>4, SameRows DEF Stores!Init

(* A store with lakes is TableWrites: a write takes place at one COMMIT,   *)
(* as a whole and on the table as it is then, or not at all, or the caller *)
(* hears of an error although it has.  It takes one writer at a time, or   *)
(* tables that nothing is written to on keys; and statements that can be   *)
(* run through again: an iterator that is used up leaves the rest behind.  *)
THEOREM LakesImplement ==
  KeyedAlone /\ OneShot \subseteq {FALSE} => (WriteSpec => ImplementsWrites)
<1> SUFFICES ASSUME KeyedAlone, OneShot \subseteq {FALSE} PROVE WriteSpec => ImplementsWrites
  OBVIOUS
<1>1. RegistryInv /\ WritesInv /\ [WriteNext]_writeVars => [Stores!Next]_(Stores!vars)
  BY LakeStep
<1> QED
  BY <1>1, LakeInit, WritesInvariant, PTL DEF WriteSpec, ImplementsWrites, Stores!Spec
=============================================================================
