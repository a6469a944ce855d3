--------------------------- MODULE RowTable_proofs ---------------------------
(***************************************************************************)
(* Lemmas about the statements of insert_arrow(): what they leave of a     *)
(* table in which no key is twice, key by key.                             *)
(***************************************************************************)
EXTENDS RowTable, FiniteSetTheorems, TLAPS

Table == [Rows -> Nat]

-----------------------------------------------------------------------------
(* The copies of a key                                                     *)

LEMMA CopiesFinite ==
  ASSUME NEW table \in Table, NEW k
  PROVE  /\ IsFiniteSet(CopiesWith(table, k)) /\ Cardinality(CopiesWith(table, k)) \in Nat
         /\ HasKey(table, k) => Cardinality(CopiesWith(table, k)) > 0
<1> DEFINE rows == {s \in Rows : s.key = k}
           f == [r \in rows |-> {r} \X (1..table[r])]
           sets == {f[r] : r \in rows}
           copies == CopiesWith(table, k)
<1>1. IsFiniteSet(rows)
  BY RowAssumption, FS_Subset
<1>2. f \in Surjection(rows, sets)
  BY DEF Surjection
<1>3. IsFiniteSet(sets)
  <2> HIDE DEF rows, f, sets
  <2> QED
    BY <1>1, <1>2, FS_Surjection
<1>4. \A S \in sets : IsFiniteSet(S)
  <2> SUFFICES ASSUME NEW r \in rows PROVE IsFiniteSet({r} \X (1..table[r]))
    OBVIOUS
  <2>1. table[r] \in Nat
    BY DEF Table
  <2>2. IsFiniteSet({r})
    BY FS_Singleton
  <2>3. PICK n \in Int : n = table[r]
    BY <2>1
  <2>4. IsFiniteSet(1..n)
    BY FS_Interval
  <2> QED
    BY <2>2, <2>3, <2>4, FS_Product
<1>5. copies = UNION sets
  BY DEF CopiesWith
<1>6. IsFiniteSet(copies)
  <2> HIDE DEF sets
  <2> QED
    BY <1>3, <1>4, <1>5, FS_UNION
<1>7. HasKey(table, k) => copies # {}
  <2> SUFFICES ASSUME NEW r \in Rows, r.key = k, table[r] > 0 PROVE copies # {}
    BY DEF HasKey
  <2>1. 1 \in 1..table[r]
    BY DEF Table
  <2>2. <<r, 1>> \in copies
    BY <2>1 DEF CopiesWith
  <2> QED
    BY <2>2
<1> HIDE DEF copies
<1>8. Cardinality(copies) \in Nat /\ (copies # {} => Cardinality(copies) # 0)
  BY <1>6, FS_CardinalityType, FS_EmptySet
<1> QED
  BY <1>6, <1>7, <1>8 DEF copies

LEMMA CopiesOne ==
  ASSUME NEW table \in Table, KeysUnique(table), NEW k, HasKey(table, k)
  PROVE  Cardinality(CopiesWith(table, k)) = 1
<1>1. PICK r \in Rows : r.key = k /\ table[r] > 0
  BY DEF HasKey
<1>2. \A s \in Rows : s.key = k => table[s] = IF s = r THEN 1 ELSE 0
  BY <1>1 DEF KeysUnique, Table
<1>3. CopiesWith(table, k) = {<<r, 1>>}
  <2>1. ASSUME NEW x \in CopiesWith(table, k) PROVE x = <<r, 1>>
    <3>1. PICK s \in Rows : s.key = k /\ x \in {s} \X (1..table[s])
      BY DEF CopiesWith
    <3>2. s = r /\ table[s] = 1
      BY <1>2, <3>1
    <3>3. 1..1 = {1}
      OBVIOUS
    <3> QED
      BY <3>1, <3>2, <3>3
  <2>2. <<r, 1>> \in CopiesWith(table, k)
    <3>1. <<r, 1>> \in {r} \X (1..table[r])
      BY <1>1, <1>2
    <3> QED
      BY <1>1, <3>1 DEF CopiesWith
  <2> QED
    BY <2>1, <2>2
<1> QED
  BY <1>3, FS_Singleton

-----------------------------------------------------------------------------
(* What a statement changes                                                *)

CopiesAdded(table, r) ==
  IF HasKey(table, r.key) THEN Cardinality(CopiesWith(table, r.key)) ELSE 1

LEMMA ChangeIs ==
  ASSUME NEW table \in Table, NEW batch \in SUBSET Rows,
         NEW mode \in {"append", "insert_ignore", "upsert"},
         NEW c \in Changes(mode, table, batch)
  PROVE  /\ c.removed \in Table /\ c.added \in Table
         /\ \A r \in Rows : c.removed[r] <= table[r]
         /\ mode # "upsert" => c.removed = Nothing
         /\ mode = "append" => c.added = Copies(batch)
         /\ mode = "insert_ignore" => \E d \in OneRowPerKey(batch) :
              c.added = Copies({r \in d : ~HasKey(table, r.key)})
         /\ mode = "upsert" => \E d \in OneRowPerKey(batch) : \A r \in Rows :
              /\ c.removed[r] = IF r.key \in KeysOf(batch) THEN table[r] ELSE 0
              /\ c.added[r] = IF r \in d THEN CopiesAdded(table, r) ELSE 0
<1>1. /\ Nothing \in Table /\ \A S : Copies(S) \in Table
      /\ \A r \in Rows : Nothing[r] <= table[r]
  BY DEF Nothing, Copies, Table
<1>2. CASE mode = "append"
  BY <1>1, <1>2 DEF Changes, Inserted
<1>3. CASE mode = "insert_ignore"
  <2> DEFINE added(d) == Copies({r \in d : ~HasKey(table, r.key)})
  <2>1. PICK d \in OneRowPerKey(batch) : c = [removed |-> Nothing, added |-> added(d)]
    BY <1>3 DEF Changes, InsertedOrIgnored
  <2>2. added(d) \in Table
    BY <1>1
  <2> HIDE DEF added
  <2>3. c.removed = Nothing /\ c.added = added(d)
    BY <2>1
  <2>4. \E e \in OneRowPerKey(batch) : c.added = added(e)
    BY <2>3
  <2>5. c.removed \in Table /\ c.added \in Table /\ \A r \in Rows : c.removed[r] <= table[r]
    BY <1>1, <2>2, <2>3
  <2> QED
    BY <1>3, <2>3, <2>4, <2>5 DEF added
<1>4. CASE mode = "upsert"
  <2>1. \A r \in Rows : CopiesAdded(table, r) \in Nat
    BY CopiesFinite DEF CopiesAdded
  <2> DEFINE removed == [r \in Rows |-> IF r.key \in KeysOf(batch) THEN table[r] ELSE 0]
             added(d) == [r \in Rows |-> IF r \notin d THEN 0 ELSE CopiesAdded(table, r)]
  <2>2. PICK d \in OneRowPerKey(batch) : c = [removed |-> removed, added |-> added(d)]
    BY <1>4 DEF Changes, Upserted, CopiesAdded
  <2>3. /\ removed \in Table /\ added(d) \in Table
        /\ \A r \in Rows : removed[r] <= table[r]
    BY <2>1 DEF Table
  <2>4. c.removed = removed /\ c.added = added(d)
    BY <2>2
  <2>5. \A r \in Rows : /\ c.removed[r] = IF r.key \in KeysOf(batch) THEN table[r] ELSE 0
                        /\ c.added[r] = IF r \in d THEN CopiesAdded(table, r) ELSE 0
    BY <2>4
  <2> HIDE DEF removed, added
  <2>7. c.removed \in Table /\ c.added \in Table /\ \A r \in Rows : c.removed[r] <= table[r]
    BY <2>3, <2>4
  <2>8. \E e \in OneRowPerKey(batch) : \A r \in Rows :
          /\ c.removed[r] = IF r.key \in KeysOf(batch) THEN table[r] ELSE 0
          /\ c.added[r] = IF r \in e THEN CopiesAdded(table, r) ELSE 0
    BY <2>5
  <2> HIDE <2>2, <2>3, <2>4, <2>5
  <2> QED
    BY <1>4, <2>7, <2>8
<1> QED
  BY <1>2, <1>3, <1>4

LEMMA ChangedIs ==
  ASSUME NEW table \in Table, NEW c, c.removed \in Table, c.added \in Table,
         \A r \in Rows : c.removed[r] <= table[r]
  PROVE  /\ Changed(table, c) \in Table
         /\ \A r \in Rows : Changed(table, c)[r] = table[r] - c.removed[r] + c.added[r]
  BY DEF Changed, Table

LEMMA OneRowIs ==
  ASSUME NEW batch \in SUBSET Rows, NEW d \in OneRowPerKey(batch)
  PROVE  /\ d \subseteq batch
         /\ \A r, s \in d : r.key = s.key => r = s
         /\ \A k : k \in KeysOf(batch) <=> \E r \in d : r.key = k
  BY DEF OneRowPerKey, KeysOf

-----------------------------------------------------------------------------
(* Key by key: what a statement on keys leaves of a table.                 *)

Sole(table, k, r) == \A s \in Rows : s.key = k => table[s] = IF s = r THEN 1 ELSE 0
Untouched(mode, table, batch, k) ==
  k \notin KeysOf(batch) \/ (mode = "insert_ignore" /\ HasKey(table, k))
Left(mode, table, batch, after) ==
  \A k \in Keys :
    IF Untouched(mode, table, batch, k)
    THEN \A s \in Rows : s.key = k => after[s] = table[s]
    ELSE \E r \in batch : r.key = k /\ Sole(after, k, r)

LEMMA RowHasKey ==
  ASSUME NEW r \in Rows
  PROVE  r.key \in Keys
  BY DEF Rows

LEMMA NoKey ==
  ASSUME NEW table \in Table, NEW k
  PROVE  ~HasKey(table, k) <=> \A r \in Rows : r.key = k => table[r] = 0
  BY DEF HasKey, Table

(* In a table in which no key is twice, an insert_ignore adds one row of   *)
(* the batch for each key that is not there, and an upsert leaves one row  *)
(* of the batch for each key of it.                                        *)
LEMMA ChangeLeaves ==
  ASSUME NEW table \in Table, KeysUnique(table), NEW batch \in SUBSET Rows,
         NEW mode \in {"insert_ignore", "upsert"},
         NEW c \in Changes(mode, table, batch)
  PROVE  Left(mode, table, batch, Changed(table, c))
<1> DEFINE after == Changed(table, c)
<1>1. /\ after \in Table
      /\ \A r \in Rows : after[r] = table[r] - c.removed[r] + c.added[r]
  BY ChangeIs, ChangedIs
<1> HIDE DEF after
<1>2. CASE mode = "insert_ignore"
  <2>1. c.removed = Nothing /\ \E d \in OneRowPerKey(batch) :
          c.added = Copies({r \in d : ~HasKey(table, r.key)})
    BY <1>2, ChangeIs
  <2>2. PICK d \in OneRowPerKey(batch) : c.added = Copies({r \in d : ~HasKey(table, r.key)})
    BY <2>1
  <2>3. /\ d \subseteq batch
        /\ \A r, s \in d : r.key = s.key => r = s
        /\ \A k : k \in KeysOf(batch) <=> \E r \in d : r.key = k
    BY OneRowIs
  <2>4. \A r \in Rows : after[r] =
          table[r] + IF r \in d /\ ~HasKey(table, r.key) THEN 1 ELSE 0
    BY <1>1, <2>1, <2>2 DEF Nothing, Copies, Table
  <2> SUFFICES ASSUME NEW k \in Keys
               PROVE  IF Untouched(mode, table, batch, k)
                      THEN \A s \in Rows : s.key = k => after[s] = table[s]
                      ELSE \E r \in batch : r.key = k /\ Sole(after, k, r)
    BY DEF Left, after
  <2>5. CASE Untouched(mode, table, batch, k)
    <3>1. \A s \in Rows : s.key = k => ~(s \in d /\ ~HasKey(table, s.key))
      BY <1>2, <2>3, <2>5 DEF Untouched
    <3> QED
      BY <2>4, <2>5, <3>1 DEF Table
  <2>6. CASE ~Untouched(mode, table, batch, k)
    <3>1. k \in KeysOf(batch) /\ ~HasKey(table, k)
      BY <1>2, <2>6 DEF Untouched
    <3>2. PICK r \in d : r.key = k
      BY <2>3, <3>1
    <3>3. \A s \in Rows : s.key = k => table[s] = 0 /\ (s \in d <=> s = r)
      BY <2>3, <3>1, <3>2, NoKey
    <3>4. Sole(after, k, r)
      BY <2>4, <3>1, <3>3 DEF Sole
    <3> QED
      BY <2>3, <2>6, <3>2, <3>4
  <2> QED
    BY <2>5, <2>6
<1>3. CASE mode = "upsert"
  <2>1. \E d \in OneRowPerKey(batch) : \A r \in Rows :
          /\ c.removed[r] = IF r.key \in KeysOf(batch) THEN table[r] ELSE 0
          /\ c.added[r] = IF r \in d THEN CopiesAdded(table, r) ELSE 0
    BY <1>3, ChangeIs
  <2>2. PICK d \in OneRowPerKey(batch) : \A r \in Rows :
          /\ c.removed[r] = IF r.key \in KeysOf(batch) THEN table[r] ELSE 0
          /\ c.added[r] = IF r \in d THEN CopiesAdded(table, r) ELSE 0
    BY <2>1
  <2>3. /\ d \subseteq batch
        /\ \A r, s \in d : r.key = s.key => r = s
        /\ \A k : k \in KeysOf(batch) <=> \E r \in d : r.key = k
    BY OneRowIs
  <2>4. \A r \in Rows : CopiesAdded(table, r) = 1
    BY CopiesOne DEF CopiesAdded
  <2>5. \A r \in Rows : after[r] = (IF r.key \in KeysOf(batch) THEN 0 ELSE table[r])
                                   + IF r \in d THEN 1 ELSE 0
    BY <1>1, <2>2, <2>4 DEF Table
  <2> SUFFICES ASSUME NEW k \in Keys
               PROVE  IF k \notin KeysOf(batch)
                      THEN \A s \in Rows : s.key = k => after[s] = table[s]
                      ELSE \E r \in batch : r.key = k /\ Sole(after, k, r)
    BY <1>3 DEF Left, Untouched, after
  <2>6. CASE k \notin KeysOf(batch)
    <3>1. \A s \in Rows : s.key = k => s \notin d
      BY <2>3, <2>6
    <3> QED
      BY <2>5, <2>6, <3>1 DEF Table
  <2>7. CASE k \in KeysOf(batch)
    <3>1. PICK r \in d : r.key = k
      BY <2>3, <2>7
    <3>2. \A s \in Rows : s.key = k => (s \in d <=> s = r)
      BY <2>3, <3>1
    <3>3. Sole(after, k, r)
      BY <2>5, <2>7, <3>2 DEF Sole
    <3> QED
      BY <2>3, <2>7, <3>1, <3>3
  <2> QED
    BY <2>6, <2>7
<1> QED
  BY <1>2, <1>3 DEF after

LEMMA LeftKeeps ==
  ASSUME NEW table \in Table, KeysUnique(table), NEW batch \in SUBSET Rows,
         NEW mode \in {"insert_ignore", "upsert"},
         NEW after \in Table, Left(mode, table, batch, after)
  PROVE  /\ KeysUnique(after)
         /\ \A k \in Keys : HasKey(table, k) => HasKey(after, k)
         /\ \A k \in KeysOf(batch) : HasKey(after, k)
<1>1. ASSUME NEW r \in Rows, NEW s \in Rows, r.key = s.key, after[r] > 0, after[s] > 0
      PROVE  r = s /\ after[r] = 1
  <2> DEFINE k == r.key
  <2>1. k \in Keys
    BY RowHasKey
  <2>2. CASE Untouched(mode, table, batch, k)
    <3>1. after[r] = table[r] /\ after[s] = table[s]
      BY <1>1, <2>1, <2>2 DEF Left
    <3> QED
      BY <1>1, <3>1 DEF KeysUnique
  <2>3. CASE ~Untouched(mode, table, batch, k)
    <3>1. PICK q \in batch : q.key = k /\ Sole(after, k, q)
      BY <2>1, <2>3 DEF Left
    <3> QED
      BY <1>1, <3>1 DEF Sole
  <2> QED
    BY <2>2, <2>3
<1>2. ASSUME NEW k \in Keys, NEW q \in batch, q.key = k, Sole(after, k, q)
      PROVE  HasKey(after, k)
  BY <1>2 DEF Sole, HasKey
<1>3. ASSUME NEW k \in Keys, HasKey(table, k) PROVE HasKey(after, k)
  <2>1. CASE Untouched(mode, table, batch, k)
    <3>1. \A s \in Rows : s.key = k => after[s] = table[s]
      BY <2>1 DEF Left
    <3> QED
      BY <1>3, <3>1 DEF HasKey
  <2>2. CASE ~Untouched(mode, table, batch, k)
    BY <1>2, <2>2 DEF Left
  <2> QED
    BY <2>1, <2>2
<1>4. ASSUME NEW k \in KeysOf(batch) PROVE HasKey(after, k)
  <2>1. k \in Keys
    BY RowHasKey DEF KeysOf
  <2>2. CASE HasKey(table, k)
    BY <1>3, <2>1, <2>2
  <2>3. CASE ~HasKey(table, k)
    <3>1. ~Untouched(mode, table, batch, k)
      BY <2>3 DEF Untouched
    <3> QED
      BY <1>2, <2>1, <3>1 DEF Left
  <2> QED
    BY <2>2, <2>3
<1> QED
  BY <1>1, <1>3, <1>4 DEF KeysUnique

-----------------------------------------------------------------------------
(* A statement that has run on the table as it was, and whose changes a    *)
(* COMMIT applies to the table as it is.                                   *)

Prepared(mode, table, batch, c) ==
  /\ mode = "append" => c.removed = Nothing /\ c.added = Copies(batch)
  /\ mode = "insert_ignore" =>
       /\ c.removed = Nothing
       /\ \E d \in OneRowPerKey(batch) : \E e \in SUBSET d :
            c.added = Copies(e) /\ \A r \in d \ e : HasKey(table, r.key)
  /\ mode = "upsert" => \E d \in OneRowPerKey(batch) :
       /\ c.added = Copies(d)
       /\ \A r \in Rows : r.key \notin KeysOf(batch) => c.removed[r] = 0

LEMMA TableEqual ==
  ASSUME NEW f \in Table, NEW g \in Table, \A r \in Rows : f[r] = g[r]
  PROVE  f = g
  BY DEF Table

LEMMA CopiesIs ==
  ASSUME NEW rows
  PROVE  /\ Copies(rows) \in Table /\ Nothing \in Table
         /\ \A r \in Rows : Nothing[r] = 0 /\ Copies(rows)[r] = IF r \in rows THEN 1 ELSE 0
  BY DEF Copies, Nothing, Table

LEMMA ChangePrepared ==
  ASSUME NEW table \in Table, NEW batch \in SUBSET Rows,
         NEW mode \in {"append", "insert_ignore", "upsert"},
         mode # "append" => KeysUnique(table),
         NEW c \in Changes(mode, table, batch)
  PROVE  Prepared(mode, table, batch, c)
<1>1. CASE mode = "append"
  BY <1>1, ChangeIs DEF Prepared
<1>2. CASE mode = "insert_ignore"
  <2>1. c.removed = Nothing /\ \E d \in OneRowPerKey(batch) :
          c.added = Copies({r \in d : ~HasKey(table, r.key)})
    BY <1>2, ChangeIs
  <2>2. PICK d \in OneRowPerKey(batch) : c.added = Copies({r \in d : ~HasKey(table, r.key)})
    BY <2>1
  <2> DEFINE e == {r \in d : ~HasKey(table, r.key)}
  <2>3. e \in SUBSET d /\ \A r \in d \ e : HasKey(table, r.key)
    OBVIOUS
  <2> QED
    BY <1>2, <2>1, <2>2, <2>3 DEF Prepared
<1>3. CASE mode = "upsert"
  <2>1. \E d \in OneRowPerKey(batch) : \A r \in Rows :
          /\ c.removed[r] = IF r.key \in KeysOf(batch) THEN table[r] ELSE 0
          /\ c.added[r] = IF r \in d THEN CopiesAdded(table, r) ELSE 0
    BY <1>3, ChangeIs
  <2>2. PICK d \in OneRowPerKey(batch) : \A r \in Rows :
          /\ c.removed[r] = IF r.key \in KeysOf(batch) THEN table[r] ELSE 0
          /\ c.added[r] = IF r \in d THEN CopiesAdded(table, r) ELSE 0
    BY <2>1
  <2>3. \A r \in Rows : CopiesAdded(table, r) = 1
    BY <1>3, CopiesOne DEF CopiesAdded
  <2>4. c.added = Copies(d)
    <3>1. \A r \in Rows : c.added[r] = Copies(d)[r]
      BY <2>2, <2>3, CopiesIs
    <3>2. c.added \in Table /\ Copies(d) \in Table
      BY ChangeIs, CopiesIs
    <3> QED
      BY <3>1, <3>2, TableEqual
  <2>5. \A r \in Rows : r.key \notin KeysOf(batch) => c.removed[r] = 0
    BY <2>2
  <2> QED
    BY <1>3, <2>4, <2>5 DEF Prepared
<1> QED
  BY <1>1, <1>2, <1>3

LEMMA PreparedStays ==
  ASSUME NEW table \in Table, NEW later \in Table, NEW batch \in SUBSET Rows, NEW mode, NEW c,
         Prepared(mode, table, batch, c),
         \A k \in Keys : HasKey(table, k) => HasKey(later, k)
  PROVE  Prepared(mode, later, batch, c)
<1>1. CASE mode = "insert_ignore"
  <2>1. PICK d \in OneRowPerKey(batch) : \E e \in SUBSET d :
          c.added = Copies(e) /\ \A r \in d \ e : HasKey(table, r.key)
    BY <1>1 DEF Prepared
  <2>e. PICK e \in SUBSET d : c.added = Copies(e) /\ \A r \in d \ e : HasKey(table, r.key)
    BY <2>1
  <2>2. \A r \in d \ e : HasKey(later, r.key)
    BY <2>e, OneRowIs, RowHasKey
  <2>3. c.removed = Nothing
    BY <1>1 DEF Prepared
  <2> QED
    BY <1>1, <2>e, <2>2, <2>3 DEF Prepared
<1>2. CASE mode # "insert_ignore"
  BY <1>2 DEF Prepared
<1> QED
  BY <1>1, <1>2

(* If the table as it is has the rows to remove, and no key is twice before*)
(* or after, then what is committed is what the statement would do now.    *)
LEMMA PreparedFits ==
  ASSUME NEW table \in Table, NEW batch \in SUBSET Rows,
         NEW mode \in {"append", "insert_ignore", "upsert"},
         NEW c, c.removed \in Table, c.added \in Table,
         \A r \in Rows : c.removed[r] <= table[r],
         Prepared(mode, table, batch, c),
         mode # "append" => KeysUnique(table) /\ KeysUnique(Changed(table, c))
  PROVE  \E now \in Changes(mode, table, batch) : Changed(table, c) = Changed(table, now)
<1> DEFINE after == Changed(table, c)
<1>1. /\ after \in Table
      /\ \A r \in Rows : after[r] = table[r] - c.removed[r] + c.added[r]
  BY ChangedIs
<1>2. \A now : now.removed = c.removed /\ now.added = c.added => Changed(table, now) = after
  BY DEF Changed
<1>a. mode # "append" => KeysUnique(after)
  OBVIOUS
<1> HIDE DEF after
<1>3. CASE mode = "append"
  <2> DEFINE now == [removed |-> Nothing, added |-> Copies(batch)]
  <2>1. now \in Changes(mode, table, batch)
    BY <1>3 DEF Changes, Inserted
  <2>2. now.removed = c.removed /\ now.added = c.added
    BY <1>3 DEF Prepared
  <2> HIDE DEF now
  <2> QED
    BY <1>2, <2>1, <2>2 DEF after
<1>4. CASE mode = "insert_ignore"
  <2>1. PICK d \in OneRowPerKey(batch) : \E e \in SUBSET d :
          c.added = Copies(e) /\ \A r \in d \ e : HasKey(table, r.key)
    BY <1>4 DEF Prepared
  <2>e. PICK e \in SUBSET d : c.added = Copies(e) /\ \A r \in d \ e : HasKey(table, r.key)
    BY <2>1
  <2>2. d \subseteq batch
    BY OneRowIs
  <2>3. \A r \in Rows : after[r] = table[r] + IF r \in e THEN 1 ELSE 0
    BY <1>1, <1>4, <2>e, CopiesIs DEF Prepared, Table
  <2>4. ASSUME NEW r \in e, HasKey(table, r.key) PROVE FALSE
    <3>1. PICK s \in Rows : s.key = r.key /\ table[s] > 0
      BY <2>4 DEF HasKey
    <3>2. r \in Rows /\ table[r] \in Nat /\ table[s] \in Nat
      BY <2>2, <3>1 DEF Table
    <3>3. after[r] > 0 /\ after[s] > 0
      BY <2>3, <3>1, <3>2
    <3>4. r = s /\ after[r] = 1
      BY <1>4, <1>a, <3>1, <3>2, <3>3 DEF KeysUnique
    <3> QED
      BY <2>3, <3>1, <3>2, <3>4
  <2> DEFINE now == [removed |-> Nothing, added |-> Copies({r \in d : ~HasKey(table, r.key)})]
  <2>5. e = {r \in d : ~HasKey(table, r.key)}
    BY <2>e, <2>4
  <2>6. now \in Changes(mode, table, batch)
    BY <1>4 DEF Changes, InsertedOrIgnored
  <2>7. now.removed = c.removed /\ now.added = c.added
    BY <1>4, <2>e, <2>5 DEF Prepared
  <2> HIDE DEF now
  <2> QED
    BY <1>2, <2>6, <2>7 DEF after
<1>5. CASE mode = "upsert"
  <2>1. PICK d \in OneRowPerKey(batch) :
          /\ c.added = Copies(d)
          /\ \A r \in Rows : r.key \notin KeysOf(batch) => c.removed[r] = 0
    BY <1>5 DEF Prepared
  <2>2. /\ d \subseteq batch
        /\ \A r, s \in d : r.key = s.key => r = s
        /\ \A k : k \in KeysOf(batch) <=> \E r \in d : r.key = k
    BY OneRowIs
  <2>3. \A r \in Rows : after[r] = table[r] - c.removed[r] + IF r \in d THEN 1 ELSE 0
    BY <1>1, <2>1, CopiesIs
  <2>4. ASSUME NEW s \in Rows, s.key \in KeysOf(batch) PROVE c.removed[s] = table[s]
    <3>1. SUFFICES ASSUME c.removed[s] # table[s] PROVE FALSE
      OBVIOUS
    <3>2. table[s] \in Nat /\ c.removed[s] \in Nat /\ c.removed[s] <= table[s]
      BY DEF Table
    <3>3. PICK r \in d : r.key = s.key
      BY <2>2, <2>4
    <3>4. r \in Rows /\ table[r] \in Nat /\ c.removed[r] \in Nat /\ c.removed[r] <= table[r]
      BY <2>2 DEF Table
    <3>5. after[s] > 0 /\ after[r] > 0
      BY <2>3, <3>1, <3>2, <3>4
    <3>6. r = s /\ after[r] = 1
      BY <1>5, <1>a, <3>3, <3>4, <3>5 DEF KeysUnique
    <3> QED
      BY <2>3, <3>1, <3>2, <3>6
  <2> DEFINE removed == [r \in Rows |-> IF r.key \in KeysOf(batch) THEN table[r] ELSE 0]
             added == [r \in Rows |-> IF r \notin d THEN 0 ELSE CopiesAdded(table, r)]
             now == [removed |-> removed, added |-> added]
  <2>5. now \in Changes(mode, table, batch)
    BY <1>5 DEF Changes, Upserted, CopiesAdded
  <2>6. now.removed = removed /\ now.added = added
    OBVIOUS
  <2>7. removed = c.removed
    <3>1. removed \in Table
      BY DEF Table
    <3>2. \A r \in Rows : removed[r] = c.removed[r]
      BY <2>1, <2>4
    <3> HIDE DEF removed
    <3> QED
      BY <3>1, <3>2, TableEqual
  <2>8. added = c.added
    <3>1. \A r \in Rows : CopiesAdded(table, r) = 1
      BY <1>5, CopiesOne DEF CopiesAdded
    <3>2. added \in Table /\ \A r \in Rows : added[r] = IF r \in d THEN 1 ELSE 0
      BY <3>1 DEF Table
    <3>3. \A r \in Rows : added[r] = c.added[r]
      BY <2>1, <3>2, CopiesIs
    <3> HIDE DEF added
    <3> QED
      BY <3>2, <3>3, TableEqual
  <2> HIDE DEF now, removed, added
  <2> QED
    BY <1>2, <2>5, <2>6, <2>7, <2>8 DEF after
<1> QED
  BY <1>3, <1>4, <1>5

-----------------------------------------------------------------------------
(* A statement that is repeated                                            *)

LEMMA LeftTwice ==
  ASSUME NEW table \in Table, NEW between \in Table, NEW after \in Table,
         NEW batch \in SUBSET Rows, NEW mode \in {"insert_ignore", "upsert"},
         Left(mode, table, batch, between), Left(mode, between, batch, after)
  PROVE  Left(mode, table, batch, after)
<1> SUFFICES ASSUME NEW k \in Keys
             PROVE  IF Untouched(mode, table, batch, k)
                    THEN \A s \in Rows : s.key = k => after[s] = table[s]
                    ELSE \E r \in batch : r.key = k /\ Sole(after, k, r)
  BY DEF Left
<1>1. CASE Untouched(mode, table, batch, k)
  <2>1. \A s \in Rows : s.key = k => between[s] = table[s]
    BY <1>1 DEF Left
  <2>2. Untouched(mode, between, batch, k)
    BY <1>1, <2>1 DEF Untouched, HasKey
  <2>3. \A s \in Rows : s.key = k => after[s] = between[s]
    BY <2>2 DEF Left
  <2> QED
    BY <1>1, <2>1, <2>3
<1>2. CASE ~Untouched(mode, table, batch, k)
  <2>1. PICK r \in batch : r.key = k /\ Sole(between, k, r)
    BY <1>2 DEF Left
  <2>2. CASE Untouched(mode, between, batch, k)
    <3>1. \A s \in Rows : s.key = k => after[s] = between[s]
      BY <2>2 DEF Left
    <3>2. Sole(after, k, r)
      BY <2>1, <3>1 DEF Sole
    <3> QED
      BY <1>2, <2>1, <3>2
  <2>3. CASE ~Untouched(mode, between, batch, k)
    BY <1>2, <2>3 DEF Left
  <2> QED
    BY <2>2, <2>3
<1> QED
  BY <1>1, <1>2

LEMMA LeftIsChange ==
  ASSUME NEW table \in Table, KeysUnique(table), NEW batch \in SUBSET Rows,
         NEW mode \in {"insert_ignore", "upsert"},
         NEW after \in Table, Left(mode, table, batch, after)
  PROVE  \E c \in Changes(mode, table, batch) : after = Changed(table, c)
<1> DEFINE Fit(k, r) == r.key = k /\ (Untouched(mode, table, batch, k) \/ Sole(after, k, r))
           pick(k) == CHOOSE r \in batch : Fit(k, r)
           d == {pick(k) : k \in KeysOf(batch)}
<1>1. ASSUME NEW k \in KeysOf(batch) PROVE pick(k) \in batch /\ Fit(k, pick(k))
  <2>1. k \in Keys /\ \E r \in batch : r.key = k
    BY RowHasKey DEF KeysOf
  <2>2. \E r \in batch : Fit(k, r)
    BY <2>1 DEF Left
  <2> HIDE DEF Fit
  <2> QED
    BY <2>2
<1> HIDE DEF pick
<1>2. d \in OneRowPerKey(batch)
  <2>1. d \subseteq batch
    BY <1>1
  <2>2. \A r, s \in d : r.key = s.key => r = s
    BY <1>1
  <2>3. KeysOf(d) = KeysOf(batch)
    BY <1>1, <2>1 DEF KeysOf
  <2> QED
    BY <2>1, <2>2, <2>3 DEF OneRowPerKey
<1>3. /\ \A s \in Rows : s.key \notin KeysOf(batch) => s \notin d
      /\ \A s \in Rows : s.key \in KeysOf(batch) => (s \in d <=> s = pick(s.key))
  BY <1>1
<1>4. \A s \in Rows : Untouched(mode, table, batch, s.key) => after[s] = table[s]
  BY RowHasKey DEF Left
<1>5. \A s \in Rows : ~Untouched(mode, table, batch, s.key) =>
        s.key \in KeysOf(batch) /\ after[s] = IF s \in d THEN 1 ELSE 0
  BY <1>1, <1>3 DEF Untouched, Sole
<1> HIDE DEF d
<1>6. CASE mode = "insert_ignore"
  <2> DEFINE c == [removed |-> Nothing, added |-> Copies({r \in d : ~HasKey(table, r.key)})]
  <2>1. c \in Changes(mode, table, batch)
    BY <1>2, <1>6 DEF Changes, InsertedOrIgnored
  <2>2. /\ c.removed = Nothing /\ c.added = Copies({r \in d : ~HasKey(table, r.key)})
    OBVIOUS
  <2> HIDE DEF c
  <2>3. /\ Changed(table, c) \in Table
        /\ \A s \in Rows : Changed(table, c)[s] = table[s] - c.removed[s] + c.added[s]
    BY <2>1, ChangeIs, ChangedIs
  <2>4. \A s \in Rows : Changed(table, c)[s] =
          table[s] + IF s \in d /\ ~HasKey(table, s.key) THEN 1 ELSE 0
    BY <2>2, <2>3, CopiesIs DEF Table
  <2>5. ASSUME NEW s \in Rows PROVE Changed(table, c)[s] = after[s]
    <3>1. CASE Untouched(mode, table, batch, s.key)
      <4>1. ~(s \in d /\ ~HasKey(table, s.key))
        BY <1>3, <1>6, <3>1 DEF Untouched
      <4> QED
        BY <1>4, <2>4, <3>1, <4>1 DEF Table
    <3>2. CASE ~Untouched(mode, table, batch, s.key)
      <4>1. ~HasKey(table, s.key) /\ table[s] = 0
        BY <1>5, <1>6, <3>2, NoKey DEF Untouched
      <4> QED
        BY <1>5, <2>4, <3>2, <4>1
    <3> QED
      BY <3>1, <3>2
  <2> QED
    BY <2>1, <2>3, <2>5, TableEqual
<1>7. CASE mode = "upsert"
  <2> DEFINE removed == [r \in Rows |-> IF r.key \in KeysOf(batch) THEN table[r] ELSE 0]
             added == [r \in Rows |-> IF r \notin d THEN 0 ELSE CopiesAdded(table, r)]
             c == [removed |-> removed, added |-> added]
  <2>1. c \in Changes(mode, table, batch)
    BY <1>2, <1>7 DEF Changes, Upserted, CopiesAdded
  <2>2. c.removed = removed /\ c.added = added
    OBVIOUS
  <2> HIDE DEF c
  <2>3. /\ Changed(table, c) \in Table
        /\ \A s \in Rows : Changed(table, c)[s] = table[s] - c.removed[s] + c.added[s]
    BY <2>1, ChangeIs, ChangedIs
  <2>4. \A s \in Rows : CopiesAdded(table, s) = 1
    BY CopiesOne DEF CopiesAdded
  <2>5. \A s \in Rows : Changed(table, c)[s] =
          (IF s.key \in KeysOf(batch) THEN 0 ELSE table[s]) + IF s \in d THEN 1 ELSE 0
    BY <2>2, <2>3, <2>4 DEF Table
  <2>6. ASSUME NEW s \in Rows PROVE Changed(table, c)[s] = after[s]
    <3>1. CASE s.key \in KeysOf(batch)
      BY <1>5, <1>7, <2>5, <3>1 DEF Untouched
    <3>2. CASE s.key \notin KeysOf(batch)
      BY <1>3, <1>4, <2>5, <3>2 DEF Untouched, Table
    <3> QED
      BY <3>1, <3>2
  <2> QED
    BY <2>1, <2>3, <2>6, TableEqual
<1> QED
  BY <1>6, <1>7

(* An insert_ignore or an upsert that runs again on what it left leaves    *)
(* what it might have left the first time.                                 *)
LEMMA ChangedTwice ==
  ASSUME NEW table \in Table, KeysUnique(table), NEW batch \in SUBSET Rows,
         NEW mode \in {"insert_ignore", "upsert"},
         NEW c \in Changes(mode, table, batch), NEW between \in Table,
         between = Changed(table, c), NEW e \in Changes(mode, between, batch)
  PROVE  \E b \in Changes(mode, table, batch) : Changed(between, e) = Changed(table, b)
<1>1. Left(mode, table, batch, between)
  BY ChangeLeaves
<1>2. KeysUnique(between)
  BY <1>1, LeftKeeps
<1>3. Left(mode, between, batch, Changed(between, e))
  BY <1>2, ChangeLeaves
<1>4. Changed(between, e) \in Table
  BY ChangeIs, ChangedIs
<1>5. Left(mode, table, batch, Changed(between, e))
  BY <1>1, <1>3, <1>4, LeftTwice
<1> QED
  BY <1>4, <1>5, LeftIsChange
=============================================================================
