---------------------------- MODULE PartsProofs ----------------------------
(***************************************************************************)
(* What holds of the release cap, the layout of the canvas, the draft runs *)
(* and the walk of the sync for any number of passes, answers, rows and    *)
(* faults, and of the six parts side by side.                              *)
(***************************************************************************)
EXTENDS MCParts, TokenRefreshProofs, SfRegistrationProofs, FiniteSetTheorems, NaturalsInduction, WellFoundedInduction, TLAPS
(* A set of numbers has a least one.                                       *)
LEMMA MinIsLeast ==
  ASSUME NEW S \in SUBSET Nat, S # {}
  PROVE  Min(S) \in S /\ \A y \in S : Min(S) <= y
<1>1. PICK x \in S : \A y \in S : ~(<<y, x>> \in OpToRel(<, Nat))
  BY NatLessThanWellFounded, WFMin
<1>2. \A y \in S : ~(y < x)
  BY <1>1 DEF OpToRel
<1>3. \A y \in S : x <= y
  BY <1>2
<1>4. QED
  BY <1>3 DEF Min

----------------------------------------------------------------------------
(* The cap on unfinished instances                                         *)

(* The first k queued rows of a run are at most k: their ranks differ.     *)
LEMMA QueuedRowsBounded ==
  ASSUME NEW r, NEW k \in Nat
  PROVE  IsFiniteSet(QueuedRows(r, k)) /\ Cardinality(QueuedRows(r, k)) <= k
<1> DEFINE R == {n \in RowsOf(r) : item[n] = "queued"}
           F == QueuedRows(r, k)
           UpTo(n) == {l \in RowsOf(r) : item[l] = "queued" /\ l <= n}
           rank == [n \in F |-> Cardinality(UpTo(n))]
<1>1. IsFiniteSet(R) /\ R \subseteq Nat
  BY CapAssumption, FS_Subset DEF RowsOf
<1>2. F \subseteq R
  BY DEF QueuedRows
<1>3. \A n : UpTo(n) \subseteq R
  OBVIOUS
<1>4. \A n : IsFiniteSet(UpTo(n)) /\ Cardinality(UpTo(n)) \in Nat
  BY <1>1, <1>3, FS_Subset, FS_CardinalityType
<1>5. \A n \in F : Cardinality(UpTo(n)) \in 1 .. k
  <2>1. SUFFICES ASSUME NEW n \in F PROVE Cardinality(UpTo(n)) \in 1 .. k
    OBVIOUS
  <2>2. n \in UpTo(n)
    BY <1>1, <1>2 DEF QueuedRows
  <2>3. Cardinality(UpTo(n)) # 0
    BY <1>4, <2>2, FS_EmptySet
  <2>4. Cardinality(UpTo(n)) <= k
    BY DEF QueuedRows
  <2>5. QED
    BY <1>4, <2>3, <2>4
<1>6. rank \in [F -> 1 .. k]
  BY <1>5
<1>7. ASSUME NEW m \in R, NEW n \in R, m < n PROVE Cardinality(UpTo(m)) # Cardinality(UpTo(n))
  <2>1. UpTo(m) \subseteq UpTo(n)
    BY <1>1, <1>7
  <2>2. n \in UpTo(n) /\ n \notin UpTo(m)
    BY <1>1, <1>7
  <2>3. UpTo(m) # UpTo(n)
    BY <2>2
  <2>4. QED
    BY <1>4, <2>1, <2>3, FS_Subset
<1>8. \A m, n \in F : rank[m] = rank[n] => m = n
  <2>1. SUFFICES ASSUME NEW m \in F, NEW n \in F, m # n PROVE rank[m] # rank[n]
    OBVIOUS
  <2>2. m \in Nat /\ n \in Nat /\ m \in R /\ n \in R
    BY <1>1, <1>2
  <2>3. CASE m < n
    BY <1>7, <2>2, <2>3
  <2>4. CASE n < m
    BY <1>7, <2>2, <2>4
  <2>5. QED
    BY <2>1, <2>2, <2>3, <2>4
<1>9. rank \in Injection(F, 1 .. k)
  BY <1>6, <1>8 DEF Injection, IsInjective
<1>10. IsFiniteSet(1 .. k) /\ Cardinality(1 .. k) = k
  BY FS_Interval
<1>11. QED
  BY <1>9, <1>10, FS_Injection


(* What a pass is.                                                         *)
PassState == [pc : {"idle", "rows", "run", "claim", "send"}, due : SUBSET Run, uncounted : SUBSET Run,
              launched : SUBSET Row, count : Nat, budget : 0 .. Cap, hand : SUBSET Row,
              claimed : Nat, released : Nat]
PassOK(p) == /\ p \in PassState
             /\ p.pc # "idle" => p.due # {}
             /\ p.pc = "send" => p.hand # {}
ItemsOK == /\ status \in [Run -> {"running", "held"}]
           /\ item \in [Row -> ItemState]
           /\ sent \subseteq Row
           /\ excess \in 0 .. MaxExcess

(* CapHolds is not inductive alone.  While a pass counts, every row that   *)
(* takes a slot in a run it has counted is in its count, or is one whose   *)
(* instance it will look at, or came back behind its back; while it        *)
(* releases, what is left of its budget fits beside what takes a slot.     *)
Unlisted == {n \in Row : RunOf[n] \notin pass.uncounted /\ n \notin pass.launched /\ n \in Occupied}
Counted ==
  /\ Cardinality(Unlisted) <= pass.count + excess
  /\ \A n \in pass.launched : item[n] \notin {"queued", "launching"}
Budgeted ==
  /\ Cardinality(Occupied) + pass.budget <= Cap + excess + pass.claimed
  /\ pass.released + Cardinality(pass.hand) <= pass.budget
  /\ pass.claimed = IF pass.pc = "send" THEN pass.released + 1 ELSE pass.released
  /\ pass.pc = "run" => pass.released = 0
CapInv ==
  /\ PassOK(pass) /\ ItemsOK /\ CapHolds
  /\ pass.pc = "rows" => Counted
  /\ pass.pc \in {"run", "claim", "send"} => Budgeted

(* Sets of rows can be counted.                                            *)
LEMMA RowsCounted ==
  ASSUME NEW S \in SUBSET Row PROVE IsFiniteSet(S) /\ Cardinality(S) \in Nat
  BY CapAssumption, FS_Subset, FS_CardinalityType

(* A larger set of rows counts as many or more.                            *)
LEMMA RowsMonotone ==
  ASSUME NEW S \in SUBSET Row, NEW T \in SUBSET S PROVE Cardinality(T) <= Cardinality(S)
  BY RowsCounted, FS_Subset

(* What the actions compute of the pass is of its type.                    *)
LEMMA PassFacts ==
  ASSUME CapInv
  PROVE  /\ pass \in PassState /\ NoWork \in PassState
         /\ pass.pc # "idle" => pass.due # {}
         /\ pass.due # {} => Min(pass.due) \in pass.due
         /\ pass.uncounted # {} => Min(pass.uncounted) \in pass.uncounted
         /\ pass.hand # {} => Min(pass.hand) \in pass.hand
         /\ Cap \in Nat \ {0} /\ ReleaseCount \in Nat \ {0} /\ MaxExcess \in Nat
         /\ excess \in Nat /\ Cardinality(Occupied) \in Nat
         /\ Cardinality(pass.hand) \in Nat /\ Occupied \in SUBSET Row
<1>1. pass \in PassState /\ NoWork \in PassState
  BY CapAssumption DEF CapInv, PassOK, PassState, NoWork
<1>2. pass.due \in SUBSET Nat /\ pass.uncounted \in SUBSET Nat /\ pass.hand \in SUBSET Nat
  BY <1>1, CapAssumption DEF PassState
<1>3. /\ pass.due # {} => Min(pass.due) \in pass.due
      /\ pass.uncounted # {} => Min(pass.uncounted) \in pass.uncounted
      /\ pass.hand # {} => Min(pass.hand) \in pass.hand
  BY <1>2, MinIsLeast
<1>4. Occupied \in SUBSET Row /\ pass.hand \in SUBSET Row
  BY <1>1 DEF Occupied, PassState
<1>5. Cardinality(Occupied) \in Nat /\ Cardinality(pass.hand) \in Nat
  BY <1>4, RowsCounted
<1>6. QED
  BY <1>1, <1>3, <1>4, <1>5, CapAssumption DEF CapInv, PassOK, ItemsOK

(* A pass that is over, or only beginning, owes nothing.                   *)
LEMMA IdlePassKeepsCap ==
  ASSUME CapInv, ItemsOK', CapHolds', PassOK(pass'), pass'.pc = "idle" PROVE CapInv'
  BY DEF CapInv

(* On to the next due run with a budget that fits.                         *)
LEMMA NextDueKeepsCap ==
  ASSUME CapInv, ItemsOK', pass.pc \in {"run", "claim", "send"}, NEW b \in 0 .. Cap,
         pass' = NextDue(b), item' = item,
         Cardinality(Occupied) + b <= Cap + excess'
  PROVE  CapInv'
<1>f. /\ pass \in PassState /\ NoWork \in PassState /\ pass.due # {} /\ Min(pass.due) \in pass.due
      /\ Cardinality(Occupied) \in Nat /\ Cap \in Nat /\ b \in Nat /\ excess' \in Nat
  BY PassFacts, CapAssumption DEF ItemsOK
<1>1. Occupied' = Occupied
  BY DEF Occupied
<1>2. CapHolds'
  BY <1>f, <1>1 DEF CapHolds
<1>3. CASE Cardinality(pass.due) = 1
  <2>1. pass' = NoWork
    BY <1>3 DEF NextDue
  <2>2. PassOK(pass') /\ pass'.pc = "idle"
    BY <1>f, <2>1 DEF NoWork, PassOK
  <2>3. QED
    BY <1>2, <2>2 DEF CapInv
<1>4. CASE Cardinality(pass.due) # 1
  <2>1. pass' = [NoWork EXCEPT !.pc = "run", !.due = pass.due \ {Min(pass.due)}, !.budget = b]
    BY <1>4 DEF NextDue
  <2>2. pass.due \ {Min(pass.due)} # {}
    <3>1. SUFFICES ASSUME pass.due = {Min(pass.due)} PROVE FALSE
      BY <1>f
    <3>2. QED
      BY <1>4, <3>1, FS_Singleton
  <2>3. /\ pass'.pc = "run" /\ pass'.due = pass.due \ {Min(pass.due)} /\ pass'.budget = b
        /\ pass'.hand = {} /\ pass'.claimed = 0 /\ pass'.released = 0
    BY <2>1 DEF NoWork
  <2>4. PassOK(pass')
    BY <1>f, <2>1, <2>2, <2>3 DEF PassOK, PassState, NoWork
  <2>5. Budgeted'
    BY <1>f, <1>1, <2>3, FS_EmptySet DEF Budgeted
  <2>6. QED
    BY <1>2, <2>3, <2>4, <2>5 DEF CapInv
<1>5. QED
  BY <1>3, <1>4

(* What happens behind the back of a pass: rows that take a slot anew came *)
(* back, and each is one of the excess.                                    *)
LEMMA BehindKeepsCap ==
  ASSUME CapInv, ItemsOK', pass' = pass, NEW X \in SUBSET Row,
         Occupied' \subseteq Occupied \cup X, excess' = excess + Cardinality(X),
         \A n \in Row : item'[n] \in {"queued", "launching"} => item[n] \in {"queued", "launching"}
  PROVE  CapInv'
<1>f. /\ pass \in PassState /\ excess \in Nat /\ Cardinality(Occupied) \in Nat /\ Occupied \in SUBSET Row
      /\ Cap \in Nat
  BY PassFacts
<1>1. IsFiniteSet(X) /\ Cardinality(X) \in Nat
  BY RowsCounted
<1>2. ASSUME NEW S \in SUBSET Row, NEW T \in SUBSET Row, T \subseteq S \cup X
      PROVE  Cardinality(T) <= Cardinality(S) + Cardinality(X)
  <2>1. S \cup X \in SUBSET Row
    OBVIOUS
  <2>2. Cardinality(T) <= Cardinality(S \cup X)
    BY <1>2, <2>1, RowsMonotone
  <2>3. /\ Cardinality(S \cup X) = Cardinality(S) + Cardinality(X) - Cardinality(S \cap X)
        /\ Cardinality(S \cap X) \in Nat /\ Cardinality(S) \in Nat /\ Cardinality(T) \in Nat
    <3>1. IsFiniteSet(S) /\ Cardinality(S) \in Nat /\ Cardinality(T) \in Nat
      BY RowsCounted
    <3>2. S \cap X \in SUBSET Row
      OBVIOUS
    <3>3. Cardinality(S \cap X) \in Nat
      BY <3>2, RowsCounted
    <3>4. QED
      BY <1>1, <3>1, <3>3, FS_Union
  <2>4. QED
    BY <1>1, <2>2, <2>3
<1>3. Occupied' \in SUBSET Row /\ Unlisted \in SUBSET Row /\ Unlisted' \in SUBSET Row
  BY DEF Occupied, Unlisted
<1>4. /\ Cardinality(Occupied)' <= Cardinality(Occupied) + Cardinality(X)
      /\ Cardinality(Occupied)' \in Nat
  BY <1>f, <1>2, <1>3, RowsCounted
<1>5. CapHolds'
  BY <1>f, <1>1, <1>4 DEF CapHolds, CapInv
<1>6. pass.pc = "rows" => Counted'
  <2>1. Unlisted' \subseteq Unlisted \cup X
    BY DEF Unlisted
  <2>2. /\ Cardinality(Unlisted)' <= Cardinality(Unlisted) + Cardinality(X)
        /\ Cardinality(Unlisted)' \in Nat /\ Cardinality(Unlisted) \in Nat
    BY <1>2, <1>3, <2>1, RowsCounted
  <2>3. pass.count \in Nat /\ pass.launched \subseteq Row
    BY <1>f DEF PassState
  <2>4. QED
    BY <1>f, <1>1, <2>2, <2>3 DEF Counted, CapInv
<1>7. pass.pc \in {"run", "claim", "send"} => Budgeted'
  <2>1. pass.budget \in Nat /\ pass.claimed \in Nat
    BY <1>f DEF PassState
  <2>2. QED
    BY <1>f, <1>1, <1>4, <2>1 DEF Budgeted, CapInv
<1>8. QED
  BY <1>5, <1>6, <1>7 DEF CapInv

(* Before the first pass nothing takes a slot.                             *)
LEMMA CapBegins == CapInit => CapInv
<1> SUFFICES ASSUME CapInit PROVE CapInv
  OBVIOUS
<1>1. Occupied = {} /\ pass.pc = "idle" /\ excess = 0
  BY DEF CapInit, Occupied, NoWork
<1>2. Cardinality(Occupied) = 0
  BY <1>1, FS_EmptySet
<1>3. PassOK(pass) /\ ItemsOK
  BY CapAssumption DEF CapInit, PassOK, PassState, ItemsOK, ItemState, NoWork
<1>4. QED
  BY <1>1, <1>2, <1>3, CapAssumption DEF CapInv, CapHolds

(* The scan.                                                               *)
LEMMA ScanKeepsCap == ASSUME CapInv, ScanDue PROVE CapInv'
<1>1. PICK due \in SUBSET {r \in Run : status[r] = "running"} :
        due # {} /\ pass' = [NoWork EXCEPT !.pc = "rows", !.due = due, !.uncounted = Run]
  BY DEF ScanDue
<1>2. /\ pass'.pc = "rows" /\ pass'.uncounted = Run /\ pass'.launched = {} /\ pass'.count = 0
      /\ item' = item /\ excess' = excess /\ status' = status /\ sent' = sent
  BY <1>1 DEF NoWork, ScanDue
<1>3. PassOK(pass')
  BY <1>1, PassFacts DEF PassOK, PassState, NoWork
<1>4. Unlisted' = {}
  BY <1>2, CapAssumption DEF Unlisted
<1>5. Cardinality(Unlisted)' = 0
  BY <1>4, FS_EmptySet
<1>6. Counted'
  BY <1>2, <1>5, PassFacts DEF Counted
<1>7. CapHolds' /\ ItemsOK'
  BY <1>2 DEF CapInv, CapHolds, Occupied, ItemsOK
<1>8. QED
  BY <1>2, <1>3, <1>6, <1>7 DEF CapInv

(* The count of a run lists its rows that take a slot.                     *)
LEMMA CountKeepsCap == ASSUME CapInv, CountRows PROVE CapInv'
<1> DEFINE r == Min(pass.uncounted)
<1>f. /\ pass \in PassState /\ r \in pass.uncounted /\ excess \in Nat /\ Occupied \in SUBSET Row
      /\ pass.pc = "rows"
  BY PassFacts DEF CountRows, AtPc
<1> HIDE DEF r
<1>1. pass' = [pass EXCEPT !.uncounted = @ \ {r}, !.count = @ + Cardinality(InFlightRows(r)),
                           !.launched = @ \cup Launched(r)]
  BY DEF CountRows, r
<1>2. item' = item /\ excess' = excess /\ status' = status /\ sent' = sent
  BY DEF CountRows
<1>3. /\ InFlightRows(r) \in SUBSET Row /\ Launched(r) \in SUBSET Row
      /\ Unlisted \in SUBSET Row /\ Unlisted' \in SUBSET Row
  BY DEF InFlightRows, Launched, RowsOf, Unlisted
<1>4. /\ IsFiniteSet(InFlightRows(r)) /\ Cardinality(InFlightRows(r)) \in Nat
      /\ IsFiniteSet(Unlisted) /\ Cardinality(Unlisted) \in Nat /\ Cardinality(Unlisted') \in Nat
  BY <1>3, RowsCounted
<1>5. /\ pass'.pc = "rows" /\ pass'.uncounted = pass.uncounted \ {r}
      /\ pass'.count = pass.count + Cardinality(InFlightRows(r))
      /\ pass'.launched = pass.launched \cup Launched(r) /\ pass'.due = pass.due
  BY <1>f, <1>1 DEF PassState
<1>6. PassOK(pass')
  <2>1. pass' \in PassState
    <3>1. /\ pass.uncounted \in SUBSET Run /\ pass.launched \in SUBSET Row /\ pass.count \in Nat
      BY <1>f DEF PassState
    <3>2. /\ pass.uncounted \ {r} \in SUBSET Run /\ pass.launched \cup Launched(r) \in SUBSET Row
          /\ pass.count + Cardinality(InFlightRows(r)) \in Nat
      BY <1>3, <1>4, <3>1
    <3>3. QED
      BY <1>f, <1>1, <3>2 DEF PassState
  <2>2. pass.due # {}
    BY <1>f, PassFacts
  <2>3. QED
    BY <1>5, <2>1, <2>2 DEF PassOK
<1>7. Occupied' = Occupied
  BY <1>2 DEF Occupied
<1>8. Unlisted' \subseteq Unlisted \cup InFlightRows(r)
  BY <1>5, <1>7 DEF Unlisted, Occupied, InFlightRows, Launched, RowsOf
<1>9. Cardinality(Unlisted') <= Cardinality(Unlisted) + Cardinality(InFlightRows(r))
  <2>1. Unlisted \cup InFlightRows(r) \in SUBSET Row
    BY <1>3
  <2>2. Unlisted \cap InFlightRows(r) \in SUBSET Row
    BY <1>3
  <2>3. Cardinality(Unlisted') <= Cardinality(Unlisted \cup InFlightRows(r))
    BY <1>8, <2>1, RowsMonotone
  <2>4. Cardinality(Unlisted \cap InFlightRows(r)) \in Nat
    BY <2>2, RowsCounted
  <2>5. Cardinality(Unlisted \cup InFlightRows(r)) =
          Cardinality(Unlisted) + Cardinality(InFlightRows(r)) - Cardinality(Unlisted \cap InFlightRows(r))
    BY <1>4, FS_Union
  <2>6. QED
    BY <1>4, <2>3, <2>4, <2>5
<1>10. Counted'
  <2>1. Cardinality(Unlisted) <= pass.count + excess /\ pass.count \in Nat
    BY <1>f DEF CapInv, Counted, PassState
  <2>2. Cardinality(Unlisted') <= pass'.count + excess'
    BY <1>f, <1>2, <1>4, <1>5, <1>9, <2>1
  <2>3. \A n \in pass'.launched : item'[n] \notin {"queued", "launching"}
    BY <1>f, <1>2, <1>5 DEF CapInv, Counted, Launched
  <2>4. QED
    BY <2>2, <2>3 DEF Counted
<1>11. CapHolds' /\ ItemsOK'
  BY <1>2, <1>7 DEF CapInv, CapHolds, ItemsOK
<1>12. QED
  BY <1>5, <1>6, <1>10, <1>11 DEF CapInv

(* The instances counted, what is left of the cap is the budget.           *)
LEMMA BudgetKeepsCap == ASSUME CapInv, CountInstances PROVE CapInv'
<1> DEFINE U == {m \in pass.launched : item[m] = "unfinished"}
<1>p. PICK D \in SUBSET U :
        /\ pass' = [NoWork EXCEPT !.pc = "run", !.due = pass.due,
                                  !.budget = LeftOf(pass.count + Cardinality(U \ D))]
        /\ excess + Cardinality(D) <= MaxExcess
        /\ excess' = excess + Cardinality(D)
  BY DEF CountInstances
<1> DEFINE n == pass.count + Cardinality(U \ D)
<1>f. /\ pass \in PassState /\ pass.pc = "rows" /\ pass.uncounted = {}
      /\ excess \in Nat /\ Occupied \in SUBSET Row /\ Cardinality(Occupied) \in Nat
      /\ Cap \in Nat \ {0} /\ pass.count \in Nat
  BY PassFacts DEF CountInstances, AtPc, PassState
<1>1. U \in SUBSET Row /\ Unlisted \in SUBSET Row
  BY <1>f DEF PassState, Unlisted
<1>2. /\ IsFiniteSet(U) /\ Cardinality(U) \in Nat
      /\ IsFiniteSet(Unlisted) /\ Cardinality(Unlisted) \in Nat
  BY <1>1, RowsCounted
<1>d. /\ D \in SUBSET Row /\ U \ D \in SUBSET Row
      /\ Cardinality(D) \in Nat /\ Cardinality(U \ D) \in Nat
      /\ Cardinality(U) = Cardinality(U \ D) + Cardinality(D)
  <2>1. D \in SUBSET Row /\ U \ D \in SUBSET Row
    BY <1>1
  <2>2. IsFiniteSet(D) /\ IsFiniteSet(U \ D) /\ Cardinality(D) \in Nat /\ Cardinality(U \ D) \in Nat
    BY <2>1, RowsCounted
  <2>3. (U \ D) \cup D = U /\ (U \ D) \cap D = {}
    OBVIOUS
  <2>4. Cardinality(U) = Cardinality(U \ D) + Cardinality(D) - Cardinality({})
    BY <2>2, <2>3, FS_Union
  <2>5. QED
    BY <2>1, <2>2, <2>4, FS_EmptySet
<1>3. /\ pass' = [NoWork EXCEPT !.pc = "run", !.due = pass.due, !.budget = LeftOf(n)]
      /\ item' = item /\ status' = status /\ sent' = sent
      /\ excess' = excess + Cardinality(D) /\ excess' \in Nat /\ excess' <= MaxExcess
  BY <1>p, <1>d, <1>f DEF CountInstances
<1>4. Cardinality(Occupied) <= n + excess'
  <2>1. Occupied \subseteq Unlisted \cup U
    BY <1>f DEF CapInv, Counted, Unlisted, Occupied
  <2>2. Unlisted \cup U \in SUBSET Row /\ Unlisted \cap U \in SUBSET Row
    BY <1>1
  <2>3. Cardinality(Occupied) <= Cardinality(Unlisted \cup U)
    BY <2>1, <2>2, RowsMonotone
  <2>4. Cardinality(Unlisted \cup U) = Cardinality(Unlisted) + Cardinality(U) - Cardinality(Unlisted \cap U)
    BY <1>2, FS_Union
  <2>5. Cardinality(Unlisted \cap U) \in Nat
    BY <2>2, RowsCounted
  <2>6. Cardinality(Unlisted) <= pass.count + excess
    BY <1>f DEF CapInv, Counted
  <2>7. QED
    BY <1>f, <1>2, <1>d, <1>3, <2>3, <2>4, <2>5, <2>6
<1>5. n \in Nat
  BY <1>f, <1>d
<1> HIDE DEF n
<1>6. /\ LeftOf(n) \in 0 .. Cap
      /\ Cardinality(Occupied) + LeftOf(n) <= Cap + excess'
      /\ Cardinality(Occupied) <= Cap + excess'
  <2>1. Cardinality(Occupied) <= Cap + excess
    BY DEF CapInv, CapHolds
  <2>2. Cardinality(Occupied) <= Cap + excess'
    BY <1>f, <1>3, <1>d, <2>1
  <2>3. QED
    BY <1>f, <1>3, <1>4, <1>5, <2>2 DEF LeftOf
<1>7. /\ pass'.pc = "run" /\ pass'.due = pass.due /\ pass'.budget = LeftOf(n)
      /\ pass'.hand = {} /\ pass'.claimed = 0 /\ pass'.released = 0
  BY <1>3 DEF NoWork
<1>8. PassOK(pass')
  <2>1. pass' \in PassState
    BY <1>f, <1>3, <1>6 DEF PassState, NoWork
  <2>2. pass.due # {}
    BY <1>f, PassFacts
  <2>3. QED
    BY <1>7, <2>1, <2>2 DEF PassOK
<1>9. Occupied' = Occupied
  BY <1>3 DEF Occupied
<1>10. Budgeted'
  <2>1. Cardinality(pass'.hand) = 0
    BY <1>7, FS_EmptySet
  <2>2. LeftOf(n) \in Nat
    BY <1>f, <1>6
  <2>3. QED
    BY <1>f, <1>3, <1>6, <1>7, <1>9, <2>1, <2>2 DEF Budgeted
<1>11. CapHolds' /\ ItemsOK'
  BY <1>3, <1>6, <1>9 DEF CapInv, CapHolds, ItemsOK
<1>12. QED
  BY <1>3, <1>7, <1>8, <1>10, <1>11 DEF CapInv

(* The query takes no more rows in hand than the budget allows.            *)
LEMMA QueryKeepsCap == ASSUME CapInv, QueryRows PROVE CapInv'
<1> DEFINE k == Min({ReleaseCount, pass.budget})
           hand == QueuedRows(Min(pass.due), k)
<1>f. /\ pass \in PassState /\ pass.pc = "run" /\ pass.due # {} /\ ReleaseCount \in Nat \ {0}
      /\ pass.budget \in 0 .. Cap /\ Cap \in Nat /\ Budgeted
  BY PassFacts DEF QueryRows, AtPc, PassState, CapInv
<1>1. k \in Nat /\ k <= pass.budget
  <2>1. {ReleaseCount, pass.budget} \in SUBSET Nat
    BY <1>f
  <2>2. k \in {ReleaseCount, pass.budget} /\ \A y \in {ReleaseCount, pass.budget} : k <= y
    BY <2>1, MinIsLeast
  <2>3. QED
    BY <2>1, <2>2
<1>2. pass' = [pass EXCEPT !.pc = "claim", !.hand = hand] /\ item' = item /\ excess' = excess
      /\ status' = status /\ sent' = sent
  BY DEF QueryRows
<1> HIDE DEF k
<1>3. hand \in SUBSET Row /\ Cardinality(hand) <= k /\ Cardinality(hand) \in Nat
  <2>1. Cardinality(hand) <= k
    BY <1>1, QueuedRowsBounded
  <2>2. hand \in SUBSET Row
    BY DEF QueuedRows, RowsOf
  <2>3. QED
    BY <2>1, <2>2, RowsCounted
<1> HIDE DEF hand
<1>4. /\ pass'.pc = "claim" /\ pass'.hand = hand /\ pass'.due = pass.due /\ pass'.budget = pass.budget
      /\ pass'.claimed = pass.claimed /\ pass'.released = pass.released
  BY <1>f, <1>2 DEF PassState
<1>5. PassOK(pass')
  BY <1>f, <1>2, <1>3, <1>4 DEF PassOK, PassState
<1>6. Occupied' = Occupied
  BY <1>2 DEF Occupied
<1>7. Budgeted'
  BY <1>f, <1>1, <1>2, <1>3, <1>4, <1>6 DEF Budgeted
<1>8. CapHolds' /\ ItemsOK'
  BY <1>2, <1>6 DEF CapInv, CapHolds, ItemsOK
<1>9. QED
  BY <1>4, <1>5, <1>7, <1>8 DEF CapInv

(* A claim takes a slot the budget has left, or loses the row.             *)
LEMMA ClaimKeepsCap == ASSUME CapInv, Claim PROVE CapInv'
<1> DEFINE n == Min(pass.hand)
<1>f. /\ pass \in PassState /\ pass.pc = "claim" /\ n \in pass.hand /\ n \in Row /\ Budgeted
      /\ Cap \in Nat \ {0} /\ excess \in Nat /\ Cardinality(Occupied) \in Nat /\ Occupied \in SUBSET Row
      /\ IsFiniteSet(Occupied) /\ IsFiniteSet(pass.hand) /\ Cardinality(pass.hand) \in Nat
      /\ pass.budget \in Nat /\ pass.claimed \in Nat /\ pass.released \in Nat
      /\ item \in [Row -> ItemState]
  BY PassFacts, RowsCounted DEF Claim, AtPc, PassState, CapInv, ItemsOK
<1> HIDE DEF n
<1>e. excess' = excess /\ status' = status /\ sent' = sent
  BY DEF Claim
<1>1. CASE item[n] = "queued"
  <2>1. /\ item' = [item EXCEPT ![n] = "launching"]
        /\ pass' = [pass EXCEPT !.pc = "send", !.claimed = @ + 1]
    BY <1>1 DEF Claim, SetItem, n
  <2>2. /\ pass'.pc = "send" /\ pass'.hand = pass.hand /\ pass'.due = pass.due
        /\ pass'.budget = pass.budget /\ pass'.claimed = pass.claimed + 1
        /\ pass'.released = pass.released
    BY <1>f, <2>1 DEF PassState
  <2>3. PassOK(pass')
    <3>1. pass' \in PassState
      <4>1. pass.claimed + 1 \in Nat
        BY <1>f
      <4>2. QED
        BY <1>f, <2>1, <4>1 DEF PassState
    <3>2. pass.due # {}
      BY <1>f, PassFacts
    <3>3. QED
      BY <1>f, <2>2, <3>1, <3>2 DEF PassOK
  <2>4. ItemsOK'
    BY <1>f, <1>e, <2>1 DEF CapInv, ItemsOK, ItemState
  <2>5. Occupied' = Occupied \cup {n} /\ n \notin Occupied
    BY <1>f, <1>1, <2>1 DEF Occupied
  <2>6. Cardinality(Occupied)' = Cardinality(Occupied) + 1
    BY <1>f, <2>5, FS_AddElement
  <2>7. Cardinality(pass.hand) # 0
    BY <1>f, FS_EmptySet
  <2>8. Budgeted' /\ CapHolds'
    BY <1>f, <1>e, <2>2, <2>6, <2>7 DEF Budgeted, CapHolds
  <2>9. QED
    BY <2>2, <2>3, <2>4, <2>8 DEF CapInv
<1>2. CASE item[n] # "queued"
  <2>1. item' = item /\ pass' = [pass EXCEPT !.hand = @ \ {n}]
    BY <1>2 DEF Claim, n
  <2>2. /\ pass'.pc = "claim" /\ pass'.hand = pass.hand \ {n} /\ pass'.due = pass.due
        /\ pass'.budget = pass.budget /\ pass'.claimed = pass.claimed
        /\ pass'.released = pass.released
    BY <1>f, <2>1 DEF PassState
  <2>3. PassOK(pass')
    <3>1. pass' \in PassState
      <4>1. pass.hand \in SUBSET Row
        BY <1>f DEF PassState
      <4>2. pass.hand \ {n} \in SUBSET Row
        BY <4>1
      <4>3. QED
        BY <1>f, <2>1, <4>2 DEF PassState
    <3>2. pass.due # {}
      BY <1>f, PassFacts
    <3>3. QED
      BY <1>f, <2>2, <3>1, <3>2 DEF PassOK
  <2>4. Occupied' = Occupied
    BY <2>1 DEF Occupied
  <2>5. Cardinality(pass'.hand) = Cardinality(pass.hand) - 1
    <3>1. pass.hand \in SUBSET Row /\ n \in pass.hand
      BY <1>f DEF PassState
    <3>2. IsFiniteSet(pass.hand)
      BY <3>1, RowsCounted
    <3>3. Cardinality(pass.hand \ {n}) = Cardinality(pass.hand) - 1
      BY <3>1, <3>2, FS_RemoveElement
    <3>4. QED
      BY <2>2, <3>3
  <2>6. Budgeted'
    BY <1>f, <1>e, <2>2, <2>4, <2>5 DEF Budgeted
  <2>7. CapHolds' /\ ItemsOK'
    BY <1>e, <2>1, <2>4 DEF CapInv, CapHolds, ItemsOK
  <2>8. QED
    BY <2>2, <2>3, <2>6, <2>7 DEF CapInv
<1>3. QED
  BY <1>1, <1>2

(* A send makes the claim a release.                                       *)
LEMMA SendKeepsCap == ASSUME CapInv, SendJobOf PROVE CapInv'
<1> DEFINE n == Min(pass.hand)
<1>f. /\ pass \in PassState /\ pass.pc = "send" /\ n \in pass.hand /\ n \in Row /\ Budgeted
      /\ Cap \in Nat \ {0} /\ excess \in Nat /\ Cardinality(Occupied) \in Nat
      /\ IsFiniteSet(pass.hand) /\ Cardinality(pass.hand) \in Nat
      /\ pass.budget \in Nat /\ pass.claimed \in Nat /\ pass.released \in Nat
  BY PassFacts, RowsCounted DEF SendJobOf, AtPc, PassState, CapInv, PassOK
<1> HIDE DEF n
<1>1. /\ sent' = sent \cup {n} /\ item' = item /\ excess' = excess /\ status' = status
      /\ pass' = [pass EXCEPT !.pc = "claim", !.hand = @ \ {n}, !.released = @ + 1]
  BY DEF SendJobOf, n
<1>2. /\ pass'.pc = "claim" /\ pass'.hand = pass.hand \ {n} /\ pass'.due = pass.due
      /\ pass'.budget = pass.budget /\ pass'.claimed = pass.claimed
      /\ pass'.released = pass.released + 1
  BY <1>f, <1>1 DEF PassState
<1>3. PassOK(pass')
  <2>1. pass' \in PassState
    <3>1. pass.hand \in SUBSET Row
      BY <1>f DEF PassState
    <3>2. pass.hand \ {n} \in SUBSET Row /\ pass.released + 1 \in Nat
      BY <1>f, <3>1
    <3>3. QED
      BY <1>f, <1>1, <3>2 DEF PassState
  <2>2. pass.due # {}
    BY <1>f, PassFacts
  <2>3. QED
    BY <1>2, <2>1, <2>2 DEF PassOK
<1>4. Occupied' = Occupied
  BY <1>1 DEF Occupied
<1>5. Cardinality(pass'.hand) = Cardinality(pass.hand) - 1
  BY <1>f, <1>2, FS_RemoveElement
<1>6. Budgeted'
  BY <1>f, <1>1, <1>2, <1>4, <1>5 DEF Budgeted
<1>7. CapHolds' /\ ItemsOK'
  BY <1>f, <1>1, <1>4 DEF CapInv, CapHolds, ItemsOK
<1>8. QED
  BY <1>2, <1>3, <1>6, <1>7 DEF CapInv

(* The end of a release, orderly or not.                                   *)
LEMMA ReleaseEndKeepsCap == ASSUME CapInv, RunReleased \/ DispatchThrows PROVE CapInv'
<1>f. /\ pass \in PassState /\ Cap \in Nat \ {0} /\ excess \in Nat /\ Cardinality(Occupied) \in Nat
      /\ Cardinality(pass.hand) \in Nat /\ MaxExcess \in Nat
      /\ pass.budget \in 0 .. Cap /\ pass.claimed \in Nat /\ pass.released \in Nat
  BY PassFacts DEF PassState
<1>1. CASE RunReleased
  <2>1. /\ pass.pc = "claim" /\ pass' = NextDue(pass.budget - pass.released)
        /\ item' = item /\ status' = status /\ sent' = sent /\ excess' = excess
    BY <1>1 DEF RunReleased, Shared, AtPc
  <2>2. Budgeted
    BY <2>1 DEF CapInv
  <2>3. /\ pass.budget - pass.released \in 0 .. Cap
        /\ Cardinality(Occupied) + (pass.budget - pass.released) <= Cap + excess'
    BY <1>f, <2>1, <2>2 DEF Budgeted
  <2>4. ItemsOK'
    BY <2>1 DEF CapInv, ItemsOK
  <2>5. QED
    BY <2>1, <2>3, <2>4, NextDueKeepsCap
<1>2. CASE DispatchThrows
  <2>1. /\ pass.pc \in {"run", "claim", "send"} /\ pass' = NextDue(pass.budget)
        /\ item' = item /\ status' = status /\ sent' = sent
        /\ excess' = excess + (IF pass.pc = "run" THEN 0 ELSE pass.claimed)
        /\ excess' <= MaxExcess
    BY <1>2 DEF DispatchThrows, AtPc
  <2>2. Budgeted
    BY <2>1 DEF CapInv
  <2>3. Cardinality(Occupied) + pass.budget <= Cap + excess' /\ excess' \in 0 .. MaxExcess
    BY <1>f, <2>1, <2>2 DEF Budgeted
  <2>4. ItemsOK'
    BY <2>1, <2>3 DEF CapInv, ItemsOK
  <2>5. QED
    BY <1>f, <2>1, <2>3, <2>4, NextDueKeepsCap
<1>3. QED
  BY <1>1, <1>2

(* The launcher, the users and Maestro, and the return of an instance to   *)
(* the count.                                                              *)
LEMMA OthersKeepCap ==
  ASSUME CapInv, NEW n \in Row, LaunchEnds(n) \/ CancelRow(n) \/ Leaves(n) \/ ComesBack(n)
  PROVE  CapInv'
<1>f. /\ pass \in PassState /\ excess \in Nat /\ MaxExcess \in Nat /\ item \in [Row -> ItemState]
      /\ Cardinality({}) = 0 /\ Cardinality({n}) = 1
  BY PassFacts, FS_EmptySet, FS_Singleton DEF CapInv, ItemsOK
<1>1. CASE LaunchEnds(n) \/ CancelRow(n) \/ Leaves(n)
  <2>1. pass' = pass /\ excess' = excess /\ status' = status /\ sent' = sent
    BY <1>1 DEF LaunchEnds, CancelRow, Leaves
  <2>2. PICK s \in {"unfinished", "overdue", "terminal"} :
          item' = [item EXCEPT ![n] = s] /\ (s = "unfinished" => item[n] = "launching")
    BY <1>1 DEF LaunchEnds, CancelRow, Leaves, SetItem
  <2>3. ItemsOK'
    BY <1>f, <2>1, <2>2 DEF CapInv, ItemsOK, ItemState
  <2>4. Occupied' \subseteq Occupied \cup {}
    BY <1>f, <2>2 DEF Occupied
  <2>5. \A m \in Row : item'[m] \in {"queued", "launching"} => item[m] \in {"queued", "launching"}
    BY <1>f, <2>2
  <2>6. excess' = excess + Cardinality({})
    BY <1>f, <2>1
  <2>7. QED
    BY <2>1, <2>3, <2>4, <2>5, <2>6, BehindKeepsCap
<1>2. CASE ComesBack(n)
  <2>1. /\ pass' = pass /\ excess < MaxExcess /\ excess' = excess + 1 /\ status' = status /\ sent' = sent
        /\ item' = [item EXCEPT ![n] = "unfinished"]
    BY <1>2 DEF ComesBack, SetItem
  <2>2. ItemsOK'
    BY <1>f, <2>1 DEF CapInv, ItemsOK, ItemState
  <2>3. Occupied' \subseteq Occupied \cup {n}
    BY <1>f, <2>1 DEF Occupied
  <2>4. \A m \in Row : item'[m] \in {"queued", "launching"} => item[m] \in {"queued", "launching"}
    BY <1>f, <2>1
  <2>5. excess' = excess + Cardinality({n})
    BY <1>f, <2>1
  <2>6. QED
    BY <2>1, <2>2, <2>3, <2>4, <2>5, BehindKeepsCap
<1>3. QED
  BY <1>1, <1>2

(* The inductive step of CapIsKept.                                        *)
LEMMA CapStep == ASSUME CapInv, [CapNext]_capVars PROVE CapInv'
<1>1. CASE PassEnds
  <2>1. pass' = NoWork /\ item' = item /\ status' = status /\ sent' = sent /\ excess' = excess
    BY <1>1 DEF PassEnds
  <2>2. PassOK(pass') /\ pass'.pc = "idle"
    BY <2>1, PassFacts DEF PassOK, NoWork
  <2>3. CapHolds' /\ ItemsOK'
    BY <2>1 DEF CapInv, CapHolds, ItemsOK, Occupied
  <2>4. QED
    BY <2>2, <2>3, IdlePassKeepsCap
<1>2. ASSUME NEW r \in Run, HoldOrResume(r) PROVE CapInv'
  <2>1. item' = item /\ sent' = sent /\ pass' = pass /\ excess' = excess
    BY <1>2 DEF HoldOrResume
  <2>2. ItemsOK'
    BY <1>2, <2>1 DEF HoldOrResume, CapInv, ItemsOK
  <2>3. QED
    BY <2>1, <2>2 DEF CapInv, CapHolds, Occupied, Counted, Unlisted, Budgeted
<1>3. CASE UNCHANGED capVars
  BY <1>3 DEF capVars, CapInv, ItemsOK, CapHolds, Occupied, Counted, Unlisted, Budgeted
<1>4. QED
  BY <1>1, <1>2, <1>3, ScanKeepsCap, CountKeepsCap, BudgetKeepsCap, QueryKeepsCap, ClaimKeepsCap,
     SendKeepsCap, ReleaseEndKeepsCap, OthersKeepCap
  DEF CapNext

(* "Cap on simultaneously unfinished instances across ALL of this          *)
(* processor's runs" is kept for every number of runs, rows and slots: one *)
(* count, shared from run to run, is never exceeded by what the launcher,  *)
(* the users and Maestro do between the count and the last claim, but for  *)
(* instances that came back to it, instances a batch get did not return to *)
(* it, and the claims of a release that threw.                             *)
THEOREM CapIsKept == CapSpec => []CapHolds
<1>1. CapInv /\ [CapNext]_capVars => CapInv'
  BY CapStep
<1>2. CapInv => CapHolds
  BY DEF CapInv
<1>3. QED
  BY <1>1, <1>2, CapBegins, PTL DEF CapSpec

-----------------------------------------------------------------------------
(* What keeps an old answer from the canvas.  The visit's last move, as    *)
(* long as no request brought it to the server, is queued, and the PATCH   *)
(* on its way back is not taken for it; an answer read before that finds   *)
(* the move still queued, or acknowledged a moment ago.                    *)
VisitState ==
  [st : {"unopened", "open", "gone"}, dirty : CellOr, pin : CellOr,
   timer : BOOLEAN, guard : BOOLEAN, migrated : BOOLEAN, flush : {"none", "sent", "saved"},
   move : CellOr, placed : CellOr, get : {"idle", "answered"}, got : CellOr,
   legacy : BOOLEAN, unsaved : BOOLEAN, old : BOOLEAN]
SaveState ==
  [st : {"free", "chained", "sent", "done"}, of : Visit \cup {Nowhere}, move : CellOr, placed : CellOr]
MoveQueued(x)  == x.unsaved => x.dirty # Nowhere
NotTakenFor(x) == x.unsaved /\ x.flush = "saved" => x.move # x.dirty
OldIsFenced(x) == x.get = "answered" => x.st = "open" /\ (x.old => x.dirty # Nowhere \/ x.guard)
VisitOK(x)     == x \in VisitState /\ MoveQueued(x) /\ NotTakenFor(x) /\ OldIsFenced(x)
SaveOK(s)      == s \in SaveState /\ (s.st \in {"chained", "sent"} => s.of \in Visit)
CanvasInv ==
  /\ stored.cell \in CellOr /\ stored.legacy \in BOOLEAN
  /\ DOMAIN visit = Visit /\ \A v \in Visit : VisitOK(visit[v])
  /\ DOMAIN early = Early /\ \A k \in Early : SaveOK(early[k])

(* What a save writes is a cell of the map.                                *)
LEMMA WrittenIsStored ==
  ASSUME CanvasInv, NEW move \in CellOr, NEW placed \in CellOr
  PROVE  Written(move, placed).cell \in CellOr /\ Written(move, placed).legacy \in BOOLEAN
  BY DEF Written, CanvasInv

(* One visit changes at a time.                                            *)
LEMMA OneVisitChanges ==
  ASSUME CanvasInv, NEW v \in Visit, NEW x, VisitOK(x), visit' = [visit EXCEPT ![v] = x],
         stored'.cell \in CellOr, stored'.legacy \in BOOLEAN,
         DOMAIN early' = Early, \A k \in Early : SaveOK(early'[k])
  PROVE  CanvasInv'
<1>1. DOMAIN visit' = Visit /\ \A u \in Visit : VisitOK(visit'[u])
  BY DEF CanvasInv
<1>2. QED
  BY <1>1 DEF CanvasInv, VisitOK, SaveOK, MoveQueued, NotTakenFor, OldIsFenced

(* No visit has begun.                                                     *)
LEMMA CanvasBegins == CanvasInit => CanvasInv
  BY CanvasAssumption DEF CanvasInit, CanvasInv, NewVisit, NewSave, VisitOK, SaveOK, VisitState, SaveState,
     MoveQueued, NotTakenFor, OldIsFenced, CellOr

(* The user, the timer and the answers of the server to the page.          *)
LEMMA VisitMoves ==
  ASSUME CanvasInv, NEW v \in Visit,
         \/ Mount(v) \/ (\E c \in Cell : Drop(v, c) \/ PinDefault(v, c))
         \/ TimerFires(v) \/ Answer(v) \/ OnSuccess(v) \/ GuardExpires(v)
  PROVE  CanvasInv'
<1> DEFINE x == visit[v]
<1>f. /\ x \in VisitState /\ VisitOK(x) /\ stored.cell \in CellOr /\ stored.legacy \in BOOLEAN
      /\ DOMAIN visit = Visit
  BY DEF CanvasInv, VisitOK
<1>e. /\ early' = early /\ stored' = stored
  BY DEF Mount, Drop, PinDefault, TimerFires, Answer, OnSuccess, GuardExpires
<1>w. /\ stored'.cell \in CellOr /\ stored'.legacy \in BOOLEAN
      /\ DOMAIN early' = Early /\ \A k \in Early : SaveOK(early'[k])
  BY <1>e DEF CanvasInv, SaveOK
<1>1. CASE Mount(v)
  <2>1. visit' = [visit EXCEPT ![v] = [x EXCEPT !.st = "open"]]
    BY <1>1 DEF Mount
  <2>2. VisitOK([x EXCEPT !.st = "open"])
    BY <1>f DEF VisitOK, VisitState, MoveQueued, NotTakenFor, OldIsFenced
  <2>3. QED
    BY <1>w, <2>1, <2>2, OneVisitChanges
<1>2. ASSUME NEW c \in Cell, Drop(v, c) PROVE CanvasInv'
  <2> DEFINE y == [x EXCEPT !.dirty = c, !.timer = TRUE, !.unsaved = ~(x.flush = "saved" /\ x.move = c),
                            !.old = x.get = "answered"]
  <2>1. visit' = [visit EXCEPT ![v] = y]
    BY <1>f, <1>2 DEF Drop
  <2>2. VisitOK(y)
    <3>1. y \in VisitState
      <4>1. /\ c \in CellOr /\ (~(x.flush = "saved" /\ x.move = c)) \in BOOLEAN
            /\ (x.get = "answered") \in BOOLEAN
        BY DEF CellOr
      <4>2. QED
        BY <1>f, <4>1 DEF VisitState
    <3>2. /\ y.dirty = c /\ y.unsaved = ~(x.flush = "saved" /\ x.move = c) /\ y.st = x.st
          /\ y.move = x.move /\ y.flush = x.flush
      BY <1>f DEF VisitState
    <3>3. c # Nowhere /\ x.st = "open"
      BY <1>2, CanvasAssumption DEF Drop, IsOpen
    <3>4. QED
      BY <3>1, <3>2, <3>3 DEF VisitOK, MoveQueued, NotTakenFor, OldIsFenced
  <2>3. QED
    BY <1>w, <2>1, <2>2, OneVisitChanges
<1>3. ASSUME NEW c \in Cell, PinDefault(v, c) PROVE CanvasInv'
  <2>1. visit' = [visit EXCEPT ![v] = [x EXCEPT !.pin = c, !.timer = TRUE]]
    BY <1>f, <1>3 DEF PinDefault
  <2>2. VisitOK([x EXCEPT !.pin = c, !.timer = TRUE])
    BY <1>f, <1>3 DEF VisitOK, VisitState, MoveQueued, NotTakenFor, OldIsFenced, CellOr
  <2>3. QED
    BY <1>w, <2>1, <2>2, OneVisitChanges
<1>4. CASE TimerFires(v)
  <2> DEFINE y == [x EXCEPT !.timer = FALSE, !.flush = IF Pending(v) THEN "sent" ELSE "none",
                            !.move = x.dirty, !.placed = x.pin]
  <2>1. visit' = [visit EXCEPT ![v] = y]
    BY <1>f, <1>4 DEF TimerFires
  <2>2. VisitOK(y)
    BY <1>f DEF VisitOK, VisitState, MoveQueued, NotTakenFor, OldIsFenced
  <2>3. QED
    BY <1>w, <2>1, <2>2, OneVisitChanges
<1>5. CASE Answer(v)
  <2> DEFINE y == [x EXCEPT !.get = "answered", !.got = stored.cell, !.legacy = stored.legacy,
                            !.old = x.unsaved]
  <2>1. visit' = [visit EXCEPT ![v] = y]
    BY <1>f, <1>5 DEF Answer
  <2>2. VisitOK(y)
    BY <1>f, <1>5 DEF Answer, IsOpen, VisitOK, VisitState, MoveQueued, NotTakenFor, OldIsFenced
  <2>3. QED
    BY <1>w, <2>1, <2>2, OneVisitChanges
<1>6. CASE OnSuccess(v)
  <2> DEFINE migrate == Adopted(v) /\ x.legacy /\ ~x.migrated
             y == [x EXCEPT !.get = "idle", !.got = Nowhere, !.legacy = FALSE, !.old = FALSE,
                            !.migrated = @ \/ migrate, !.dirty = IF migrate THEN x.got ELSE @,
                            !.timer = @ \/ migrate]
  <2>1. visit' = [visit EXCEPT ![v] = y]
    BY <1>f, <1>6 DEF OnSuccess
  <2>2. migrate => ~x.unsaved
    BY <1>f DEF Adopted, VisitOK, MoveQueued
  <2>3. migrate \in BOOLEAN
    BY DEF Adopted
  <2> HIDE DEF migrate
  <2>4. VisitOK(y)
    <3>1. y \in VisitState
      <4>1. (IF migrate THEN x.got ELSE x.dirty) \in CellOr /\ Nowhere \in CellOr
        BY <1>f DEF VisitState, CellOr
      <4>2. (x.migrated \/ migrate) \in BOOLEAN /\ (x.timer \/ migrate) \in BOOLEAN
        BY <2>3
      <4>3. QED
        BY <1>f, <4>1, <4>2 DEF VisitState
    <3>2. /\ y.get = "idle" /\ y.unsaved = x.unsaved /\ y.flush = x.flush /\ y.move = x.move
          /\ x.unsaved => y.dirty = x.dirty
      BY <1>f, <2>2 DEF VisitState
    <3>3. QED
      BY <1>f, <3>1, <3>2 DEF VisitOK, MoveQueued, NotTakenFor, OldIsFenced
  <2>5. QED
    BY <1>w, <2>1, <2>4, OneVisitChanges
<1>7. CASE GuardExpires(v)
  <2>1. visit' = [visit EXCEPT ![v] = [x EXCEPT !.guard = FALSE]]
    BY <1>f, <1>7 DEF GuardExpires
  <2>2. VisitOK([x EXCEPT !.guard = FALSE])
    BY <1>f, <1>7 DEF GuardExpires, VisitOK, VisitState, MoveQueued, NotTakenFor, OldIsFenced
  <2>3. QED
    BY <1>w, <2>1, <2>2, OneVisitChanges
<1>8. QED
  BY <1>1, <1>2, <1>3, <1>4, <1>5, <1>6, <1>7

(* A PATCH is handled, acknowledged or lost: what was moved meanwhile stays *)
(* queued, and what is done is guarded.                                    *)
LEMMA PatchMoves ==
  ASSUME CanvasInv, NEW v \in Visit, Save(v) \/ Saved(v) \/ SaveFails(v)
  PROVE  CanvasInv'
<1> DEFINE x == visit[v]
<1>f. /\ x \in VisitState /\ VisitOK(x) /\ stored.cell \in CellOr /\ stored.legacy \in BOOLEAN
      /\ DOMAIN visit = Visit /\ DOMAIN early = Early /\ \A k \in Early : SaveOK(early[k])
  BY DEF CanvasInv, VisitOK
<1>c. ASSUME SendChained(v) PROVE DOMAIN early' = Early /\ \A k \in Early : SaveOK(early'[k])
  BY <1>f, <1>c DEF SendChained, SaveOK, SaveState
<1>1. CASE Save(v)
  <2> DEFINE y == [x EXCEPT !.flush = "saved", !.unsaved = x.unsaved /\ x.move # x.dirty]
  <2>1. visit' = [visit EXCEPT ![v] = y] /\ early' = early /\ stored' = Written(x.move, x.placed)
    BY <1>f, <1>1 DEF Save, StillUnsaved
  <2>2. stored'.cell \in CellOr /\ stored'.legacy \in BOOLEAN
    BY <1>f, <2>1, WrittenIsStored DEF VisitState
  <2>3. VisitOK(y)
    BY <1>f DEF VisitOK, VisitState, MoveQueued, NotTakenFor, OldIsFenced
  <2>4. QED
    BY <1>f, <2>1, <2>2, <2>3, OneVisitChanges
<1>2. CASE Saved(v)
  <2> DEFINE dirty == IF x.dirty = x.move THEN Nowhere ELSE x.dirty
             pin   == IF x.pin = x.placed THEN Nowhere ELSE x.pin
             y == [x EXCEPT !.flush = "none", !.move = Nowhere, !.placed = Nowhere,
                            !.guard = @ \/ (IsOpen(v) /\ x.move # Nowhere),
                            !.dirty = dirty, !.pin = pin,
                            !.timer = @ \/ dirty # Nowhere \/ pin # Nowhere]
  <2>1. visit' = [visit EXCEPT ![v] = y] /\ stored' = stored /\ SendChained(v)
    BY <1>f, <1>2 DEF Saved
  <2>2. VisitOK(y)
    <3>1. y \in VisitState
      <4>1. dirty \in CellOr /\ pin \in CellOr /\ Nowhere \in CellOr
        BY <1>f DEF VisitState, CellOr
      <4>2. /\ (x.guard \/ (IsOpen(v) /\ x.move # Nowhere)) \in BOOLEAN
            /\ (x.timer \/ dirty # Nowhere \/ pin # Nowhere) \in BOOLEAN
        OBVIOUS
      <4>3. QED
        BY <1>f, <4>1, <4>2 DEF VisitState
    <3>2. /\ y.flush = "none" /\ y.dirty = dirty /\ y.unsaved = x.unsaved /\ y.get = x.get /\ y.st = x.st
          /\ y.old = x.old /\ y.guard = (x.guard \/ (x.st = "open" /\ x.move # Nowhere))
      BY <1>f DEF VisitState, IsOpen
    <3>3. x.flush = "saved"
      BY <1>2 DEF Saved
    <3>4. QED
      BY <1>f, <3>1, <3>2, <3>3 DEF VisitOK, MoveQueued, NotTakenFor, OldIsFenced
  <2>3. QED
    BY <1>f, <1>c, <2>1, <2>2, OneVisitChanges
<1>3. CASE SaveFails(v)
  <2> DEFINE y == [x EXCEPT !.flush = "none", !.move = Nowhere, !.placed = Nowhere, !.timer = TRUE]
  <2>1. visit' = [visit EXCEPT ![v] = y] /\ stored' = stored /\ SendChained(v)
    BY <1>f, <1>3 DEF SaveFails
  <2>2. VisitOK(y)
    BY <1>f DEF VisitOK, VisitState, MoveQueued, NotTakenFor, OldIsFenced, CellOr
  <2>3. QED
    BY <1>f, <1>c, <2>1, <2>2, OneVisitChanges
<1>4. QED
  BY <1>1, <1>2, <1>3

(* flushNow leaves the refs of the page alone; a page that is gone reads   *)
(* no answer.                                                              *)
LEMMA FlushMoves ==
  ASSUME CanvasInv, NEW v \in Visit, Hide(v) \/ Unmount(v)
  PROVE  CanvasInv'
<1> DEFINE x == visit[v]
<1>f. /\ x \in VisitState /\ VisitOK(x) /\ stored.cell \in CellOr /\ stored.legacy \in BOOLEAN
      /\ DOMAIN visit = Visit /\ DOMAIN early = Early /\ \A k \in Early : SaveOK(early[k])
  BY DEF CanvasInv, VisitOK
<1>1. DOMAIN early' = Early /\ \A k \in Early : SaveOK(early'[k])
  BY <1>f DEF Hide, Unmount, FlushNow, SaveOK, SaveState, VisitState
<1>2. CASE Hide(v)
  <2>1. visit' = visit /\ stored' = stored
    BY <1>2 DEF Hide
  <2>2. QED
    BY <1>f, <1>1, <2>1 DEF CanvasInv, VisitOK, MoveQueued, NotTakenFor, OldIsFenced, SaveOK
<1>3. CASE Unmount(v)
  <2> DEFINE y == [x EXCEPT !.st = "gone", !.timer = FALSE, !.get = "idle", !.got = Nowhere, !.legacy = FALSE,
                            !.guard = FALSE, !.migrated = FALSE, !.old = FALSE]
  <2>1. visit' = [visit EXCEPT ![v] = y] /\ stored' = stored
    BY <1>f, <1>3 DEF Unmount
  <2>2. VisitOK(y)
    <3>1. y \in VisitState
      BY <1>f DEF VisitState, CellOr
    <3>2. y.get = "idle" /\ y.unsaved = x.unsaved /\ y.dirty = x.dirty /\ y.flush = x.flush /\ y.move = x.move
      BY <1>f DEF VisitState
    <3>3. QED
      BY <1>f, <3>1, <3>2 DEF VisitOK, MoveQueued, NotTakenFor, OldIsFenced
  <2>3. QED
    BY <1>f, <1>1, <2>1, <2>2, OneVisitChanges
<1>4. QED
  BY <1>2, <1>3

(* A save of flushNow is handled or lost, whether its page is there or not. *)
LEMMA EarlyMoves ==
  ASSUME CanvasInv, NEW k \in Early, EarlySave(k) \/ EarlyLost(k)
  PROVE  CanvasInv'
<1> DEFINE v == early[k].of
           x == visit[v]
<1>f. /\ v \in Visit /\ early[k] \in SaveState /\ DOMAIN early = Early /\ \A l \in Early : SaveOK(early[l])
  BY DEF EarlySave, EarlyLost, CanvasInv, SaveOK
<1>x. x \in VisitState /\ VisitOK(x) /\ DOMAIN visit = Visit
  BY <1>f DEF CanvasInv, VisitOK
<1>1. early' = [early EXCEPT ![k] = [NewSave EXCEPT !.st = "done"]]
  BY DEF EarlySave, EarlyLost
<1>2. DOMAIN early' = Early /\ \A l \in Early : SaveOK(early'[l])
  BY <1>f, <1>1 DEF SaveOK, SaveState, NewSave, CellOr
<1>3. CASE EarlyLost(k)
  <2>1. visit' = visit /\ stored' = stored
    BY <1>3 DEF EarlyLost
  <2>2. QED
    BY <1>2, <2>1 DEF CanvasInv, VisitOK, MoveQueued, NotTakenFor, OldIsFenced, SaveOK
<1>4. CASE EarlySave(k)
  <2> DEFINE y == [x EXCEPT !.unsaved = x.unsaved /\ early[k].move # x.dirty]
  <2>1. visit' = [visit EXCEPT ![v] = y] /\ stored' = Written(early[k].move, early[k].placed)
    BY <1>x, <1>4 DEF EarlySave, StillUnsaved
  <2>2. stored'.cell \in CellOr /\ stored'.legacy \in BOOLEAN
    BY <1>f, <2>1, WrittenIsStored DEF SaveState
  <2>3. VisitOK(y)
    BY <1>x DEF VisitOK, VisitState, MoveQueued, NotTakenFor, OldIsFenced
  <2>4. QED
    BY <1>f, <1>2, <2>1, <2>2, <2>3, OneVisitChanges
<1>5. QED
  BY <1>3, <1>4

(* The inductive step of OldAnswersMoveNothing.                            *)
LEMMA CanvasStep == ASSUME CanvasInv, [CanvasNext]_canvasVars PROVE CanvasInv'
<1>1. ASSUME NEW v \in Visit, PollFails(v) PROVE CanvasInv'
  BY <1>1 DEF PollFails, CanvasInv, VisitOK, MoveQueued, NotTakenFor, OldIsFenced, SaveOK
<1>2. ASSUME NEW c \in Cell, Elsewhere(c) PROVE CanvasInv'
  BY <1>2 DEF Elsewhere, CanvasInv, VisitOK, MoveQueued, NotTakenFor, OldIsFenced, SaveOK, CellOr
<1>3. CASE UNCHANGED canvasVars
  BY <1>3 DEF canvasVars, CanvasInv, VisitOK, MoveQueued, NotTakenFor, OldIsFenced, SaveOK
<1>4. QED
  BY <1>1, <1>2, <1>3, VisitMoves, PatchMoves, FlushMoves, EarlyMoves DEF CanvasNext

(* An answer leaves a visit only when the page takes it or goes; taken     *)
(* when it is old, it moves nothing.                                       *)
LEMMA OldAnswerStep ==
  ASSUME CanvasInv, CanvasNext, NEW v \in Visit,
         visit[v].get = "answered", visit[v].old, visit'[v].get = "idle"
  PROVE  shown' = shown
<1>f. DOMAIN visit = Visit /\ (visit[v].dirty # Nowhere \/ visit[v].guard)
  BY DEF CanvasInv, VisitOK, OldIsFenced
<1>t. \A u \in Visit : visit[u] \in VisitState
  BY DEF CanvasInv, VisitOK
<1>1. ASSUME NEW u \in Visit, OnSuccess(u) PROVE shown' = shown
  <2>1. CASE u = v
    BY <1>f, <1>1, <2>1 DEF OnSuccess, Adopted
  <2>2. CASE u # v
    BY <1>f, <1>1, <2>2 DEF OnSuccess
  <2>3. QED
    BY <2>1, <2>2
<1>2. ASSUME NEW u \in Visit, NEW c \in Cell, Drop(u, c) \/ PinDefault(u, c) PROVE FALSE
  BY <1>f, <1>t, <1>2 DEF Drop, PinDefault, VisitState
<1>3. ASSUME NEW u \in Visit,
             \/ Mount(u) \/ TimerFires(u) \/ Save(u) \/ Saved(u) \/ SaveFails(u) \/ Hide(u) \/ Unmount(u)
             \/ Answer(u) \/ PollFails(u) \/ GuardExpires(u)
      PROVE  shown' = shown
  BY <1>3 DEF Mount, TimerFires, Save, Saved, SaveFails, Hide, Unmount, Answer, PollFails, GuardExpires
<1>4. ASSUME NEW k \in Early, EarlySave(k) \/ EarlyLost(k) PROVE shown' = shown
  BY <1>4 DEF EarlySave, EarlyLost
<1>5. ASSUME NEW c \in Cell, Elsewhere(c) PROVE shown' = shown
  BY <1>5 DEF Elsewhere
<1>6. QED
  BY <1>1, <1>2, <1>3, <1>4, <1>5 DEF CanvasNext

(* "Locally-dirty or just-saved nodes win over anything the server          *)
(* reports", for any number of cells, visits, moves and failures: between   *)
(* the drop and the answer the queue, the PATCH in flight and the guard     *)
(* hand the move on without a gap.                                          *)
THEOREM OldAnswersMoveNothing == CanvasSpec => NoSnapBack
<1>1. CanvasInv /\ [CanvasNext]_canvasVars => CanvasInv'
  BY CanvasStep
<1>2. CanvasInv /\ [CanvasNext]_canvasVars =>
        [\A v \in Visit :
           visit[v].get = "answered" /\ visit[v].old /\ visit'[v].get = "idle" => shown' = shown]_canvasVars
  BY OldAnswerStep
<1>3. QED
  BY <1>1, <1>2, CanvasBegins, PTL DEF CanvasSpec, NoSnapBack

-----------------------------------------------------------------------------
DraftState  == [status : {"none", "draft", "running"}, owned : BOOLEAN, pinned : BOOLEAN,
                rows : SUBSET FileRow, skip : BOOLEAN]
WizardState == [pc : {"idle", "load", "read", "put", "list", "drop", "drop run", "remove", "done"},
                ask : {"none", "upload", "delete", "preflight", "start"}, run : Draft \cup {NoDraft},
                holds : SUBSET Draft, drops : SUBSET Draft, read : [FileRow -> RowStatuses],
                left : SUBSET FileRow, rows : SUBSET FileRow, skip : BOOLEAN]
DraftShape ==
  /\ draft \in [Draft -> DraftState] /\ sheet \in [Draft -> [FileRow -> RowStatuses]]
  /\ wz \in [Wizard -> WizardState]
  /\ seen \in [met : SUBSET Draft, created : SUBSET Draft, starts : [Draft -> Nat],
               lost : SUBSET ((Draft \cup {NoDraft}) \X FileRow)]

(* What makes StartedIsWhole inductive: requests that meet on a run are    *)
(* known to; a request holds what it works on; a run is created once; a    *)
(* row of a draft that was never put is lost or is yet to be put by its    *)
(* upload; and on a run that no two requests ever held, a late request     *)
(* only loads it, and an early one finds its draft as it was loaded, each  *)
(* row put as planned or still to be put.                                  *)
Untouched(d) == d \notin seen.met
Uploading(d, r) == \E u \in Wizard : wz[u].pc = "put" /\ wz[u].ask = "upload" /\ wz[u].run = d /\ r \in wz[u].left
HoldersMet ==
  \A v, w \in Wizard : v # w => wz[v].holds \cap wz[w].holds \subseteq seen.met
HeldOK(x, created) ==
  /\ x.pc \in {"load", "read", "put"} => x.run \in created /\ x.holds = {x.run}
  /\ x.pc \in {"load", "read"} => x.ask \in {"preflight", "start"}
  /\ x.pc = "put" => x.ask \in {"upload", "preflight", "start"}
  /\ x.pc \in {"drop", "drop run"} => x.drops \subseteq x.holds /\ x.ask = "upload"
  /\ x.pc = "drop run" => x.drops # {}
  /\ x.pc = "remove" => x.holds = Draft
  /\ x.pc = "put" /\ x.ask = "preflight" => \A r \in x.left : x.read[r] # "none"
HeldRight == \A w \in Wizard : HeldOK(wz[w], seen.created)
BornOnce ==
  \A d \in Draft :
    /\ draft[d].status # "none" \/ seen.starts[d] # 0 => d \in seen.created
    /\ draft[d].status = "draft" => seen.starts[d] = 0
RowsPut ==
  \A d \in Draft : draft[d].status = "draft" =>
    \A r \in FileRow : sheet[d][r] = "none" => <<d, r>> \in seen.lost \/ Uploading(d, r)
LateHolders ==
  \A d \in Draft, w \in Wizard :
    draft[d].status = "running" /\ Untouched(d) /\ d \in wz[w].holds => wz[w].pc = "load"
AloneOnDraft ==
  \A w \in Wizard :
    wz[w].pc \in {"load", "read", "put"} /\ wz[w].ask # "upload" /\ Untouched(wz[w].run) =>
      /\ there
      /\ wz[w].pc # "load" => Checkable(wz[w].run)
      /\ wz[w].pc = "put" /\ wz[w].ask = "start" =>
           \A r \in FileRow : \/ r \in wz[w].left \/ <<wz[w].run, r>> \in seen.lost
                              \/ sheet[wz[w].run][r] = Planned(wz[w].rows, wz[w].skip, r)
DraftInv ==
  /\ DraftShape /\ HoldersMet /\ HeldRight /\ BornOnce /\ RowsPut /\ LateHolders /\ AloneOnDraft
  /\ StartedIsWhole

(* One request takes a step; what it holds meets what the others hold.     *)
LEMMA HoldersKeep ==
  ASSUME DraftInv, NEW w \in Wizard, NEW new \in WizardState, Wz(w, new),
         seen.met \subseteq seen'.met,
         new.holds \subseteq wz[w].holds \/ seen'.met = Met(w, new.holds)
  PROVE  HoldersMet'
<1>1. wz'[w] = new /\ \A v \in Wizard : v # w => wz'[v] = wz[v]
  BY DEF Wz, DraftInv, DraftShape
<1>2. SUFFICES ASSUME NEW u \in Wizard, NEW v \in Wizard, u # v, NEW d,
                      d \in wz'[u].holds, d \in wz'[v].holds
               PROVE  d \in seen'.met
  BY DEF HoldersMet
<1>3. CASE u # w /\ v # w
  BY <1>1, <1>2, <1>3 DEF DraftInv, HoldersMet
<1>4. CASE new.holds \subseteq wz[w].holds
  BY <1>1, <1>2, <1>4 DEF DraftInv, HoldersMet
<1>5. CASE seen'.met = Met(w, new.holds) /\ (u = w \/ v = w)
  BY <1>1, <1>2, <1>5 DEF Met
<1>6. QED
  BY <1>3, <1>4, <1>5

(* Of two requests that hold a run no two ever held, one is the other.     *)
LEMMA OneHolder ==
  ASSUME DraftInv, NEW d, Untouched(d), NEW v \in Wizard, NEW w \in Wizard,
         d \in wz[v].holds, d \in wz[w].holds
  PROVE  v = w
  BY DEF DraftInv, HoldersMet, Untouched

(* A request that reads the tables only, or gives up, keeps DraftInv when  *)
(* what it goes on with is as it should be.                                *)
LEMMA ReaderKeeps ==
  ASSUME DraftInv, NEW w \in Wizard, NEW new \in WizardState, Wz(w, new),
         UNCHANGED <<there, draft, sheet>>, DraftShape',
         seen'.created = seen.created, seen'.starts = seen.starts, seen.lost \subseteq seen'.lost,
         seen.met \subseteq seen'.met,
         new.holds \subseteq wz[w].holds \/ seen'.met = Met(w, new.holds),
         HeldOK(new, seen.created),
         \A d \in Draft : draft[d].status = "running" /\ d \notin seen'.met /\ d \in new.holds => new.pc = "load",
         \A r \in wz[w].left : wz[w].pc = "put" /\ wz[w].ask = "upload" => <<wz[w].run, r>> \in seen'.lost,
         new.pc \in {"load", "read", "put"} /\ new.ask # "upload" /\ new.run \notin seen'.met =>
           /\ there
           /\ new.pc # "load" => Checkable(new.run)
           /\ new.pc = "put" /\ new.ask = "start" =>
                \A r \in FileRow : \/ r \in new.left \/ <<new.run, r>> \in seen'.lost
                                   \/ sheet[new.run][r] = Planned(new.rows, new.skip, r)
  PROVE  DraftInv'
<1>1. wz'[w] = new /\ \A v \in Wizard : v # w => wz'[v] = wz[v]
  BY DEF Wz, DraftInv, DraftShape
<1>2. HoldersMet' /\ HeldRight'
  BY <1>1, HoldersKeep DEF DraftInv, HeldRight
<1>3. BornOnce' /\ StartedIsWhole'
  BY DEF DraftInv, BornOnce, StartedIsWhole
<1>4. RowsPut'
  <2>1. SUFFICES ASSUME NEW d \in Draft, NEW r \in FileRow, draft[d].status = "draft", sheet[d][r] = "none",
                        <<d, r>> \notin seen'.lost
                 PROVE  Uploading(d, r)'
    BY DEF RowsPut
  <2>2. PICK u \in Wizard : wz[u].pc = "put" /\ wz[u].ask = "upload" /\ wz[u].run = d /\ r \in wz[u].left
    BY <2>1 DEF DraftInv, RowsPut, Uploading
  <2>3. u # w
    BY <2>1, <2>2
  <2>4. QED
    BY <1>1, <2>2, <2>3 DEF Uploading
<1>5. LateHolders'
  BY <1>1 DEF DraftInv, LateHolders, Untouched
<1>6. AloneOnDraft'
  BY <1>1 DEF DraftInv, AloneOnDraft, Untouched, Checkable
<1>7. QED
  BY <1>2, <1>3, <1>4, <1>5, <1>6 DEF DraftInv

(* What a request becomes is a request.                                    *)
LEMMA WizardsAre ==
  ASSUME DraftInv, NEW w \in Wizard
  PROVE  /\ wz[w] \in WizardState /\ Answered(w) \in WizardState
         /\ Answered(w).pc = "done" /\ Answered(w).holds = {}
<1>1. Blank \in [FileRow -> RowStatuses]
  BY DEF Blank, RowStatuses
<1>2. QED
  BY <1>1 DEF DraftInv, DraftShape, Answered, Asking, WizardState

(* Before any request.                                                     *)
LEMMA DraftsBegin == DraftInit => DraftInv
<1> SUFFICES ASSUME DraftInit PROVE DraftInv
  OBVIOUS
<1>1. Blank \in [FileRow -> RowStatuses] /\ NoRun \in DraftState
  BY DEF Blank, RowStatuses, NoRun, DraftState
<1>2. Asking \in WizardState
  BY <1>1 DEF Asking, WizardState
<1>3. DraftShape
  <2>1. draft \in [Draft -> DraftState]
    BY DEF DraftInit, DraftState, NoRun
  <2>2. sheet \in [Draft -> [FileRow -> RowStatuses]]
    BY <1>1 DEF DraftInit, RowStatuses
  <2>3. QED
    BY <1>2, <2>1, <2>2, DraftAssumption DEF DraftShape, DraftInit
<1>4. \A w \in Wizard : wz[w].pc = "idle" /\ wz[w].holds = {}
  BY DEF DraftInit, Asking
<1>5. HoldersMet /\ HeldRight /\ LateHolders /\ AloneOnDraft
  <2>1. HoldersMet /\ HeldRight
    BY <1>4 DEF HoldersMet, HeldRight, HeldOK
  <2>2. LateHolders /\ AloneOnDraft
    BY <1>4 DEF LateHolders, AloneOnDraft
  <2>3. QED
    BY <2>1, <2>2
<1>6. BornOnce /\ RowsPut /\ StartedIsWhole
  BY DEF DraftInit, NoRun, BornOnce, RowsPut, StartedIsWhole
<1>7. QED
  BY <1>3, <1>5, <1>6 DEF DraftInv
(* A request arrives: what it is to work on is there, with its processor.  *)
LEMMA ArrivesKeeps == ASSUME DraftInv, NEW w \in Wizard, Arrives(w) PROVE DraftInv'
<1>f. /\ wz[w] \in WizardState /\ wz[w].pc = "idle" /\ there
      /\ UNCHANGED <<there, draft, sheet>> /\ DOMAIN wz = Wizard /\ DraftShape
  BY WizardsAre DEF Arrives, In, DraftInv, DraftShape
<1>1. ASSUME NEW ask \in {"upload", "delete"}, Wz(w, [To(w, "list") EXCEPT !.ask = ask]), seen' = seen
      PROVE  DraftInv'
  <2> DEFINE new == [To(w, "list") EXCEPT !.ask = ask]
  <2>1. /\ new \in WizardState /\ new.pc = "list" /\ new.holds = wz[w].holds
    BY <1>f DEF To, WizardState
  <2>2. DraftShape'
    BY <1>f, <1>1, <2>1 DEF DraftShape, Wz
  <2> HIDE DEF new
  <2>4. HeldOK(new, seen.created)
    BY <2>1 DEF HeldOK
  <2>5. \A d \in Draft : draft[d].status = "running" /\ d \notin seen'.met /\ d \in new.holds => new.pc = "load"
    BY <1>1, <1>f, <2>1 DEF DraftInv, LateHolders, Untouched
  <2>6. QED
    BY <1>f, <1>1, <2>1, <2>2, <2>4, <2>5, ReaderKeeps DEF new
<1>2. ASSUME NEW d \in seen.created, NEW ask \in {"preflight", "start"}, NEW rows \in SUBSET FileRow,
             NEW skip \in BOOLEAN, NEW new,
             new = [To(w, "load") EXCEPT !.ask = ask, !.run = d, !.holds = {d}, !.rows = rows, !.skip = skip],
             Wz(w, new), seen' = [seen EXCEPT !.met = Met(w, {d})]
      PROVE  DraftInv'
  <2>0. d \in Draft
    BY <1>f DEF DraftShape
  <2>1. /\ new \in WizardState /\ new.pc = "load" /\ new.holds = {d} /\ new.run = d /\ new.ask = ask
    BY <1>f, <1>2, <2>0 DEF To, WizardState
  <2>2. /\ seen'.created = seen.created /\ seen'.starts = seen.starts /\ seen'.lost = seen.lost
        /\ seen'.met = Met(w, {d}) /\ seen.met \subseteq seen'.met
    BY <1>f, <1>2 DEF DraftShape, Met
  <2>3. DraftShape'
    BY <1>f, <1>2, <2>0, <2>1 DEF DraftShape, Wz, Met
  <2>5. HeldOK(new, seen.created)
    BY <1>2, <2>1 DEF HeldOK
  <2>6. QED
    BY <1>f, <1>2, <2>1, <2>2, <2>3, <2>5, ReaderKeeps
<1>3. CASE /\ \E ask \in {"upload", "delete"} : Wz(w, [To(w, "list") EXCEPT !.ask = ask])
           /\ UNCHANGED seen
  BY <1>1, <1>3
<1>4. ASSUME NEW d \in seen.created, Wz(w, [To(w, "load") EXCEPT !.ask = "preflight", !.run = d, !.holds = {d}]),
             seen' = [seen EXCEPT !.met = Met(w, {d})]
      PROVE  DraftInv'
  <2> DEFINE new == [To(w, "load") EXCEPT !.ask = "preflight", !.run = d, !.holds = {d}]
  <2>1. new = [To(w, "load") EXCEPT !.ask = "preflight", !.run = d, !.holds = {d},
                                    !.rows = wz[w].rows, !.skip = wz[w].skip]
    BY <1>f DEF To, WizardState
  <2>2. wz[w].rows \in SUBSET FileRow /\ wz[w].skip \in BOOLEAN
    BY <1>f DEF WizardState
  <2> HIDE DEF new
  <2>3. QED
    BY <1>2, <1>4, <2>1, <2>2 DEF new
<1>5. QED
  BY <1>2, <1>3, <1>4 DEF Arrives

(* A run is loaded and checked.                                            *)
LEMMA LoadKeeps == ASSUME DraftInv, NEW w \in Wizard, LoadRun(w) PROVE DraftInv'
<1> DEFINE d == wz[w].run
<1>f. /\ wz[w] \in WizardState /\ wz[w].pc = "load" /\ d \in Draft /\ wz[w].holds = {d}
      /\ UNCHANGED <<there, draft, sheet, seen>> /\ DOMAIN wz = Wizard /\ DraftShape
      /\ wz[w].ask \in {"preflight", "start"} /\ d \in seen.created
  BY WizardsAre DEF LoadRun, In, DraftInv, DraftShape, HeldRight, HeldOK
<1>1. CASE Wz(w, To(w, "read")) /\ Checkable(d)
  <2> DEFINE new == To(w, "read")
  <2>1. /\ new \in WizardState /\ new.pc = "read" /\ new.holds = wz[w].holds /\ new.run = d
        /\ new.ask = wz[w].ask
    BY <1>f DEF To, WizardState
  <2>2. DraftShape'
    BY <1>f, <1>1, <2>1 DEF DraftShape, Wz
  <2> HIDE DEF new
  <2>4. HeldOK(new, seen.created)
    BY <1>f, <2>1 DEF HeldOK
  <2>5. ASSUME NEW e \in Draft, draft[e].status = "running", e \notin seen'.met, e \in new.holds
        PROVE  new.pc = "load"
    BY <1>f, <1>1, <2>1, <2>5 DEF DraftInv, LateHolders, Untouched, Checkable
  <2>6. new.run \notin seen'.met => there
    BY <1>f, <2>1 DEF DraftInv, AloneOnDraft, Untouched
  <2>7. QED
    BY <1>f, <1>1, <2>1, <2>2, <2>4, <2>5, <2>6, ReaderKeeps DEF new
<1>2. CASE Wz(w, Answered(w))
  <2>1. DraftShape'
    BY <1>f, <1>2, WizardsAre DEF DraftShape, Wz
  <2>3. HeldOK(Answered(w), seen.created)
    BY WizardsAre DEF HeldOK
  <2>4. QED
    BY <1>f, <1>2, <2>1, <2>3, WizardsAre, ReaderKeeps
<1>3. QED
  BY <1>1, <1>2 DEF LoadRun, Startable

(* getRowsByRun: what is read is what is put back.                         *)
LEMMA SheetReadKeeps == ASSUME DraftInv, NEW w \in Wizard, ReadSheet(w) PROVE DraftInv'
<1> DEFINE d == wz[w].run
           new == [To(w, "put") EXCEPT !.read = sheet[d], !.left = {r \in FileRow : sheet[d][r] # "none"}]
<1>f. /\ wz[w] \in WizardState /\ wz[w].pc = "read" /\ d \in Draft /\ wz[w].holds = {d}
      /\ UNCHANGED <<there, draft, sheet, seen>> /\ DOMAIN wz = Wizard /\ DraftShape
      /\ wz[w].ask \in {"preflight", "start"} /\ d \in seen.created
      /\ sheet[d] \in [FileRow -> RowStatuses]
  BY WizardsAre DEF ReadSheet, In, DraftInv, DraftShape, HeldRight, HeldOK
<1>1. Wz(w, new)
  BY DEF ReadSheet
<1>2. /\ new \in WizardState /\ new.pc = "put" /\ new.holds = {d} /\ new.run = d
      /\ new.ask = wz[w].ask /\ new.read = sheet[d] /\ new.left = {r \in FileRow : sheet[d][r] # "none"}
  BY <1>f DEF To, WizardState
<1>3. DraftShape'
  BY <1>f, <1>1, <1>2 DEF DraftShape, Wz
<1> HIDE DEF new
<1>4. HeldOK(new, seen.created)
  BY <1>f, <1>2 DEF HeldOK
<1>5. ASSUME d \notin seen.met PROVE there /\ Checkable(d)
  BY <1>f, <1>5 DEF DraftInv, AloneOnDraft, Untouched
<1>6. ASSUME NEW e \in Draft, draft[e].status = "running", e \notin seen'.met, e \in new.holds
      PROVE  new.pc = "load"
  BY <1>f, <1>2, <1>5, <1>6 DEF Checkable
<1>7. ASSUME d \notin seen.met, NEW r \in FileRow, sheet[d][r] = "none" PROVE <<d, r>> \in seen.lost
  <2>1. draft[d].status = "draft"
    BY <1>5, <1>7 DEF Checkable
  <2>2. <<d, r>> \in seen.lost \/ Uploading(d, r)
    BY <1>f, <1>7, <2>1 DEF DraftInv, RowsPut
  <2>3. ASSUME Uploading(d, r) PROVE FALSE
    <3>1. PICK u \in Wizard : wz[u].pc = "put" /\ wz[u].ask = "upload" /\ wz[u].run = d
      BY <2>3 DEF Uploading
    <3>2. d \in wz[u].holds /\ u # w
      BY <1>f, <3>1 DEF DraftInv, HeldRight, HeldOK
    <3>3. QED
      BY <1>f, <1>7, <3>2, OneHolder DEF Untouched
  <2>4. QED
    BY <2>2, <2>3
<1>8. new.run \notin seen'.met => \A r \in FileRow : r \in new.left \/ <<new.run, r>> \in seen'.lost
  BY <1>f, <1>2, <1>7
<1>9. QED
  BY <1>f, <1>1, <1>2, <1>3, <1>4, <1>5, <1>6, <1>8, ReaderKeeps

(* The runs are listed, the processor is removed.                          *)
LEMMA ListKeeps == ASSUME DraftInv, NEW w \in Wizard, ListRuns(w) PROVE DraftInv'
<1>f. /\ wz[w] \in WizardState /\ wz[w].pc = "list"
      /\ UNCHANGED <<there, draft, sheet>> /\ DOMAIN wz = Wizard /\ DraftShape
  BY WizardsAre DEF ListRuns, In, DraftInv, DraftShape
<1>1. CASE /\ wz[w].ask = "upload"
           /\ Wz(w, [To(w, "drop") EXCEPT !.drops = OwnedIn("draft"), !.holds = OwnedIn("draft")])
           /\ seen' = [seen EXCEPT !.met = Met(w, OwnedIn("draft"))]
  <2> DEFINE new == [To(w, "drop") EXCEPT !.drops = OwnedIn("draft"), !.holds = OwnedIn("draft")]
  <2>0. OwnedIn("draft") \in SUBSET Draft
    BY DEF OwnedIn
  <2>1. /\ new \in WizardState /\ new.pc = "drop" /\ new.holds = OwnedIn("draft")
        /\ new.drops = OwnedIn("draft") /\ new.ask = "upload"
    BY <1>f, <1>1, <2>0 DEF To, WizardState
  <2>2. /\ seen'.created = seen.created /\ seen'.starts = seen.starts /\ seen'.lost = seen.lost
        /\ seen'.met = Met(w, OwnedIn("draft")) /\ seen.met \subseteq seen'.met
    BY <1>f, <1>1 DEF DraftShape, Met
  <2>3. DraftShape'
    BY <1>f, <1>1, <2>0, <2>1 DEF DraftShape, Wz, Met
  <2> HIDE DEF new
  <2>4. HeldOK(new, seen.created)
    BY <2>1 DEF HeldOK
  <2>5. ASSUME NEW d \in Draft, draft[d].status = "running", d \in new.holds PROVE FALSE
    BY <2>1, <2>5 DEF OwnedIn
  <2>6. QED
    BY <1>f, <1>1, <2>1, <2>2, <2>3, <2>4, <2>5, ReaderKeeps DEF new
<1>2. CASE OwnedIn("running") # {} /\ Wz(w, Answered(w)) /\ UNCHANGED seen
  <2>1. DraftShape'
    BY <1>f, <1>2, WizardsAre DEF DraftShape, Wz
  <2>2. HeldOK(Answered(w), seen.created)
    BY WizardsAre DEF HeldOK
  <2>3. QED
    BY <1>f, <1>2, <2>1, <2>2, WizardsAre, ReaderKeeps
<1>3. CASE /\ OwnedIn("running") = {} /\ Wz(w, [To(w, "remove") EXCEPT !.holds = Draft])
           /\ seen' = [seen EXCEPT !.met = Met(w, Draft)]
  <2> DEFINE new == [To(w, "remove") EXCEPT !.holds = Draft]
  <2>1. new \in WizardState /\ new.pc = "remove" /\ new.holds = Draft
    BY <1>f DEF To, WizardState
  <2>2. /\ seen'.created = seen.created /\ seen'.starts = seen.starts /\ seen'.lost = seen.lost
        /\ seen'.met = Met(w, Draft) /\ seen.met \subseteq seen'.met
    BY <1>f, <1>3 DEF DraftShape, Met
  <2>3. DraftShape'
    BY <1>f, <1>3, <2>1 DEF DraftShape, Wz, Met
  <2> HIDE DEF new
  <2>4. HeldOK(new, seen.created)
    BY <2>1 DEF HeldOK
  <2>5. ASSUME NEW d \in Draft, draft[d].status = "running", d \notin seen'.met PROVE FALSE
    BY <1>3, <2>2, <2>5 DEF DraftInv, StartedIsWhole, OwnedIn
  <2>6. QED
    BY <1>f, <1>3, <2>1, <2>2, <2>3, <2>4, <2>5, ReaderKeeps DEF new
<1>4. QED
  BY <1>1, <1>2, <1>3 DEF ListRuns

(* The processor goes: no request relies on it but those a removal met.    *)
LEMMA RemoveKeeps == ASSUME DraftInv, NEW w \in Wizard, RemoveProcessor(w) PROVE DraftInv'
<1>f. /\ wz[w] \in WizardState /\ wz[w].pc = "remove" /\ wz[w].holds = Draft
      /\ UNCHANGED <<draft, sheet, seen>> /\ Wz(w, Answered(w)) /\ DOMAIN wz = Wizard /\ DraftShape
  BY WizardsAre DEF RemoveProcessor, In, DraftInv, DraftShape, HeldRight, HeldOK
<1>1. wz'[w] = Answered(w) /\ \A v \in Wizard : v # w => wz'[v] = wz[v]
  BY <1>f DEF Wz
<1>2. DraftShape'
  BY <1>f, WizardsAre DEF DraftShape, Wz
<1>3. HoldersMet'
  BY <1>f, WizardsAre, HoldersKeep
<1>4. HeldRight'
  <2>1. HeldOK(Answered(w), seen.created)
    BY WizardsAre DEF HeldOK
  <2>2. QED
    BY <1>f, <1>1, <2>1 DEF DraftInv, HeldRight
<1>5. BornOnce'
  BY <1>f DEF DraftInv, BornOnce
<1>6. RowsPut'
  BY <1>f, <1>1 DEF DraftInv, RowsPut, Uploading
<1>7. LateHolders'
  BY <1>f, <1>1, WizardsAre DEF DraftInv, LateHolders, Untouched
<1>8. AloneOnDraft'
  <2>1. ASSUME NEW v \in Wizard, wz'[v].pc \in {"load", "read", "put"}, wz'[v].run \notin seen.met PROVE FALSE
    <3>1. v # w /\ wz'[v] = wz[v]
      BY <1>1, <2>1, WizardsAre
    <3>2. wz[v].run \in wz[v].holds /\ wz[v].run \in Draft
      BY <2>1, <3>1, <1>f DEF DraftInv, HeldRight, HeldOK, DraftShape
    <3>3. QED
      BY <1>f, <2>1, <3>1, <3>2, OneHolder DEF Untouched
  <2>2. QED
    BY <1>f, <2>1 DEF AloneOnDraft, Untouched
<1>9. StartedIsWhole'
  <2>1. ASSUME NEW d \in Draft, draft[d].status = "running", d \notin seen.met PROVE FALSE
    BY <1>f, <2>1 DEF DraftInv, LateHolders, Untouched
  <2>2. QED
    BY <1>f, <2>1 DEF StartedIsWhole
<1>10. QED
  BY <1>2, <1>3, <1>4, <1>5, <1>6, <1>7, <1>8, <1>9 DEF DraftInv

(* A request fails: the rows an upload had yet to put are lost.            *)
LEMMA FailKeeps == ASSUME DraftInv, NEW w \in Wizard, WizardFails(w) PROVE DraftInv'
<1>f. /\ wz[w] \in WizardState /\ UNCHANGED <<there, draft, sheet>> /\ Wz(w, Answered(w))
      /\ DOMAIN wz = Wizard /\ DraftShape
      /\ seen' = [seen EXCEPT !.lost = IF wz[w].ask = "upload" THEN @ \cup ({wz[w].run} \X wz[w].left) ELSE @]
  BY WizardsAre DEF WizardFails, DraftInv, DraftShape
<1>1. /\ seen'.created = seen.created /\ seen'.starts = seen.starts /\ seen'.met = seen.met
      /\ seen.lost \subseteq seen'.lost
      /\ wz[w].ask = "upload" => \A r \in wz[w].left : <<wz[w].run, r>> \in seen'.lost
  BY <1>f DEF DraftShape
<1>2. DraftShape'
  <2>1. {wz[w].run} \X wz[w].left \subseteq (Draft \cup {NoDraft}) \X FileRow
    BY <1>f DEF WizardState
  <2>2. wz' \in [Wizard -> WizardState]
    BY <1>f, WizardsAre DEF DraftShape, Wz
  <2>3. QED
    BY <1>f, <2>1, <2>2 DEF DraftShape
<1>3. HeldOK(Answered(w), seen.created)
  BY WizardsAre DEF HeldOK
<1>4. QED
  BY <1>f, <1>1, <1>2, <1>3, WizardsAre, ReaderKeeps

(* A row is put, or passed over.                                           *)
LEMMA PutKeeps == ASSUME DraftInv, NEW w \in Wizard, PutRowOf(w) PROVE DraftInv'
<1> DEFINE d == wz[w].run
           r == Min(wz[w].left)
           new == [wz[w] EXCEPT !.left = @ \ {r}]
<1>f. /\ wz[w] \in WizardState /\ wz[w].pc = "put" /\ d \in Draft /\ wz[w].holds = {d}
      /\ d \in seen.created /\ UNCHANGED <<there, draft>> /\ DOMAIN wz = Wizard /\ DraftShape
      /\ Wz(w, new) /\ HeldOK(wz[w], seen.created)
  BY WizardsAre DEF PutRowOf, In, DraftInv, DraftShape, HeldRight, HeldOK
<1>r. r \in wz[w].left /\ r \in FileRow
  <2>1. wz[w].left \in SUBSET Nat /\ wz[w].left # {} /\ wz[w].left \subseteq FileRow
    BY <1>f, DraftAssumption DEF PutRowOf, WizardState
  <2>2. QED
    BY <2>1, MinIsLeast
<1>1. /\ new \in WizardState /\ new.pc = "put" /\ new.holds = {d} /\ new.run = d /\ new.ask = wz[w].ask
      /\ new.read = wz[w].read /\ new.rows = wz[w].rows /\ new.skip = wz[w].skip
      /\ new.left = wz[w].left \ {r}
  BY <1>f DEF WizardState
<1>2. wz'[w] = new /\ \A v \in Wizard : v # w => wz'[v] = wz[v]
  BY <1>f DEF Wz
<1>3. PutAs(w, r) \in RowStatuses \ {"none"}
  BY <1>f, <1>r DEF PutAs, Planned, RowStatuses, WizardState, HeldOK
<1>4. wz[w].ask \notin {"upload", "preflight"} => PutAs(w, r) = Planned(wz[w].rows, wz[w].skip, r)
  BY DEF PutAs
<1>5. \/ /\ sheet' = [sheet EXCEPT ![d][r] = PutAs(w, r)]
         /\ seen' = [seen EXCEPT !.lost = IF wz[w].ask = "preflight" THEN @ ELSE @ \ {<<d, r>>}]
      \/ /\ sheet' = sheet
         /\ seen' = [seen EXCEPT !.lost = IF wz[w].ask = "preflight" THEN @ ELSE @ \cup {<<d, r>>}]
  BY DEF PutRowOf
<1> HIDE DEF new, r
<1>6. /\ seen'.created = seen.created /\ seen'.starts = seen.starts /\ seen'.met = seen.met
      /\ \A e, q : <<e, q>> # <<d, r>> => (<<e, q>> \in seen'.lost <=> <<e, q>> \in seen.lost)
      /\ \A e \in Draft, q \in FileRow : <<e, q>> # <<d, r>> => sheet'[e][q] = sheet[e][q]
  BY <1>f, <1>r, <1>5 DEF DraftShape
<1>7. \/ sheet'[d][r] = PutAs(w, r)
      \/ /\ sheet'[d][r] = sheet[d][r]
         /\ IF wz[w].ask = "preflight" THEN seen'.lost = seen.lost ELSE <<d, r>> \in seen'.lost
  BY <1>f, <1>r, <1>5 DEF DraftShape
<1>8. DraftShape'
  <2>1. seen'.lost \in SUBSET ((Draft \cup {NoDraft}) \X FileRow)
    BY <1>f, <1>r, <1>5 DEF DraftShape
  <2>2. sheet' \in [Draft -> [FileRow -> RowStatuses]]
    <3>1. sheet[d] \in [FileRow -> RowStatuses] /\ sheet \in [Draft -> [FileRow -> RowStatuses]]
      BY <1>f DEF DraftShape
    <3>2. [sheet[d] EXCEPT ![r] = PutAs(w, r)] \in [FileRow -> RowStatuses]
      BY <1>3, <3>1
    <3>3. sheet' = sheet \/ sheet' = [sheet EXCEPT ![d] = [sheet[d] EXCEPT ![r] = PutAs(w, r)]]
      BY <1>f, <1>5, <3>1
    <3>4. QED
      BY <3>1, <3>2, <3>3
  <2>3. wz' \in [Wizard -> WizardState]
    BY <1>f, <1>1 DEF DraftShape, Wz
  <2>4. seen' = [seen EXCEPT !.lost = seen'.lost]
    BY <1>f, <1>5 DEF DraftShape
  <2>5. QED
    BY <1>f, <2>1, <2>2, <2>3, <2>4 DEF DraftShape
<1>9. HoldersMet'
  BY <1>f, <1>1, <1>6, HoldersKeep
<1>10. HeldRight'
  <2>1. HeldOK(new, seen.created)
    BY <1>f, <1>1 DEF HeldOK
  <2>2. QED
    BY <1>2, <1>6, <2>1 DEF DraftInv, HeldRight
<1>11. BornOnce'
  BY <1>f, <1>6 DEF DraftInv, BornOnce
<1>12. RowsPut'
  <2>1. SUFFICES ASSUME NEW e \in Draft, NEW q \in FileRow, draft[e].status = "draft", sheet'[e][q] = "none",
                        <<e, q>> \notin seen'.lost
                 PROVE  Uploading(e, q)'
    BY <1>f DEF RowsPut
  <2>2. sheet[e][q] = "none" /\ <<e, q>> \notin seen.lost /\ (<<e, q>> = <<d, r>> => wz[w].ask = "preflight")
    BY <1>3, <1>6, <1>7, <2>1
  <2>3. PICK u \in Wizard : wz[u].pc = "put" /\ wz[u].ask = "upload" /\ wz[u].run = e /\ q \in wz[u].left
    BY <2>1, <2>2 DEF DraftInv, RowsPut, Uploading
  <2>4. CASE u # w
    BY <1>2, <2>3, <2>4 DEF Uploading
  <2>5. CASE u = w
    <3>1. q # r
      BY <2>2, <2>3, <2>5
    <3>2. QED
      BY <1>1, <1>2, <2>3, <2>5, <3>1 DEF Uploading
  <2>6. QED
    BY <2>4, <2>5
<1>13. LateHolders'
  BY <1>f, <1>1, <1>2, <1>6 DEF DraftInv, LateHolders, Untouched
<1>14. AloneOnDraft'
  <2>1. SUFFICES ASSUME NEW v \in Wizard, wz'[v].pc \in {"load", "read", "put"}, wz'[v].ask # "upload",
                        wz'[v].run \notin seen.met
                 PROVE  /\ there
                        /\ wz'[v].pc # "load" => Checkable(wz'[v].run)
                        /\ wz'[v].pc = "put" /\ wz'[v].ask = "start" =>
                             \A q \in FileRow : \/ q \in wz'[v].left \/ <<wz'[v].run, q>> \in seen'.lost
                                \/ sheet'[wz'[v].run][q] = Planned(wz'[v].rows, wz'[v].skip, q)
    BY <1>f, <1>6 DEF AloneOnDraft, Untouched, Checkable
  <2>2. CASE v # w
    <3>1. wz'[v] = wz[v]
      BY <1>2, <2>2
    <3>2. wz[v].run \in wz[v].holds /\ wz[v].run \in Draft
      BY <1>f, <2>1, <3>1 DEF DraftInv, HeldRight, HeldOK, DraftShape
    <3>3. wz[v].run # d
      BY <1>f, <2>1, <2>2, <3>1, <3>2, OneHolder DEF Untouched
    <3>4. \A q \in FileRow : /\ sheet'[wz[v].run][q] = sheet[wz[v].run][q]
                             /\ <<wz[v].run, q>> \in seen'.lost <=> <<wz[v].run, q>> \in seen.lost
      BY <1>6, <3>2, <3>3
    <3>5. QED
      BY <2>1, <3>1, <3>4 DEF DraftInv, AloneOnDraft, Untouched
  <2>3. CASE v = w
    <3>1. there /\ Checkable(d)
      BY <1>1, <1>2, <1>f, <2>1, <2>3 DEF DraftInv, AloneOnDraft, Untouched
    <3>2. ASSUME wz[w].ask = "start", NEW q \in FileRow
          PROVE  q \in new.left \/ <<d, q>> \in seen'.lost \/ sheet'[d][q] = Planned(wz[w].rows, wz[w].skip, q)
      <4>1. CASE q = r
        BY <1>4, <1>7, <3>2, <4>1
      <4>2. CASE q # r
        <5>1. q \in wz[w].left \/ <<d, q>> \in seen.lost \/ sheet[d][q] = Planned(wz[w].rows, wz[w].skip, q)
          BY <1>1, <1>2, <1>f, <2>1, <2>3, <3>2 DEF DraftInv, AloneOnDraft, Untouched
        <5>2. QED
          BY <1>1, <1>6, <1>f, <4>2, <5>1
      <4>3. QED
        BY <4>1, <4>2
    <3>3. QED
      BY <1>1, <1>2, <2>3, <3>1, <3>2
  <2>4. QED
    BY <2>2, <2>3
<1>15. StartedIsWhole'
  <2>1. SUFFICES ASSUME NEW e \in Draft, draft[e].status = "running", e \notin seen.met
                 PROVE  /\ there /\ draft[e].owned /\ seen.starts[e] = 1
                        /\ \A q \in FileRow : \/ <<e, q>> \in seen'.lost
                                              \/ sheet'[e][q] = Planned(draft[e].rows, draft[e].skip, q)
    BY <1>f, <1>6 DEF StartedIsWhole
  <2>2. e # d
    BY <1>f, <2>1 DEF DraftInv, LateHolders, Untouched
  <2>3. \A q \in FileRow : sheet'[e][q] = sheet[e][q] /\ (<<e, q>> \in seen'.lost <=> <<e, q>> \in seen.lost)
    BY <1>6, <2>2
  <2>4. QED
    BY <2>1, <2>3 DEF DraftInv, StartedIsWhole
<1>16. QED
  BY <1>8, <1>9, <1>10, <1>11, <1>12, <1>13, <1>14, <1>15 DEF DraftInv

(* The last write of a request: a start that finds every row put makes the *)
(* run running.                                                            *)
LEMMA UpdateKeeps == ASSUME DraftInv, NEW w \in Wizard, UpdateDraft(w) PROVE DraftInv'
<1> DEFINE d == wz[w].run
<1>f. /\ wz[w] \in WizardState /\ wz[w].pc = "put" /\ d \in Draft /\ wz[w].holds = {d} /\ wz[w].left = {}
      /\ d \in seen.created /\ UNCHANGED <<there, sheet>> /\ DOMAIN wz = Wizard /\ DraftShape
      /\ Wz(w, Answered(w))
  BY WizardsAre DEF UpdateDraft, In, DraftInv, DraftShape, HeldRight, HeldOK
<1>1. wz'[w] = Answered(w) /\ \A v \in Wizard : v # w => wz'[v] = wz[v]
  BY <1>f DEF Wz
<1>2. HeldOK(Answered(w), seen.created)
  BY WizardsAre DEF HeldOK
<1>3. wz' \in [Wizard -> WizardState]
  BY <1>f, WizardsAre DEF DraftShape, Wz
<1>4. CASE UNCHANGED <<draft, seen>>
  <2>1. DraftShape'
    BY <1>f, <1>3, <1>4 DEF DraftShape
  <2>2. QED
    BY <1>f, <1>2, <1>4, <2>1, WizardsAre, ReaderKeeps
<1>5. ASSUME seen'.met = seen.met, seen'.created = seen.created, seen'.lost = seen.lost
      PROVE  HoldersMet' /\ HeldRight'
  <2>1. HoldersMet'
    BY <1>f, <1>5, WizardsAre, HoldersKeep
  <2>2. HeldRight'
    BY <1>1, <1>2, <1>5 DEF DraftInv, HeldRight
  <2>3. QED
    BY <2>1, <2>2
<1>6. ASSUME NEW v \in Wizard, wz'[v].pc \in {"load", "read", "put"}, wz'[v].run \notin seen.met
      PROVE  v # w /\ wz'[v] = wz[v] /\ wz[v].run \in Draft \ {d}
  <2>1. v # w /\ wz'[v] = wz[v]
    BY <1>1, <1>6, WizardsAre
  <2>2. wz[v].run \in wz[v].holds /\ wz[v].run \in Draft
    BY <1>f, <1>6, <2>1 DEF DraftInv, HeldRight, HeldOK, DraftShape
  <2>3. wz[v].run # d
    BY <1>f, <1>6, <2>1, <2>2, OneHolder DEF Untouched
  <2>4. QED
    BY <2>1, <2>2, <2>3
<1>7. ASSUME NEW e \in Draft, draft[e].status = "running", e \notin seen.met PROVE e # d
  BY <1>f, <1>7 DEF DraftInv, LateHolders, Untouched
<1>8. CASE draft' = [draft EXCEPT ![d].pinned = TRUE] /\ UNCHANGED seen
  <2>1. \A e \in Draft : /\ draft'[e].status = draft[e].status /\ draft'[e].owned = draft[e].owned
                         /\ draft'[e].rows = draft[e].rows /\ draft'[e].skip = draft[e].skip
    BY <1>f, <1>8 DEF DraftShape, DraftState
  <2>2. draft' \in [Draft -> DraftState]
    <3>1. draft[d] \in DraftState /\ draft \in [Draft -> DraftState]
      BY <1>f DEF DraftShape
    <3>2. [draft[d] EXCEPT !.pinned = TRUE] \in DraftState
      BY <3>1 DEF DraftState
    <3>3. draft' = [draft EXCEPT ![d] = [draft[d] EXCEPT !.pinned = TRUE]]
      BY <1>f, <1>8, <3>1
    <3>4. QED
      BY <3>1, <3>2, <3>3
  <2>3. DraftShape'
    BY <1>f, <1>3, <1>8, <2>2 DEF DraftShape
  <2>4. BornOnce'
    BY <1>8, <2>1 DEF DraftInv, BornOnce
  <2>5. RowsPut'
    BY <1>f, <1>1, <1>8, <2>1 DEF DraftInv, RowsPut, Uploading
  <2>6. LateHolders'
    BY <1>1, <1>8, <2>1, WizardsAre DEF DraftInv, LateHolders, Untouched
  <2>7. AloneOnDraft'
    BY <1>f, <1>6, <1>8, <2>1 DEF DraftInv, AloneOnDraft, Untouched, Checkable
  <2>8. StartedIsWhole'
    BY <1>f, <1>8, <2>1 DEF DraftInv, StartedIsWhole
  <2>9. QED
    BY <1>5, <1>8, <2>3, <2>4, <2>5, <2>6, <2>7, <2>8 DEF DraftInv
<1>9. CASE /\ wz[w].ask \notin {"upload", "preflight"}
           /\ draft' = [draft EXCEPT ![d].status = "running", ![d].rows = wz[w].rows, ![d].skip = wz[w].skip]
           /\ seen' = [seen EXCEPT !.starts[d] = @ + 1]
  <2>1. /\ \A e \in Draft \ {d} : draft'[e] = draft[e] /\ seen'.starts[e] = seen.starts[e]
        /\ draft'[d].status = "running" /\ draft'[d].rows = wz[w].rows /\ draft'[d].skip = wz[w].skip
        /\ draft'[d].owned = draft[d].owned
        /\ seen'.starts[d] = seen.starts[d] + 1
        /\ seen'.met = seen.met /\ seen'.created = seen.created /\ seen'.lost = seen.lost
    BY <1>f, <1>9 DEF DraftShape, DraftState
  <2>2. draft' \in [Draft -> DraftState]
    <3>1. draft[d] \in DraftState /\ draft \in [Draft -> DraftState]
      BY <1>f DEF DraftShape
    <3>2. [draft[d] EXCEPT !.status = "running", !.rows = wz[w].rows, !.skip = wz[w].skip] \in DraftState
      BY <1>f, <3>1 DEF DraftState, WizardState
    <3>3. draft' = [draft EXCEPT ![d] =
                      [draft[d] EXCEPT !.status = "running", !.rows = wz[w].rows, !.skip = wz[w].skip]]
      BY <1>f, <1>9, <3>1
    <3>4. QED
      BY <3>1, <3>2, <3>3
  <2>3. DraftShape'
    <3>1. [seen.starts EXCEPT ![d] = @ + 1] \in [Draft -> Nat]
      BY <1>f DEF DraftShape
    <3>2. seen' = [seen EXCEPT !.starts = [seen.starts EXCEPT ![d] = @ + 1]]
      BY <1>f, <1>9 DEF DraftShape
    <3>3. QED
      BY <1>f, <1>3, <2>2, <3>1, <3>2 DEF DraftShape
  <2>4. BornOnce'
    BY <1>f, <2>1 DEF DraftInv, BornOnce
  <2>5. RowsPut'
    <3>1. SUFFICES ASSUME NEW e \in Draft, NEW q \in FileRow, draft'[e].status = "draft", sheet[e][q] = "none",
                          <<e, q>> \notin seen.lost
                   PROVE  Uploading(e, q)'
      BY <1>f, <2>1 DEF RowsPut
    <3>2. e # d /\ draft[e].status = "draft"
      BY <2>1, <3>1
    <3>3. PICK u \in Wizard : wz[u].pc = "put" /\ wz[u].ask = "upload" /\ wz[u].run = e /\ q \in wz[u].left
      BY <3>1, <3>2 DEF DraftInv, RowsPut, Uploading
    <3>4. QED
      BY <1>1, <3>2, <3>3 DEF Uploading
  <2>6. LateHolders'
    <3>1. SUFFICES ASSUME NEW e \in Draft, NEW v \in Wizard, draft'[e].status = "running", e \notin seen.met,
                          e \in wz'[v].holds
                   PROVE  wz'[v].pc = "load"
      BY <2>1 DEF LateHolders, Untouched
    <3>2. v # w /\ wz'[v] = wz[v]
      BY <1>1, <3>1, WizardsAre
    <3>3. e # d
      BY <1>f, <3>1, <3>2, OneHolder DEF Untouched
    <3>4. QED
      BY <2>1, <3>1, <3>2, <3>3 DEF DraftInv, LateHolders, Untouched
  <2>7. AloneOnDraft'
    <3>1. ASSUME NEW v \in Wizard, wz'[v].pc \in {"load", "read", "put"}, wz'[v].run \notin seen.met
          PROVE  wz'[v] = wz[v] /\ draft'[wz[v].run] = draft[wz[v].run]
      BY <1>6, <2>1, <3>1
    <3>2. QED
      BY <1>f, <2>1, <3>1 DEF DraftInv, AloneOnDraft, Untouched, Checkable
  <2>8. StartedIsWhole'
    <3>1. SUFFICES ASSUME NEW e \in Draft, draft'[e].status = "running", e \notin seen.met
                   PROVE  /\ there /\ draft'[e].owned /\ seen'.starts[e] = 1
                          /\ \A q \in FileRow : \/ <<e, q>> \in seen.lost
                                                \/ sheet[e][q] = Planned(draft'[e].rows, draft'[e].skip, q)
      BY <1>f, <2>1 DEF StartedIsWhole
    <3>2. CASE e # d
      BY <2>1, <3>1, <3>2 DEF DraftInv, StartedIsWhole
    <3>3. CASE e = d
      <4>1. there /\ draft[d].owned /\ draft[d].status = "draft"
        BY <1>f, <1>9, <3>1, <3>3 DEF DraftInv, AloneOnDraft, Untouched, Checkable
      <4>2. seen.starts[d] = 0
        BY <1>f, <4>1 DEF DraftInv, BornOnce
      <4>3. wz[w].ask = "start"
        BY <1>f, <1>9 DEF DraftInv, HeldRight, HeldOK
      <4>4. \A q \in FileRow : <<d, q>> \in seen.lost \/ sheet[d][q] = Planned(wz[w].rows, wz[w].skip, q)
        BY <1>f, <3>1, <3>3, <4>3 DEF DraftInv, AloneOnDraft, Untouched
      <4>5. seen'.starts[d] = 1
        BY <2>1, <4>2
      <4>6. \A q \in FileRow : <<d, q>> \in seen.lost \/ sheet[d][q] = Planned(draft'[d].rows, draft'[d].skip, q)
        BY <2>1, <4>4
      <4>7. draft'[d].owned
        BY <2>1, <4>1
      <4>8. QED
        BY <3>3, <4>1, <4>5, <4>6, <4>7
    <3>4. QED
      BY <3>2, <3>3
  <2>9. QED
    BY <1>5, <2>1, <2>3, <2>4, <2>5, <2>6, <2>7, <2>8 DEF DraftInv
<1>10. QED
  <2>1. CASE wz[w].ask = "upload"
    BY <1>4, <2>1 DEF UpdateDraft
  <2>2. CASE wz[w].ask = "preflight"
    BY <1>8, <2>2 DEF UpdateDraft
  <2>3. CASE wz[w].ask \notin {"upload", "preflight"}
    BY <1>9, <2>3 DEF UpdateDraft
  <2>4. QED
    BY <2>1, <2>2, <2>3

(* A draft an upload replaces loses its rows, and is gone.                 *)
LEMMA DropRowsKeeps == ASSUME DraftInv, NEW w \in Wizard, DropRows(w) PROVE DraftInv'
<1> DEFINE d == Min(wz[w].drops)
           new == To(w, "drop run")
<1>f. /\ wz[w] \in WizardState /\ wz[w].pc = "drop" /\ UNCHANGED <<there, draft>>
      /\ DOMAIN wz = Wizard /\ DraftShape /\ Wz(w, new) /\ HeldOK(wz[w], seen.created)
      /\ wz[w].drops # {}
  BY WizardsAre DEF DropRows, In, DraftInv, DraftShape, HeldRight
<1>d. d \in wz[w].drops /\ d \in Draft
  <2>1. wz[w].drops \in SUBSET Nat /\ wz[w].drops \subseteq Draft
    BY <1>f, DraftAssumption DEF WizardState
  <2>2. QED
    BY <1>f, <2>1, MinIsLeast
<1>1. /\ new \in WizardState /\ new.pc = "drop run" /\ new.holds = wz[w].holds
      /\ new.drops = wz[w].drops /\ new.ask = wz[w].ask
  BY <1>f DEF To, WizardState
<1>2. wz'[w] = new /\ \A v \in Wizard : v # w => wz'[v] = wz[v]
  BY <1>f DEF Wz
<1>3. PICK s \in [FileRow -> RowStatuses] : sheet' = [sheet EXCEPT ![d] = s]
  <2>1. Blank \in [FileRow -> RowStatuses] /\ sheet[d] \in [FileRow -> RowStatuses]
        /\ sheet \in [Draft -> [FileRow -> RowStatuses]]
    BY <1>f, <1>d DEF Blank, RowStatuses, DraftShape
  <2>2. ASSUME NEW r \in FileRow
        PROVE  [k \in FileRow |-> IF k = r THEN sheet[d][k] ELSE "none"] \in [FileRow -> RowStatuses]
    BY <2>1 DEF RowStatuses
  <2>3. CASE sheet' = [sheet EXCEPT ![d] = Blank]
    BY <2>1, <2>3
  <2>4. ASSUME NEW r \in FileRow,
               sheet' = [sheet EXCEPT ![d] = [k \in FileRow |-> IF k = r THEN @[k] ELSE "none"]]
        PROVE  \E s \in [FileRow -> RowStatuses] : sheet' = [sheet EXCEPT ![d] = s]
    <3>1. sheet' = [sheet EXCEPT ![d] = [k \in FileRow |-> IF k = r THEN sheet[d][k] ELSE "none"]]
      BY <2>4
    <3>2. QED
      BY <2>2, <3>1
  <2>5. QED
    BY <2>3, <2>4 DEF DropRows
<1>4. seen' = [seen EXCEPT !.lost = @ \cup ({d} \X FileRow)]
  BY DEF DropRows
<1> HIDE DEF new, d
<1>5. /\ seen'.created = seen.created /\ seen'.starts = seen.starts /\ seen'.met = seen.met
      /\ seen'.lost = seen.lost \cup ({d} \X FileRow)
      /\ \A e \in Draft : e # d => sheet'[e] = sheet[e]
  BY <1>f, <1>3, <1>4 DEF DraftShape
<1>6. \A r \in FileRow : <<d, r>> \in seen'.lost
  BY <1>5
<1>7. DraftShape'
  <2>1. sheet' \in [Draft -> [FileRow -> RowStatuses]]
    BY <1>f, <1>3 DEF DraftShape
  <2>2. wz' \in [Wizard -> WizardState]
    BY <1>f, <1>1 DEF DraftShape, Wz
  <2>3. {d} \X FileRow \subseteq (Draft \cup {NoDraft}) \X FileRow
    BY <1>d
  <2>4. QED
    BY <1>f, <1>4, <2>1, <2>2, <2>3 DEF DraftShape
<1>8. HoldersMet'
  BY <1>f, <1>1, <1>5, HoldersKeep
<1>9. HeldRight'
  <2>1. HeldOK(new, seen.created)
    BY <1>f, <1>1 DEF HeldOK
  <2>2. QED
    BY <1>2, <1>5, <2>1 DEF DraftInv, HeldRight
<1>10. BornOnce' /\ LateHolders'
  <2>1. BornOnce'
    BY <1>f, <1>5 DEF DraftInv, BornOnce
  <2>2. \A v \in Wizard : wz'[v].holds = wz[v].holds /\ (wz[v].pc = "load" => wz'[v].pc = "load")
    BY <1>f, <1>1, <1>2
  <2>3. LateHolders'
    BY <1>f, <1>5, <2>2 DEF DraftInv, LateHolders, Untouched
  <2>4. QED
    BY <2>1, <2>3
<1>11. RowsPut'
  <2>1. SUFFICES ASSUME NEW e \in Draft, NEW q \in FileRow, draft[e].status = "draft", sheet'[e][q] = "none",
                        <<e, q>> \notin seen'.lost
                 PROVE  Uploading(e, q)'
    BY <1>f DEF RowsPut
  <2>2. e # d /\ sheet[e][q] = "none" /\ <<e, q>> \notin seen.lost
    BY <1>5, <1>6, <2>1
  <2>3. PICK u \in Wizard : wz[u].pc = "put" /\ wz[u].ask = "upload" /\ wz[u].run = e /\ q \in wz[u].left
    BY <2>1, <2>2 DEF DraftInv, RowsPut, Uploading
  <2>4. QED
    BY <1>2, <1>f, <2>3 DEF Uploading
<1>12. AloneOnDraft'
  <2>1. ASSUME NEW v \in Wizard, wz'[v].pc \in {"load", "read", "put"}
        PROVE  wz'[v] = wz[v] /\ wz[v].run \in Draft
    BY <1>1, <1>2, <1>f, <2>1 DEF DraftInv, HeldRight, HeldOK, DraftShape
  <2>2. ASSUME NEW e \in Draft, NEW q \in FileRow
        PROVE  <<e, q>> \in seen'.lost \/ (<<e, q>> \notin seen.lost /\ sheet'[e][q] = sheet[e][q])
    BY <1>5, <1>6
  <2>3. QED
    BY <1>f, <1>5, <2>1, <2>2 DEF DraftInv, AloneOnDraft, Untouched, Checkable
<1>13. StartedIsWhole'
  <2>1. ASSUME NEW e \in Draft, NEW q \in FileRow
        PROVE  <<e, q>> \in seen'.lost \/ (<<e, q>> \notin seen.lost /\ sheet'[e][q] = sheet[e][q])
    BY <1>5, <1>6
  <2>2. QED
    BY <1>f, <1>5, <2>1 DEF DraftInv, StartedIsWhole
<1>14. QED
  BY <1>7, <1>8, <1>9, <1>10, <1>11, <1>12, <1>13 DEF DraftInv

(* The draft itself goes, whatever it has become.                          *)
LEMMA DropRunKeeps == ASSUME DraftInv, NEW w \in Wizard, DropRun(w) PROVE DraftInv'
<1> DEFINE d == Min(wz[w].drops)
           new == [To(w, "drop") EXCEPT !.drops = @ \ {d}]
<1>f. /\ wz[w] \in WizardState /\ wz[w].pc = "drop run" /\ UNCHANGED <<there, sheet, seen>>
      /\ DOMAIN wz = Wizard /\ DraftShape /\ HeldOK(wz[w], seen.created)
      /\ wz[w].drops # {} /\ draft' = [draft EXCEPT ![d] = NoRun]
  BY WizardsAre DEF DropRun, In, DraftInv, DraftShape, HeldRight, HeldOK
<1>w. Wz(w, new)
  <2>1. To(w, "drop").drops = wz[w].drops
    BY <1>f DEF To, WizardState
  <2>2. QED
    BY <2>1 DEF DropRun
<1>d. d \in wz[w].drops /\ d \in Draft /\ d \in wz[w].holds
  <2>1. wz[w].drops \in SUBSET Nat /\ wz[w].drops \subseteq Draft
    BY <1>f, DraftAssumption DEF WizardState
  <2>2. QED
    BY <1>f, <2>1, MinIsLeast DEF HeldOK
<1>1. /\ new \in WizardState /\ new.pc = "drop" /\ new.holds = wz[w].holds
      /\ new.drops = wz[w].drops \ {d} /\ new.ask = wz[w].ask
  BY <1>f DEF To, WizardState
<1>2. wz'[w] = new /\ \A v \in Wizard : v # w => wz'[v] = wz[v]
  BY <1>f, <1>w DEF Wz
<1> HIDE DEF new, d
<1>3. NoRun \in DraftState /\ NoRun.status = "none"
  BY DEF NoRun, DraftState
<1>4. draft'[d].status = "none" /\ \A e \in Draft : e # d => draft'[e] = draft[e]
  BY <1>f, <1>d, <1>3 DEF DraftShape
<1>5. DraftShape'
  <2>1. draft' \in [Draft -> DraftState]
    BY <1>f, <1>3 DEF DraftShape
  <2>2. wz' \in [Wizard -> WizardState]
    BY <1>f, <1>w, <1>1 DEF DraftShape, Wz
  <2>3. QED
    BY <1>f, <2>1, <2>2 DEF DraftShape
<1>6. HoldersMet'
  BY <1>f, <1>w, <1>1, HoldersKeep
<1>7. HeldRight'
  <2>1. HeldOK(new, seen.created)
    BY <1>f, <1>1 DEF HeldOK
  <2>2. QED
    BY <1>f, <1>2, <2>1 DEF DraftInv, HeldRight
<1>8. BornOnce' /\ LateHolders'
  <2>1. BornOnce'
    BY <1>f, <1>4 DEF DraftInv, BornOnce
  <2>2. \A e \in Draft : draft'[e].status = "running" => draft[e].status = "running"
    BY <1>4
  <2>3. \A v \in Wizard : wz'[v].holds = wz[v].holds /\ (wz[v].pc = "load" => wz'[v].pc = "load")
    BY <1>f, <1>1, <1>2
  <2>4. LateHolders'
    BY <1>f, <2>2, <2>3 DEF DraftInv, LateHolders, Untouched
  <2>5. QED
    BY <2>1, <2>4
<1>9. RowsPut'
  <2>1. SUFFICES ASSUME NEW e \in Draft, NEW q \in FileRow, draft'[e].status = "draft", sheet[e][q] = "none",
                        <<e, q>> \notin seen.lost
                 PROVE  Uploading(e, q)'
    BY <1>f DEF RowsPut
  <2>2. draft[e].status = "draft"
    BY <1>4, <2>1
  <2>3. PICK u \in Wizard : wz[u].pc = "put" /\ wz[u].ask = "upload" /\ wz[u].run = e /\ q \in wz[u].left
    BY <2>1, <2>2 DEF DraftInv, RowsPut, Uploading
  <2>4. QED
    BY <1>2, <1>f, <2>3 DEF Uploading
<1>10. AloneOnDraft'
  <2>1. ASSUME NEW v \in Wizard, wz'[v].pc \in {"load", "read", "put"}, wz'[v].run \notin seen.met
        PROVE  wz'[v] = wz[v] /\ draft'[wz[v].run] = draft[wz[v].run]
    <3>1. v # w /\ wz'[v] = wz[v]
      BY <1>1, <1>2, <2>1
    <3>2. wz[v].run \in wz[v].holds /\ wz[v].run \in Draft
      BY <1>f, <2>1, <3>1 DEF DraftInv, HeldRight, HeldOK, DraftShape
    <3>3. wz[v].run # d
      BY <1>d, <2>1, <3>1, <3>2, OneHolder DEF Untouched
    <3>4. QED
      BY <1>4, <3>1, <3>2, <3>3
  <2>2. there' = there /\ sheet' = sheet /\ seen' = seen
    BY <1>f
  <2>3. QED
    BY <2>1, <2>2 DEF DraftInv, AloneOnDraft, Untouched, Checkable
<1>11. StartedIsWhole'
  <2>1. \A e \in Draft : draft'[e].status = "running" => draft'[e] = draft[e]
    BY <1>4
  <2>2. there' = there /\ sheet' = sheet /\ seen' = seen
    BY <1>f
  <2>3. QED
    BY <2>1, <2>2 DEF DraftInv, StartedIsWhole
<1>12. QED
  BY <1>5, <1>6, <1>7, <1>8, <1>9, <1>10, <1>11 DEF DraftInv

(* A new draft, its rows yet to be put.                                    *)
LEMMA CreateKeeps == ASSUME DraftInv, NEW w \in Wizard, CreateRun(w) PROVE DraftInv'
<1> DEFINE d == Min(Draft \ seen.created)
           run == [NoRun EXCEPT !.status = "draft", !.owned = TRUE]
           new == [To(w, "put") EXCEPT !.run = d, !.left = FileRow, !.holds = {d}]
<1>f. /\ wz[w] \in WizardState /\ wz[w].pc = "drop" /\ UNCHANGED <<there, sheet>>
      /\ DOMAIN wz = Wizard /\ DraftShape /\ wz[w].ask = "upload"
      /\ draft' = [draft EXCEPT ![d] = run] /\ Wz(w, new)
      /\ seen' = [seen EXCEPT !.created = @ \cup {d}, !.met = Met(w, {d})]
  BY WizardsAre DEF CreateRun, In, DraftInv, DraftShape, HeldRight, HeldOK
<1>d. d \in Draft /\ d \notin seen.created
  <2>1. Draft \ seen.created \in SUBSET Nat /\ Draft \ seen.created # {}
    BY DraftAssumption DEF CreateRun
  <2>2. QED
    BY <2>1, MinIsLeast
<1> HIDE DEF d
<1>1. /\ new \in WizardState /\ new.pc = "put" /\ new.holds = {d} /\ new.run = d /\ new.left = FileRow
      /\ new.ask = "upload"
  BY <1>f, <1>d DEF To, WizardState
<1>2. wz'[w] = new /\ \A v \in Wizard : v # w => wz'[v] = wz[v]
  BY <1>f DEF Wz
<1> HIDE DEF new
<1>3. run \in DraftState /\ run.status = "draft"
  BY DEF NoRun, DraftState
<1>4. draft'[d].status = "draft" /\ \A e \in Draft : e # d => draft'[e] = draft[e]
  BY <1>f, <1>d, <1>3 DEF DraftShape
<1>5. /\ seen'.created = seen.created \cup {d} /\ seen'.met = Met(w, {d}) /\ seen'.lost = seen.lost
      /\ seen'.starts = seen.starts /\ seen.met \subseteq seen'.met
  BY <1>f DEF DraftShape, Met
<1>6. DraftShape'
  <2>1. draft' \in [Draft -> DraftState]
    BY <1>f, <1>3 DEF DraftShape
  <2>2. wz' \in [Wizard -> WizardState]
    BY <1>f, <1>1 DEF DraftShape, Wz
  <2>3. Met(w, {d}) \in SUBSET Draft
    BY <1>d, <1>f DEF Met, DraftShape
  <2>4. QED
    BY <1>f, <1>d, <2>1, <2>2, <2>3 DEF DraftShape
<1>7. HoldersMet'
  BY <1>f, <1>1, <1>5, HoldersKeep
<1>8. HeldRight'
  <2>1. HeldOK(new, seen'.created)
    BY <1>1, <1>5 DEF HeldOK
  <2>2. \A v \in Wizard : HeldOK(wz[v], seen'.created)
    BY <1>5 DEF DraftInv, HeldRight, HeldOK
  <2>3. QED
    BY <1>2, <2>1, <2>2 DEF HeldRight
<1>9. BornOnce'
  BY <1>d, <1>4, <1>5 DEF DraftInv, BornOnce
<1>10. LateHolders'
  BY <1>1, <1>2, <1>4, <1>5 DEF DraftInv, LateHolders, Untouched
<1>11. RowsPut'
  <2>1. SUFFICES ASSUME NEW e \in Draft, NEW q \in FileRow, draft'[e].status = "draft", sheet[e][q] = "none",
                        <<e, q>> \notin seen.lost
                 PROVE  Uploading(e, q)'
    BY <1>f, <1>5 DEF RowsPut
  <2>2. CASE e = d
    BY <1>1, <1>2, <2>2 DEF Uploading
  <2>3. CASE e # d
    <3>1. PICK u \in Wizard : wz[u].pc = "put" /\ wz[u].ask = "upload" /\ wz[u].run = e /\ q \in wz[u].left
      BY <1>4, <2>1, <2>3 DEF DraftInv, RowsPut, Uploading
    <3>2. QED
      BY <1>2, <1>f, <3>1 DEF Uploading
  <2>4. QED
    BY <2>2, <2>3
<1>12. AloneOnDraft'
  <2>1. ASSUME NEW v \in Wizard, wz'[v].pc \in {"load", "read", "put"}, wz'[v].ask # "upload"
        PROVE  wz'[v] = wz[v] /\ draft'[wz[v].run] = draft[wz[v].run]
    <3>1. v # w /\ wz'[v] = wz[v]
      BY <1>1, <1>2, <2>1
    <3>2. wz[v].run \in seen.created /\ wz[v].run \in Draft
      BY <1>f, <2>1, <3>1 DEF DraftInv, HeldRight, HeldOK, DraftShape
    <3>3. QED
      BY <1>4, <1>d, <3>1, <3>2
  <2>2. QED
    BY <1>f, <1>5, <2>1 DEF DraftInv, AloneOnDraft, Untouched, Checkable
<1>13. StartedIsWhole'
  <2>1. \A e \in Draft : draft'[e].status = "running" => draft'[e] = draft[e]
    BY <1>4
  <2>2. QED
    BY <1>f, <1>5, <2>1 DEF DraftInv, StartedIsWhole
<1>14. QED
  BY <1>6, <1>7, <1>8, <1>9, <1>10, <1>11, <1>12, <1>13 DEF DraftInv

(* The inductive step of StartsAreWhole.                                   *)
LEMMA DraftStep == ASSUME DraftInv, [DraftNext]_draftVars PROVE DraftInv'
<1>1. CASE UNCHANGED draftVars
  <2>1. there' = there /\ draft' = draft /\ sheet' = sheet /\ wz' = wz /\ seen' = seen
    BY <1>1 DEF draftVars
  <2>2. DraftShape' /\ HoldersMet' /\ HeldRight' /\ BornOnce'
    BY <2>1 DEF DraftInv, DraftShape, HoldersMet, HeldRight, HeldOK, BornOnce
  <2>3. RowsPut' /\ LateHolders'
    BY <2>1 DEF DraftInv, RowsPut, Uploading, LateHolders, Untouched
  <2>4. AloneOnDraft' /\ StartedIsWhole'
    BY <2>1 DEF DraftInv, AloneOnDraft, Untouched, Checkable, StartedIsWhole
  <2>5. QED
    BY <2>2, <2>3, <2>4 DEF DraftInv
<1>2. QED
  BY <1>1, ArrivesKeeps, LoadKeeps, SheetReadKeeps, ListKeeps, RemoveKeeps, FailKeeps, PutKeeps, UpdateKeeps,
     DropRowsKeeps, DropRunKeeps, CreateKeeps
  DEF DraftNext

(* A run that is running is whole and was started once, for any number of  *)
(* drafts, rows and requests to the routes: a run no two requests ever     *)
(* held at once goes from its upload through its preflights to its start   *)
(* with every row put, or known to be lost.                                *)
THEOREM StartsAreWhole == DraftSpec => []StartedIsWhole
<1>1. DraftInv /\ [DraftNext]_draftVars => DraftInv'
  BY DraftStep
<1>2. DraftInv => StartedIsWhole
  BY DEF DraftInv
<1>3. QED
  BY <1>1, <1>2, DraftsBegin, PTL DEF DraftSpec

-----------------------------------------------------------------------------
(* The types of the canvas, the cap and the drafts                         *)

(* CanvasInv is about what keeps an old answer away; the rest of the types *)
(* of the canvas needs it, for the cells that are written.                 *)
CanvasTypeInv == CanvasInv /\ CanvasTypeOK

(* The canvas begins well-typed.                                           *)
LEMMA CanvasTypeBegins == CanvasInit => CanvasTypeInv
<1>1. SUFFICES ASSUME CanvasInit PROVE CanvasTypeOK
  BY CanvasBegins DEF CanvasTypeInv
<1>2. NewVisit \in VisitState /\ NewSave \in SaveState
  BY DEF NewVisit, VisitState, NewSave, SaveState, CellOr
<1>3. QED
  BY <1>1, <1>2, CanvasAssumption DEF CanvasInit, CanvasTypeOK, VisitState, SaveState, CellOr

(* The counters stay within their bounds, the cells on the grid.           *)
LEMMA CanvasTypeStep ==
  ASSUME CanvasTypeInv, [CanvasNext]_canvasVars
  PROVE  CanvasTypeInv'
<1>1. CanvasInv'
  BY CanvasStep DEF CanvasTypeInv
<1>2. visit' \in [Visit -> VisitState] /\ early' \in [Early -> SaveState]
  <2>1. visit' = [v \in Visit |-> visit'[v]] /\ early' = [k \in Early |-> early'[k]]
    <3>1. CASE UNCHANGED canvasVars
      BY <3>1 DEF canvasVars, CanvasTypeInv, CanvasTypeOK
    <3>2. ASSUME NEW v \in Visit,
                 Mount(v) \/ (\E c \in Cell : Drop(v, c) \/ PinDefault(v, c)) \/ TimerFires(v) \/ Save(v)
          PROVE  visit' = [u \in Visit |-> visit'[u]] /\ early' = [k \in Early |-> early'[k]]
      BY <3>2 DEF Mount, Drop, PinDefault, TimerFires, Save, CanvasTypeInv, CanvasTypeOK
    <3>3. ASSUME NEW v \in Visit, Saved(v) \/ SaveFails(v)
          PROVE  visit' = [u \in Visit |-> visit'[u]] /\ early' = [k \in Early |-> early'[k]]
      BY <3>3 DEF Saved, SaveFails, SendChained, CanvasTypeInv, CanvasTypeOK
    <3>4. ASSUME NEW v \in Visit, Hide(v) \/ Unmount(v)
          PROVE  visit' = [u \in Visit |-> visit'[u]] /\ early' = [k \in Early |-> early'[k]]
      BY <3>4 DEF Hide, Unmount, FlushNow, CanvasTypeInv, CanvasTypeOK
    <3>5. ASSUME NEW v \in Visit, Answer(v) \/ OnSuccess(v) \/ PollFails(v) \/ GuardExpires(v)
          PROVE  visit' = [u \in Visit |-> visit'[u]] /\ early' = [k \in Early |-> early'[k]]
      BY <3>5 DEF Answer, OnSuccess, PollFails, GuardExpires, CanvasTypeInv, CanvasTypeOK
    <3>6. ASSUME NEW k \in Early, EarlySave(k) \/ EarlyLost(k)
          PROVE  visit' = [u \in Visit |-> visit'[u]] /\ early' = [i \in Early |-> early'[i]]
      BY <3>6 DEF EarlySave, EarlyLost, CanvasTypeInv, CanvasTypeOK
    <3>7. ASSUME NEW c \in Cell, Elsewhere(c)
          PROVE  visit' = [u \in Visit |-> visit'[u]] /\ early' = [i \in Early |-> early'[i]]
      BY <3>7 DEF Elsewhere, CanvasTypeInv, CanvasTypeOK
    <3>8. QED
      BY <3>1, <3>2, <3>3, <3>4, <3>5, <3>6, <3>7 DEF CanvasNext
  <2>2. (\A v \in Visit : visit'[v] \in VisitState) /\ (\A k \in Early : early'[k] \in SaveState)
    BY <1>1 DEF CanvasInv, VisitOK, SaveOK
  <2>3. QED
    BY <2>1, <2>2
<1> DEFINE Rest0 == /\ stored' \in [cell : CellOr, legacy : BOOLEAN]
                    /\ shown' \in CellOr /\ data' \in {"none", "error", "answer"}
                    /\ drop'.count \in 0 .. MaxDrops /\ drop'.last \in CellOr
                    /\ others' \in 0 .. MaxElsewhere /\ badRequests' \in 0 .. MaxBadRequests
<1>t. /\ stored \in [cell : CellOr, legacy : BOOLEAN]
      /\ shown \in CellOr /\ data \in {"none", "error", "answer"}
      /\ drop.count \in 0 .. MaxDrops /\ drop.last \in CellOr
      /\ others \in 0 .. MaxElsewhere /\ badRequests \in 0 .. MaxBadRequests
      /\ visit \in [Visit -> VisitState] /\ early \in [Early -> SaveState]
  BY DEF CanvasTypeInv, CanvasTypeOK, VisitState, SaveState
<1>n. MaxDrops \in Nat /\ MaxElsewhere \in Nat /\ MaxBadRequests \in Nat /\ Cell \subseteq CellOr
  BY CanvasAssumption DEF CellOr
<1>w. ASSUME NEW move \in CellOr, NEW placed \in CellOr
      PROVE  Written(move, placed) \in [cell : CellOr, legacy : BOOLEAN]
  BY <1>t DEF Written
<1>3. Rest0
  <2>1. CASE UNCHANGED canvasVars
    BY <2>1, <1>t DEF canvasVars
  <2>2. ASSUME NEW v \in Visit, Mount(v) \/ TimerFires(v) \/ Saved(v) \/ SaveFails(v) \/ Hide(v) \/ Unmount(v)
        PROVE  Rest0
    BY <2>2, <1>t, <1>n DEF Mount, TimerFires, Saved, SaveFails, Hide, Unmount
  <2>3. ASSUME NEW v \in Visit, NEW c \in Cell, Drop(v, c) \/ PinDefault(v, c)
        PROVE  Rest0
    BY <2>3, <1>t, <1>n DEF Drop, PinDefault
  <2>4. ASSUME NEW v \in Visit, Save(v)
        PROVE  Rest0
    <3>1. visit[v].move \in CellOr /\ visit[v].placed \in CellOr
      BY <1>t DEF VisitState
    <3>2. QED
      BY <2>4, <3>1, <1>w, <1>t DEF Save
  <2>5. ASSUME NEW v \in Visit, Answer(v) \/ OnSuccess(v) \/ PollFails(v) \/ GuardExpires(v)
        PROVE  Rest0
    <3>1. visit[v].got \in CellOr
      BY <1>t DEF VisitState
    <3>2. QED
      BY <2>5, <3>1, <1>t, <1>n DEF Answer, OnSuccess, PollFails, GuardExpires
  <2>6. ASSUME NEW k \in Early, EarlySave(k) \/ EarlyLost(k)
        PROVE  Rest0
    <3>1. early[k].move \in CellOr /\ early[k].placed \in CellOr
      BY <1>t DEF SaveState
    <3>2. QED
      BY <2>6, <3>1, <1>w, <1>t, <1>n DEF EarlySave, EarlyLost
  <2>7. ASSUME NEW c \in Cell, Elsewhere(c)
        PROVE  Rest0
    BY <2>7, <1>t, <1>n DEF Elsewhere
  <2>8. QED
    BY <2>1, <2>2, <2>3, <2>4, <2>5, <2>6, <2>7 DEF CanvasNext
<1>4. QED
  BY <1>1, <1>2, <1>3 DEF CanvasTypeInv, CanvasTypeOK, VisitState, SaveState

(* What the canvas keeps: cells of the grid, and no more moves, saves and  *)
(* failures than there are.                                                *)
THEOREM CanvasTypeCorrect == CanvasSpec => []CanvasTypeOK
<1>1. CanvasTypeInv => CanvasTypeOK
  BY DEF CanvasTypeInv
<1>2. QED
  BY <1>1, CanvasTypeBegins, CanvasTypeStep, PTL DEF CanvasSpec

(* What the cap keeps: a pass that releases has a run to release.          *)
THEOREM CapTypeCorrect == CapSpec => []CapTypeOK
<1>1. CapInv => CapTypeOK
  BY DEF CapInv, PassOK, PassState, ItemsOK, CapTypeOK
<1>2. CapInv /\ [CapNext]_capVars => CapInv'
  BY CapStep
<1>3. QED
  BY <1>1, <1>2, CapBegins, PTL DEF CapSpec

(* The processor and the count of faults, which DraftInv says nothing of.  *)
DraftTypeInv == DraftInv /\ there \in BOOLEAN /\ slips \in 0 .. MaxDraftFaults

(* No fault past the bound.                                                *)
LEMMA DraftTypeStep ==
  ASSUME DraftTypeInv, [DraftNext]_draftVars
  PROVE  DraftTypeInv'
<1>1. DraftInv'
  BY DraftStep DEF DraftTypeInv
<1>2. there' \in BOOLEAN
  BY DEF DraftTypeInv, DraftNext, draftVars, Arrives, LoadRun, ReadSheet, PutRowOf, UpdateDraft, ListRuns,
         DropRows, DropRun, CreateRun, RemoveProcessor, WizardFails
<1>3. slips' = slips \/ (slips < MaxDraftFaults /\ slips' = slips + 1)
  BY DEF DraftNext, draftVars, Arrives, LoadRun, ReadSheet, PutRowOf, UpdateDraft, ListRuns,
         DropRows, DropRun, CreateRun, RemoveProcessor, WizardFails, Slip, NoSlip
<1>4. slips' \in 0 .. MaxDraftFaults
  BY <1>3, DraftAssumption DEF DraftTypeInv
<1>5. QED
  BY <1>1, <1>2, <1>4 DEF DraftTypeInv

(* What the drafts keep: a request that loads, reads or puts has a run of   *)
(* its own, one that deletes a draft has one to delete.                    *)
THEOREM DraftTypeCorrect == DraftSpec => []DraftTypeOK
<1>1. DraftInit => DraftTypeInv
  BY DraftsBegin, DraftAssumption DEF DraftTypeInv, DraftInit
<1>2. DraftTypeInv => DraftTypeOK
  <2>1. SUFFICES ASSUME DraftTypeInv PROVE DraftTypeOK
    OBVIOUS
  <2>2. \A w \in Wizard : wz[w] \in WizardState /\ HeldOK(wz[w], seen.created) /\ seen.created \subseteq Draft
    BY <2>1 DEF DraftTypeInv, DraftInv, DraftShape, HeldRight
  <2>3. \A w \in Wizard : /\ wz[w].pc \in {"idle", "load", "read", "put", "list", "drop", "drop run", "remove", "done"}
                          /\ wz[w].pc \in {"load", "read", "put"} => wz[w].run \in Draft
                          /\ wz[w].pc = "drop run" => wz[w].drops # {}
    BY <2>2 DEF WizardState, HeldOK
  <2>4. QED
    BY <2>1, <2>3 DEF DraftTypeInv, DraftInv, DraftShape, DraftState, DraftTypeOK
<1>3. QED
  BY <1>1, <1>2, DraftTypeStep, PTL DEF DraftSpec

-----------------------------------------------------------------------------
(* The walk of the sync                                                    *)

(* A finite set of numbers has a largest one: of an element with the       *)
(* fewest above it, none is above it.                                      *)
LEMMA MaxIsLargest ==
  ASSUME NEW S \in SUBSET Nat, IsFiniteSet(S), S # {}
  PROVE  Max(S) \in S /\ \A y \in S : Max(S) >= y
<1> DEFINE above(x) == {y \in S : y > x}
           counts   == {Cardinality(above(x)) : x \in S}
<1>1. \A x : above(x) \subseteq S /\ IsFiniteSet(above(x)) /\ Cardinality(above(x)) \in Nat
  <2>1. SUFFICES ASSUME NEW x
                 PROVE  above(x) \subseteq S /\ IsFiniteSet(above(x)) /\ Cardinality(above(x)) \in Nat
    OBVIOUS
  <2>2. above(x) \in SUBSET S
    OBVIOUS
  <2>3. QED
    BY <2>2, FS_Subset, FS_CardinalityType
<1>2. counts \in SUBSET Nat /\ counts # {}
  BY <1>1
<1>3. Min(counts) \in counts /\ \A n \in counts : Min(counts) <= n
  BY <1>2, MinIsLeast
<1>4. PICK x \in S : Cardinality(above(x)) = Min(counts)
  BY <1>3
<1>5. ASSUME NEW y \in S, y > x PROVE FALSE
  <2>n. x \in Nat /\ y \in Nat /\ \A z \in S : z \in Nat
    OBVIOUS
  <2>a. ASSUME NEW z \in above(y) PROVE z \in above(x)
    <3>1. z \in S /\ z \in Nat /\ z > y
      BY <2>n
    <3>2. z > x
      BY <3>1, <2>n, <1>5
    <3>3. QED
      BY <3>1, <3>2
  <2>b. y \in above(x)
    BY <1>5
  <2>c. y \notin above(y)
    BY <2>n
  <2>1. above(y) \subseteq above(x) /\ y \in above(x) /\ y \notin above(y)
    BY <2>a, <2>b, <2>c
  <2>2. Cardinality(above(y)) <= Cardinality(above(x)) /\ Cardinality(above(y)) # Cardinality(above(x))
    BY <1>1, <2>1, FS_Subset
  <2>3. Cardinality(above(x)) <= Cardinality(above(y))
    BY <1>3, <1>4
  <2>4. QED
    BY <1>1, <2>2, <2>3
<1>6. \A y \in S : x >= y
  BY <1>5
<1>7. QED
  BY <1>6 DEF Max

WalkSpec == WalkInit /\ [][WalkNext]_walkVars

WalkState == [pc : {"idle", "scan", "workflow", "instance"}, pages : 0 .. MaxPages, running : SUBSET Slot,
              group : SUBSET Slot, ended : SUBSET Slot, fallbacks : 0 .. MaxFallbacks]

(* A pass that scans has a page left.                                      *)
WalkInv ==
  /\ WalkTypeOK
  /\ walk.pc = "scan" => walk.pages < MaxPages

(* Sets of places, and the numbers they are made of.                       *)
LEMMA PlacesCount ==
  ASSUME NEW S \in SUBSET Slot
  PROVE  /\ S \subseteq Nat /\ IsFiniteSet(S)
         /\ S # {} => Min(S) \in S /\ (\A i \in S : Min(S) <= i) /\ Max(S) \in S
<1>1. S \subseteq Nat /\ IsFiniteSet(S)
  BY WalkAssumption, FS_Subset
<1>2. QED
  BY <1>1, MinIsLeast, MaxIsLargest

(* A page of a scan that is not over has an item on it, so the cursor it   *)
(* leaves is a place of the table.                                         *)
LEMMA CursorIsAPlace ==
  ASSUME WalkTypeOK
  PROVE  LastEvaluatedKey \in Slot \cup {0} /\ Page \subseteq Slot
<1>1. Rest \in SUBSET Slot /\ Page \in SUBSET Slot /\ Page \subseteq Rest
  BY DEF Rest, Page
<1>2. SUFFICES ASSUME Page # Rest PROVE Max(Page) \in Slot
  BY <1>1 DEF LastEvaluatedKey
<1>3. Rest # {} /\ Min(Rest) \in Rest /\ \A i \in Rest : Min(Rest) <= i
  BY <1>1, <1>2, PlacesCount
<1>n. Rest \subseteq Nat /\ Min(Rest) \in Nat
  BY <1>1, <1>3, PlacesCount
<1>4. {k \in Rest : k <= Min(Rest)} = {Min(Rest)}
  <2>1. SUFFICES ASSUME NEW k \in Rest, k <= Min(Rest) PROVE k = Min(Rest)
    BY <1>3, <1>n
  <2>2. k \in Nat /\ Min(Rest) <= k
    BY <1>3, <1>n
  <2>3. QED
    BY <2>1, <2>2, <1>n
<1>5. Cardinality({k \in Rest : k <= Min(Rest)}) = 1
  BY <1>4, FS_Singleton
<1>6. Min(Rest) \in Page
  BY <1>3, <1>5, WalkAssumption DEF Page
<1>7. QED
  BY <1>1, <1>6, PlacesCount

(* Nothing has been scanned.                                               *)
LEMMA WalkBegins == WalkInit => WalkInv
<1>n. MaxPages \in Nat /\ MaxFallbacks \in Nat /\ 0 \in 0 .. BackoffTicks /\ 0 \in 0 .. MaxSetbacks
  BY WalkAssumption
<1>1. NoPass \in WalkState /\ NoPass.pc = "idle"
  BY <1>n DEF NoPass, WalkState
<1>2. QED
  BY <1>1, <1>n DEF WalkInit, WalkInv, WalkTypeOK, WalkState

(* The scan's steps, and those from outside.                               *)
LEMMA ScanKeepsWalk ==
  ASSUME WalkInv,
         \/ StartPass \/ ScanPage \/ ScanFails \/ LimitPasses \/ Restart
         \/ \E i \in Slot : InstanceAppears(i) \/ InstanceEnds(i)
  PROVE  WalkInv'
<1>t. /\ table \in [Slot -> {"absent", "running", "ended"}] /\ upstream \in [Slot -> {"running", "ended"}]
      /\ cursor \in Slot \cup {0} /\ backoff \in [Slot -> 0 .. BackoffTicks] /\ limited \in BOOLEAN
      /\ walk \in WalkState /\ setbacks \in 0 .. MaxSetbacks
      /\ walk.pc = "workflow" => walk.running # {}
      /\ walk.pc = "instance" => walk.group # {}
  BY DEF WalkInv, WalkTypeOK, WalkState
<1>n. /\ NoPass \in WalkState /\ NoPass.pc = "idle" /\ NoPass.pages = 0
      /\ MaxPages \in Nat \ {0} /\ MaxSetbacks \in Nat /\ BackoffTicks \in Nat
      /\ 0 \in 0 .. BackoffTicks
  BY WalkAssumption DEF NoPass, WalkState
<1>1. CASE StartPass
  <2>1. walk' \in WalkState /\ walk'.pc = "scan" /\ walk'.pages = 0
    BY <1>1, <1>n DEF StartPass, WalkState
  <2>2. backoff' \in [Slot -> 0 .. BackoffTicks]
    BY <1>1, <1>t, <1>n DEF StartPass
  <2>3. UNCHANGED <<table, upstream, cursor, limited, setbacks>>
    BY <1>1 DEF StartPass
  <2>4. QED
    BY <2>1, <2>2, <2>3, <1>t, <1>n DEF WalkInv, WalkTypeOK, WalkState
<1>2. CASE ScanPage
  <2> DEFINE running == walk.running \cup {i \in Page : table[i] = "running"}
  <2>1. LastEvaluatedKey \in Slot \cup {0} /\ Page \subseteq Slot
    BY CursorIsAPlace DEF WalkInv
  <2>2. walk.pages + 1 \in 0 .. MaxPages /\ walk.pages \in Nat
    BY <1>2, <1>t, <1>n DEF ScanPage, WalkInv, WalkState
  <2>3. running \in SUBSET Slot
    BY <2>1, <1>t DEF WalkState
  <2>4. /\ walk' \in WalkState
        /\ walk'.pc = "workflow" => walk'.running # {}
        /\ walk'.pc # "instance"
        /\ walk'.pc = "scan" => walk'.pages < MaxPages
    BY <1>2, <1>t, <2>2, <2>3 DEF ScanPage, WalkState
  <2>5. QED
    BY <1>2, <2>1, <2>4, <1>t DEF ScanPage, WalkInv, WalkTypeOK, WalkState
<1>3. CASE ScanFails \/ Restart
  <2>1. /\ walk' = NoPass /\ setbacks' = setbacks + 1 /\ setbacks < MaxSetbacks
        /\ UNCHANGED <<table, upstream>>
        /\ (cursor' = cursor /\ backoff' = backoff /\ limited' = limited)
             \/ (cursor' = 0 /\ backoff' = [i \in Slot |-> 0] /\ limited' = FALSE)
    BY <1>3 DEF ScanFails, Restart, Setback
  <2>b. cursor' \in Slot \cup {0} /\ backoff' \in [Slot -> 0 .. BackoffTicks] /\ limited' \in BOOLEAN
    BY <2>1, <1>t, <1>n
  <2>2. setbacks' \in 0 .. MaxSetbacks
    BY <2>1, <1>t, <1>n
  <2>3. QED
    BY <2>1, <2>b, <2>2, <1>t, <1>n DEF WalkInv, WalkTypeOK, WalkState
<1>4. CASE LimitPasses
  BY <1>4, <1>t DEF LimitPasses, WalkInv, WalkTypeOK, WalkState
<1>5. ASSUME NEW i \in Slot, InstanceAppears(i) \/ InstanceEnds(i)
      PROVE  WalkInv'
  <2>1. /\ UNCHANGED <<cursor, backoff, limited, walk, setbacks>>
        /\ table' \in [Slot -> {"absent", "running", "ended"}] /\ upstream' \in [Slot -> {"running", "ended"}]
    BY <1>5, <1>t DEF InstanceAppears, InstanceEnds
  <2>2. QED
    BY <2>1, <1>t DEF WalkInv, WalkTypeOK, WalkState
<1>6. QED
  BY <1>1, <1>2, <1>3, <1>4, <1>5

(* The workflows' steps and the instances'.                                *)
LEMMA GroupKeepsWalk ==
  ASSUME WalkInv, ListInstances \/ SyncListed \/ FallbackDenied \/ FetchInstance
  PROVE  WalkInv'
<1>t. /\ table \in [Slot -> {"absent", "running", "ended"}] /\ upstream \in [Slot -> {"running", "ended"}]
      /\ cursor \in Slot \cup {0} /\ backoff \in [Slot -> 0 .. BackoffTicks] /\ limited \in BOOLEAN
      /\ walk \in WalkState /\ setbacks \in 0 .. MaxSetbacks
      /\ walk.pc = "workflow" => walk.running # {}
      /\ walk.pc = "instance" => walk.group # {}
  BY DEF WalkInv, WalkTypeOK, WalkState
<1>n. /\ NoPass \in WalkState /\ NoPass.pc = "idle"
      /\ MaxSetbacks \in Nat /\ BackoffTicks \in Nat /\ MaxFallbacks \in Nat
      /\ 0 \in 0 .. BackoffTicks /\ BackoffTicks \in 0 .. BackoffTicks
  BY WalkAssumption DEF NoPass, WalkState
<1>s. walk.running \subseteq Slot /\ walk.group \subseteq Slot /\ walk.ended \subseteq Slot
  BY <1>t DEF WalkState
<1>u. UNCHANGED <<upstream, cursor>> /\ (setbacks' = setbacks \/ (setbacks < MaxSetbacks /\ setbacks' = setbacks + 1))
  BY DEF ListInstances, SyncListed, FallbackDenied, FetchInstance, HitLimit, Setback, NoSetback
<1>v. setbacks' \in 0 .. MaxSetbacks
  BY <1>u, <1>t, <1>n
<1>1. CASE ListInstances
  <2>1. walk.running # {} /\ Min(walk.running) \in walk.running
    BY <1>1, <1>t, <1>s, PlacesCount DEF ListInstances
  <2>2. Group \subseteq Slot /\ Group # {}
    BY <2>1, <1>s DEF Group
  <2>3. UNCHANGED <<table, backoff>> /\ limited' \in BOOLEAN
    BY <1>1, <1>t DEF ListInstances, HitLimit
  <2>4. /\ walk' \in WalkState
        /\ walk'.pc # "scan"
        /\ walk'.pc = "workflow" => walk'.running # {}
        /\ walk'.pc = "instance" => walk'.group # {}
    <3>1. CASE walk' = NoPass
      BY <3>1, <1>n
    <3>2. CASE walk' = [Ungrouped(Group, "instance") EXCEPT
                          !.group = Group, !.ended = {i \in Group \cap Listed : upstream[i] = "ended"}]
      BY <3>2, <1>t, <2>2 DEF Ungrouped, WalkState
    <3>3. CASE walk' = Ungrouped(Group, AfterGroup(walk.running \ Group))
      BY <3>3, <1>t, <2>2 DEF Ungrouped, AfterGroup, WalkState
    <3>4. QED
      BY <1>1, <3>1, <3>2, <3>3 DEF ListInstances, HitLimit
  <2>5. QED
    BY <2>3, <2>4, <1>u, <1>v, <1>t DEF WalkInv, WalkTypeOK, WalkState
<1>2. ASSUME SyncListed \/ FallbackDenied \/ FetchInstance PROVE WalkInv'
  <2>1. walk.pc = "instance" /\ walk.group # {} /\ Current \in walk.group /\ Current \in Slot
    <3>1. walk.pc = "instance" /\ walk.group # {}
      BY <1>2, <1>t DEF SyncListed, FallbackDenied, FetchInstance
    <3>2. Min(walk.group) \in walk.group
      BY <3>1, <1>s, PlacesCount
    <3>3. QED
      BY <3>1, <3>2, <1>s DEF Current
  <2>2. /\ Done \in WalkState /\ Done.pc # "scan"
        /\ Done.fallbacks = walk.fallbacks
        /\ Done.pc = "workflow" => Done.running # {}
        /\ Done.pc = "instance" => Done.group # {}
    BY <2>1, <1>t DEF Done, AfterGroup, WalkState
  <2>3. ASSUME MayFetch
        PROVE  /\ Fetched \in WalkState /\ Fetched.pc = Done.pc
               /\ Fetched.running = Done.running /\ Fetched.group = Done.group
    <3>1. Done.fallbacks + 1 \in 0 .. MaxFallbacks
      BY <2>2, <2>3, <1>t, <1>n DEF MayFetch, WalkState
    <3>2. QED
      BY <2>2, <3>1 DEF Fetched, WalkState
  <2>4. /\ walk' \in WalkState /\ walk'.pc # "scan"
        /\ walk'.pc = "workflow" => walk'.running # {}
        /\ walk'.pc = "instance" => walk'.group # {}
    <3>1. CASE walk' = Done
      BY <3>1, <2>2
    <3>2. CASE walk' = NoPass
      BY <3>2, <1>n
    <3>3. CASE walk' = Fetched /\ MayFetch
      BY <3>3, <2>2, <2>3
    <3>4. QED
      BY <1>2, <3>1, <3>2, <3>3 DEF SyncListed, FallbackDenied, FetchInstance, HitLimit
  <2>b. \/ backoff' = backoff \/ backoff' = [backoff EXCEPT ![Current] = 0]
        \/ backoff' = [backoff EXCEPT ![Current] = BackoffTicks]
    BY <1>2 DEF SyncListed, FallbackDenied, FetchInstance, WithBackoff, HitLimit
  <2>l. limited' = limited \/ limited' = TRUE
    BY <1>2 DEF SyncListed, FallbackDenied, FetchInstance, HitLimit
  <2>5. backoff' \in [Slot -> 0 .. BackoffTicks] /\ limited' \in BOOLEAN
    BY <1>t, <1>n, <2>1, <2>b, <2>l
  <2>6. table' = table \/ table' = [table EXCEPT ![Current] = "ended"]
    BY <1>2 DEF SyncListed, FallbackDenied, FetchInstance, Put, HitLimit
  <2>7. table' \in [Slot -> {"absent", "running", "ended"}]
    BY <2>6, <2>1, <1>t
  <2>8. QED
    BY <2>4, <2>5, <2>7, <1>u, <1>v, <1>t DEF WalkInv, WalkTypeOK, WalkState
<1>3. QED
  BY <1>1, <1>2

(* The inductive step of the walk.                                         *)
LEMMA WalkStep == ASSUME WalkInv, [WalkNext]_walkVars PROVE WalkInv'
<1>1. CASE UNCHANGED walkVars
  BY <1>1 DEF walkVars, WalkInv, WalkTypeOK
<1>2. QED
  BY <1>1, ScanKeepsWalk, GroupKeepsWalk DEF WalkNext, Pass

(* What the walk keeps: the cursor is at a place of the table, a pass has   *)
(* a group or a workflow at hand when it goes on, and its pages and single *)
(* fetches stay within their limits.                                       *)
THEOREM WalkTypeCorrect == WalkSpec => []WalkTypeOK
<1>1. WalkInv => WalkTypeOK
  BY DEF WalkInv
<1>2. WalkInv /\ [WalkNext]_walkVars => WalkInv'
  BY WalkStep
<1>3. QED
  BY <1>1, <1>2, WalkBegins, PTL DEF WalkSpec

-----------------------------------------------------------------------------
(* The six parts together                                                  *)

(* A behaviour of the composed instance is one of every part.              *)
LEMMA SidesAreParts ==
  FairSpec => TokenSpec /\ SfSpec /\ DraftSpec /\ CapSpec /\ WalkSpec /\ CanvasSpec
<1>1. Init => TokenInit /\ SfInit /\ DraftInit /\ CapInit /\ WalkInit /\ CanvasInit
  BY DEF Init
<1>2. [Next]_vars => /\ [TokenNext]_tokenVars /\ [SfNext]_sfVars /\ [DraftNext]_draftVars
                     /\ [CapNext]_capVars /\ [WalkNext]_walkVars /\ [CanvasNext]_canvasVars
  BY DEF Next, vars, Tokens, Registration, Drafts, Capped, Sync, Canvas
<1>3. QED
  BY <1>1, <1>2, PTL DEF FairSpec, TokenSpec, SfSpec, DraftSpec, CapSpec, WalkSpec, CanvasSpec

(* The six parts, side by side, stay well-typed: what TLC checks of the    *)
(* small instance holds of any number of actors, rows, cells and faults.   *)
THEOREM PartsTypeCorrect == FairSpec => []TypeOK
<1>1. TokenTypeOK /\ SfTypeOK /\ DraftTypeOK /\ CapTypeOK /\ WalkTypeOK /\ CanvasTypeOK => TypeOK
  BY DEF TypeOK
<1>2. QED
  BY <1>1, SidesAreParts, TokenTypeCorrect, SfTypeCorrect, DraftTypeCorrect, CapTypeCorrect, WalkTypeCorrect,
     CanvasTypeCorrect, PTL
=============================================================================
