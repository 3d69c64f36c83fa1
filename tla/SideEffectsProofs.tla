-------------------------- MODULE SideEffectsProofs --------------------------
(***************************************************************************)
(* What SideEffects.tla promises, for every forest of recruiters, every    *)
(* set of records and every amount.                                        *)
(***************************************************************************)
EXTENDS SideEffects, FoldProofs

(***************************************************************************)
(* The inductive invariant.                                                *)
(*                                                                         *)
(* Recruits: whoever is in the chain was recruited, because the loop goes  *)
(*   on from somebody only to a recruiter.                                 *)
(* Walked: past the walk there is somebody in the chain.                   *)
(* Line(rank): the chain climbs, in a ranking of recruiters before         *)
(*   recruits; this is what excludes a repetition.                         *)
(* Bookkeeping: how far money has moved since the record was begun.        *)
(***************************************************************************)
Length == Len(beneficiaries)

Recruits == \A i \in 1 .. Length : recruitedBy[beneficiaries[i]] # None

Walked == stage \in {"auditing", "charging", "paying"} => Length >= 1

AuditedStages == {"charging", "paying"}

DebugStops == debug => stage \notin AuditedStages

Ranking ==
    {rank \in [Holder -> 0 .. Cardinality(Holder)] :
        \A h \in Holder : recruitedBy[h] # None => rank[recruitedBy[h]] < rank[h]}

Line(rank) ==
    /\ \A i, j \in 1 .. Length :
            i < j => rank[beneficiaries[j]] < rank[beneficiaries[i]]
    /\ stage = "walking" =>
            \A i \in 1 .. Length :
                rank[currentBeneficiary] < rank[beneficiaries[i]]

Linked ==
    /\ Length >= 1 => beneficiaries[1] = Seller[sale]
    /\ \A i \in 1 .. Length - 1 :
            recruitedBy[beneficiaries[i]] = beneficiaries[i + 1]
    /\ stage = "walking" =>
            IF Length = 0 THEN currentBeneficiary = Seller[sale]
            ELSE recruitedBy[beneficiaries[Length]] = currentBeneficiary

Charged(m) == [m EXCEPT ![Buyer[sale]] = @ - Price]

Bookkeeping ==
    /\ stage \in {"walking", "auditing", "charging", "insufficientFunds"} =>
            money = before.money /\ paid = 0
    /\ stage = "paying" /\ paid = 0 => money = Charged(before.money)
    /\ stage = "paying" /\ paid > 0 => companyPaysCommission \/ Length = 1
    /\ stage = "unknownBeneficiary" => money = Charged(before.money)

IInv ==
    /\ TypeOK
    /\ Recruits
    /\ Walked
    /\ DebugStops
    /\ \E rank \in Ranking : Line(rank)
    /\ Linked
    /\ Bookkeeping

USE SideEffectsAssumption

-----------------------------------------------------------------------------
LEMMA InitInvariant == Init => IInv
  <1> SUFFICES ASSUME Init PROVE IInv
    OBVIOUS
  <1>1. Length = 0
    BY DEF Init, Length
  <1>2. TypeOK
    <2>1. money \in [Holder -> Nat]
      BY DEF Init
    <2>2. before \in [money : [Holder -> Int], disbursed : Nat]
      BY <2>1 DEF Init
    <2>3. Seller[sale] \in Holder
      BY DEF Init
    <2>4. QED
      BY <1>1, <2>1, <2>2, <2>3 DEF Init, TypeOK, Length
  <1>3. \E rank \in Ranking : Line(rank)
    BY <1>1 DEF Init, Recruitment, Ranking, Line
  <1>4. Recruits /\ Linked
    BY <1>1 DEF Init, Recruits, Linked
  <1>5. Walked /\ DebugStops /\ Bookkeeping
    BY DEF Init, Walked, DebugStops, AuditedStages, Bookkeeping
  <1>6. QED
    BY <1>2, <1>3, <1>4, <1>5 DEF IInv

(* Beginning a record. *)
LEMMA StartRecordStep ==
    ASSUME IInv, NEW r \in due, StartRecord(r) PROVE IInv'
  <1>1. r \in Sale /\ Seller[r] \in Holder
    BY DEF IInv, TypeOK
  <1>2. Length' = 0
    BY DEF StartRecord, Length
  <1>3. TypeOK'
    BY <1>1, <1>2 DEF IInv, TypeOK, StartRecord, people, setup, Length
  <1>4. (\E rank \in Ranking : Line(rank))'
    BY <1>2 DEF IInv, StartRecord, people, Ranking, Line
  <1>5. Recruits' /\ Linked'
    BY <1>2 DEF StartRecord, Recruits, Linked
  <1>6. Walked' /\ DebugStops' /\ Bookkeeping'
    BY DEF StartRecord, Walked, DebugStops, AuditedStages, Bookkeeping
  <1>7. QED
    BY <1>3, <1>4, <1>5, <1>6 DEF IInv

(* One turn of the loop: the chain gets longer by somebody with a recruiter. *)
LEMMA WalkUpStep ==
    ASSUME IInv, WalkUp PROVE IInv'
  <1> DEFINE n == Length
             new == beneficiaries'
  <1>1. /\ stage = "walking" /\ stage' \in {"walking", "auditing"}
        /\ UNCHANGED <<recruitedBy, money, disbursed, due, sale, paid, before>>
        /\ UNCHANGED <<companyPaysCommission, companySupplied, debug>>
        /\ currentBeneficiary' = recruitedBy[currentBeneficiary]
        /\ recruitedBy[currentBeneficiary] # None
        /\ new = Append(beneficiaries, currentBeneficiary)
    BY DEF WalkUp, people, setup, Up, Pushed
  <1>2. /\ beneficiaries \in Seq(Holder) /\ currentBeneficiary \in Holder
        /\ recruitedBy \in [Holder -> Holder \cup {None}]
        /\ n \in Nat
    BY DEF IInv, TypeOK, Length
  <1>3. /\ new \in Seq(Holder)
        /\ Length' = n + 1
        /\ \A i \in 1 .. n : new[i] = beneficiaries[i]
        /\ new[n + 1] = currentBeneficiary
    BY <1>1, <1>2 DEF Length
  <1>4. currentBeneficiary' \in Holder
    BY <1>1, <1>2
  <1>5. TypeOK'
    <2>1. paid \in 0 .. Len(new)
      BY <1>2, <1>3 DEF IInv, TypeOK, Length
    <2>2. QED
      BY <1>1, <1>3, <1>4, <2>1 DEF IInv, TypeOK
  <1>6. \A i \in 1 .. n + 1 : i \in 1 .. n \/ i = n + 1
    BY <1>2
  <1>7. Recruits'
    BY <1>1, <1>2, <1>3, <1>6 DEF IInv, Recruits
  <1>8. (\E rank \in Ranking : Line(rank))'
    <2>1. PICK rank \in Ranking : Line(rank)
      BY DEF IInv
    <2>2. rank \in Ranking'
      BY <1>1 DEF Ranking
    <2>3. rank \in [Holder -> 0 .. Cardinality(Holder)]
          /\ rank[currentBeneficiary'] < rank[currentBeneficiary]
      BY <1>1, <1>2 DEF Ranking
    <2>4. \A i \in 1 .. n : rank[currentBeneficiary] < rank[beneficiaries[i]]
      BY <1>1, <2>1 DEF Line
    <2>5. \A i \in 1 .. n + 1 : /\ new[i] \in Holder
                                /\ rank[new[i]] \in Int
      <3>1. \A i \in 1 .. n + 1 : new[i] \in Holder
        <4>1. \A i \in 1 .. n : beneficiaries[i] \in Holder
          BY <1>2 DEF Length
        <4>2. QED
          BY <1>2, <1>3, <1>6, <4>1
      <3>2. \A g \in Holder : rank[g] \in Int
        BY <2>3
      <3>3. QED
        BY <3>1, <3>2
    <2>6. rank[currentBeneficiary'] \in Int
      BY <1>4, <2>3
    <2>7. \A i \in 1 .. n + 1 : rank[currentBeneficiary'] < rank[new[i]]
      <3>1. rank[currentBeneficiary'] < rank[new[n + 1]]
        BY <1>3, <2>3
      <3>2. ASSUME NEW i \in 1 .. n
            PROVE  rank[currentBeneficiary'] < rank[new[i]]
        <4>1. new[i] = beneficiaries[i] /\ i \in 1 .. n + 1
          BY <1>2, <1>3
        <4>2. rank[currentBeneficiary] < rank[new[i]] /\ rank[new[i]] \in Int
          BY <2>4, <2>5, <4>1
        <4>3. rank[currentBeneficiary] \in Int
          BY <1>2, <2>3
        <4>4. QED
          BY <2>3, <2>6, <4>2, <4>3
      <3>3. QED
        BY <1>6, <3>1, <3>2
    <2>8. ASSUME NEW i \in 1 .. n + 1, NEW j \in 1 .. n + 1, i < j
          PROVE  rank[new[j]] < rank[new[i]]
      <3>1. i \in 1 .. n
        BY <1>2, <2>8
      <3>2. CASE j \in 1 .. n
        BY <1>3, <2>1, <2>8, <3>1, <3>2 DEF Line
      <3>3. CASE j = n + 1
        BY <1>3, <2>4, <3>1, <3>3
      <3>4. QED
        BY <1>6, <3>2, <3>3
    <2>9. Line(rank)'
      BY <1>3, <2>7, <2>8 DEF Line
    <2>10. QED
      BY <2>2, <2>9
  <1>9. Linked'
    <2>1. new[1] = Seller[sale]
      <3>1. CASE n = 0
        BY <1>1, <1>3, <3>1 DEF IInv, Linked
      <3>2. CASE n >= 1
        BY <1>3, <3>2, <1>2 DEF IInv, Linked
      <3>3. QED
        BY <1>2, <3>1, <3>2
    <2>2. ASSUME NEW i \in 1 .. n
          PROVE  recruitedBy[new[i]] = new[i + 1]
      <3>1. CASE i = n
        <4>1. n # 0 /\ n \in 1 .. n
          BY <1>2, <3>1
        <4>2. recruitedBy[beneficiaries[n]] = currentBeneficiary
          BY <1>1, <4>1 DEF IInv, Linked
        <4>3. QED
          BY <1>3, <3>1, <4>1, <4>2
      <3>2. CASE i \in 1 .. n - 1
        <4>1. i + 1 \in 1 .. n
          BY <1>2, <3>2
        <4>2. recruitedBy[beneficiaries[i]] = beneficiaries[i + 1]
          BY <3>2 DEF IInv, Linked
        <4>3. QED
          BY <1>3, <4>1, <4>2
      <3>3. QED
        BY <1>2, <3>1, <3>2
    <2>3. recruitedBy[new[n + 1]] = currentBeneficiary'
      BY <1>1, <1>3
    <2>4. (n + 1) - 1 = n /\ n + 1 # 0
      BY <1>2
    <2>5. QED
      BY <1>1, <1>3, <2>1, <2>2, <2>3, <2>4 DEF Linked
  <1>10. Walked'
    BY <1>2, <1>3 DEF Walked
  <1>11. DebugStops' /\ Bookkeeping'
    BY <1>1 DEF IInv, DebugStops, AuditedStages, Bookkeeping
  <1>12. QED
    BY <1>5, <1>7, <1>8, <1>9, <1>10, <1>11 DEF IInv

(* The chain, once walked, stays what it is; so does what is said of it. *)
LEMMA ChainUntouched ==
    ASSUME IInv, UNCHANGED <<people, walk, sale>>,
           stage' # "walking",
           stage \in {"auditing", "charging", "paying"}
              \/ stage' \notin {"auditing", "charging", "paying"}
    PROVE  /\ Recruits' /\ Walked' /\ Linked'
           /\ (\E rank \in Ranking : Line(rank))'
  <1>1. Recruits' /\ Walked' /\ Linked'
    BY DEF IInv, Recruits, Walked, Linked, Length, people, walk
  <1>2. (\E rank \in Ranking : Line(rank))'
    BY DEF IInv, Ranking, Line, Length, people, walk
  <1>3. QED
    BY <1>1, <1>2

(* No chain passes the audit: its last member, too, was recruited. *)
LEMMA NeverAudited ==
    ASSUME IInv, stage = "auditing" PROVE ~Audited
  <1>1. Len(beneficiaries) \in 1 .. Length
    BY DEF IInv, TypeOK, Walked, Length
  <1>2. QED
    BY <1>1 DEF IInv, Recruits, Audited

(* The steps that follow the walk, and the ends of apply. *)
LEMMA AfterTheWalk ==
    ASSUME IInv,
           \/ Audit \/ Charge \/ InsufficientFunds \/ PaySeller
           \/ UnknownBeneficiary \/ PayCommission \/ EndRecord \/ TouchUndefined
    PROVE  IInv'
  <1> USE DEF IInv
  <1>1. /\ money \in [Holder -> Int] /\ paid \in Nat /\ Length \in Nat
        /\ beneficiaries \in Seq(Holder) /\ sale \in Sale
        /\ Buyer[sale] \in Holder
        /\ before.money \in [Holder -> Int] /\ disbursed \in Nat
        /\ SellerPayment \in Int /\ Price \in Int /\ Commission \in Nat
        /\ ToPay => paid + 1 \in 1 .. Length /\ beneficiaries[paid + 1] \in Holder
    <2>1. /\ money \in [Holder -> Int] /\ paid \in 0 .. Length /\ Length \in Nat
          /\ beneficiaries \in Seq(Holder) /\ sale \in Sale
          /\ before.money \in [Holder -> Int] /\ disbursed \in Nat
      BY DEF TypeOK, Length
    <2>2. Buyer[sale] \in Holder
      BY <2>1
    <2>3. SellerPayment \in Int /\ Price \in Int /\ Commission \in Nat
      BY DEF SellerPayment, MinOf
    <2>4. ToPay => paid + 1 \in 1 .. Length
      BY <2>1 DEF ToPay, Length
    <2>5. ToPay => beneficiaries[paid + 1] \in Holder
      BY <2>1, <2>4 DEF Length
    <2>6. QED
      BY <2>1, <2>2, <2>3, <2>4, <2>5
  <1>2. UNCHANGED <<people, walk, sale, due, before>> /\ stage' # "walking"
        /\ UNCHANGED <<companyPaysCommission, debug>>
        /\ (stage \in {"auditing", "charging", "paying"}
              \/ stage' \notin {"auditing", "charging", "paying"})
    BY DEF Audit, Charge, InsufficientFunds, PaySeller, UnknownBeneficiary,
        PayCommission, EndRecord, TouchUndefined, ToPay, people, setup
  <1>3. /\ Recruits' /\ Walked' /\ Linked'
        /\ (\E rank \in Ranking : Line(rank))'
    BY <1>2, ChainUntouched
  <1>4. TypeOK'
    <2>1. money' \in [Holder -> Int]
      <3>1. CASE PaySeller
        <4>1. PICK sum \in Int :
                money' = [money EXCEPT ![beneficiaries[1]] = @ + sum]
          BY <1>1, <3>1 DEF PaySeller
        <4>2. money[beneficiaries[1]] + sum \in Int
          BY <1>1, <3>1, <4>1 DEF PaySeller
        <4>3. QED
          BY <1>1, <4>1, <4>2
      <3>2. CASE Charge
        BY <1>1, <3>2 DEF Charge
      <3>3. CASE PayCommission
        BY <1>1, <3>3 DEF PayCommission
      <3>4. CASE ~(PaySeller \/ Charge \/ PayCommission)
        <4>1. money' = money
          BY <3>4 DEF Audit, InsufficientFunds, UnknownBeneficiary, EndRecord,
              TouchUndefined
        <4>2. QED
          BY <1>1, <4>1
      <3>5. QED
        BY <3>1, <3>2, <3>3, <3>4
    <2>2. disbursed' \in Nat
      BY <1>1 DEF Audit, Charge, InsufficientFunds, PaySeller,
          UnknownBeneficiary, PayCommission, EndRecord, TouchUndefined
    <2>3. paid' \in 0 .. Len(beneficiaries')
      <3>1. Len(beneficiaries') = Length /\ paid \in 0 .. Length
        BY <1>2 DEF TypeOK, Length, walk
      <3>2. paid' = paid \/ (ToPay /\ paid' = paid + 1)
        BY DEF Audit, Charge, InsufficientFunds, PaySeller, ToPay,
            UnknownBeneficiary, PayCommission, EndRecord, TouchUndefined
      <3>3. QED
        BY <1>1, <3>1, <3>2
    <2>4. stage' \in {"records", "walking", "auditing", "charging", "paying"}
                        \cup Ended
      BY DEF Audit, Charge, InsufficientFunds, PaySeller, TypeOK, Ended,
          UnknownBeneficiary, PayCommission, EndRecord, TouchUndefined
    <2>5. QED
      BY <1>2, <2>1, <2>2, <2>3, <2>4 DEF TypeOK, people, setup, walk
  <1>5. DebugStops'
    <2>1. CASE Audit
      BY <1>2, <2>1, NeverAudited DEF Audit, DebugStops, AuditedStages
    <2>2. CASE ~Audit
      BY <1>2, <2>2 DEF Charge, InsufficientFunds, PaySeller, UnknownBeneficiary,
          PayCommission, EndRecord, TouchUndefined, DebugStops, AuditedStages, ToPay
    <2>3. QED
      BY <2>1, <2>2
  <1>6. Bookkeeping'
    <2>1. CASE Audit
      BY <2>1 DEF Audit, Bookkeeping
    <2>2. CASE Charge
      <3>1. money = before.money /\ paid = 0
        BY <2>2 DEF Charge, Bookkeeping
      <3>2. /\ money' = Charged(money) /\ stage' = "paying"
            /\ paid' = paid /\ before' = before /\ sale' = sale
        BY <2>2 DEF Charge, Charged
      <3>3. money' = Charged(before.money)'
        BY <3>1, <3>2 DEF Charged
      <3>4. QED
        BY <3>1, <3>2, <3>3 DEF Bookkeeping
    <2>3. CASE InsufficientFunds
      BY <2>3 DEF InsufficientFunds, Bookkeeping
    <2>4. CASE PaySeller
      <3>1. /\ paid' = 1 /\ stage' = "paying"
            /\ companyPaysCommission \/ Length = 1
            /\ Length' = Length /\ UNCHANGED companyPaysCommission
        BY <1>2, <2>4 DEF PaySeller, ToPay, InMapping, Length, walk
      <3>2. QED
        BY <3>1 DEF Bookkeeping
    <2>5. CASE UnknownBeneficiary
      <3>1. ~companyPaysCommission /\ Length # 1 /\ stage = "paying"
        BY <2>5 DEF UnknownBeneficiary, InMapping, Length, ToPay
      <3>2. paid = 0
        BY <1>1, <3>1 DEF Bookkeeping
      <3>3. QED
        BY <2>5, <3>1, <3>2 DEF UnknownBeneficiary, Bookkeeping, Charged
    <2>6. CASE PayCommission
      <3>1. /\ paid' = paid + 1 /\ paid > 0
            /\ stage' \in {"paying", "undefined"}
            /\ Length' = Length /\ UNCHANGED companyPaysCommission
            /\ companyPaysCommission \/ Length = 1
        BY <1>2, <2>6 DEF PayCommission, ToPay, InMapping, Length, walk
      <3>2. paid' # 0
        BY <1>1, <3>1
      <3>3. QED
        BY <3>1, <3>2 DEF Bookkeeping
    <2>7. CASE EndRecord
      BY <2>7 DEF EndRecord, Bookkeeping
    <2>8. CASE TouchUndefined
      BY <2>8 DEF TouchUndefined, Bookkeeping
    <2>9. QED
      BY <2>1, <2>2, <2>3, <2>4, <2>5, <2>6, <2>7, <2>8
  <1>7. QED
    BY <1>3, <1>4, <1>5, <1>6

LEMMA NextInvariant == IInv /\ [Next]_vars => IInv'
  <1> SUFFICES ASSUME IInv, [Next]_vars PROVE IInv'
    OBVIOUS
  <1>1. CASE UNCHANGED vars
    BY <1>1 DEF vars, people, setup, walk, IInv, TypeOK, Recruits, Walked, DebugStops,
        Ranking, Line, Linked, Bookkeeping, Charged, Length
  <1>2. CASE Next
    BY <1>2, StartRecordStep, WalkUpStep, AfterTheWalk DEF Next
  <1>3. QED
    BY <1>1, <1>2

LEMMA Invariance == Spec => []IInv
  BY InitInvariant, NextInvariant, PTL DEF Spec

-----------------------------------------------------------------------------
(***************************************************************************)
(* All the money there is.  Until the first payment of a record it is what *)
(* it was, less the price once the buyer has been charged; from then on    *)
(* the company's formula keeps up with what the company books, and the     *)
(* chained formula has paid all it ever will.                              *)
(***************************************************************************)
Richer == Total(money) - Total(before.money)

Booked == disbursed - before.disbursed

Accounts ==
    /\ stage \in {"walking", "auditing", "charging", "paying"} /\ paid = 0 =>
            Booked = 0
    /\ companyPaysCommission /\ companySupplied
            /\ (stage \in {"records", "done"} \/ (stage = "paying" /\ paid > 0)) =>
                Richer = Booked
    /\ ~companyPaysCommission => Richer <= 0

LEMMA TotalIsInteger == ASSUME NEW m \in [Holder -> Int] PROVE Total(m) \in Int
  <1>1. \A h \in Holder : m[h] \in Int
    OBVIOUS
  <1>2. QED
    BY <1>1, SumIsInteger DEF Total

\* Whoever is paid or charged, the total changes by as much.
LEMMA TotalMoves ==
    ASSUME NEW m \in [Holder -> Int], NEW h \in Holder, NEW sum \in Int
    PROVE  Total([m EXCEPT ![h] = @ + sum]) = Total(m) + sum
  <1> DEFINE new == [m EXCEPT ![h] = @ + sum]
  <1>1. /\ new[h] - m[h] = sum
        /\ \A x \in Holder : new[x] \in Int /\ m[x] \in Int
        /\ \A x \in Holder \ {h} : new[x] = m[x]
    OBVIOUS
  <1> HIDE DEF new
  <1>2. SumFunctionOnSet(new, Holder) =
            SumFunctionOnSet(m, Holder) + (new[h] - m[h])
    BY <1>1, SumOfChanged
  <1>3. QED
    BY <1>1, <1>2 DEF Total, new

LEMMA TotalCharged ==
    ASSUME NEW m \in [Holder -> Int], NEW h \in Holder
    PROVE  Total([m EXCEPT ![h] = @ - Price]) = Total(m) - Price
  <1> DEFINE new == [m EXCEPT ![h] = @ - Price]
  <1>1. /\ new[h] - m[h] = -Price
        /\ \A x \in Holder : new[x] \in Int /\ m[x] \in Int
        /\ \A x \in Holder \ {h} : new[x] = m[x]
    OBVIOUS
  <1> HIDE DEF new
  <1>2. SumFunctionOnSet(new, Holder) =
            SumFunctionOnSet(m, Holder) + (new[h] - m[h])
    BY <1>1, SumOfChanged
  <1>3. Total(m) \in Int
    BY TotalIsInteger
  <1>4. QED
    BY <1>1, <1>2, <1>3 DEF Total, new

\* The chained formula never hands a seller more than the price.
LEMMA SellerPaymentBound == SellerPayment \in Int /\ SellerPayment <= Price
  BY DEF SellerPayment, MinOf

LEMMA AccountsInit == Init => Accounts
  <1> SUFFICES ASSUME Init PROVE Accounts
    OBVIOUS
  <1>1. IInv
    BY InitInvariant
  <1>2. Total(money) \in Int
    BY <1>1, TotalIsInteger DEF IInv, TypeOK
  <1>3. Richer = 0 /\ Booked = 0
    BY <1>2 DEF Init, Richer, Booked
  <1>4. QED
    BY <1>3 DEF Accounts

LEMMA AccountsStep == ASSUME IInv, Accounts, [Next]_vars PROVE Accounts'
  <1>1. /\ money \in [Holder -> Int] /\ before.money \in [Holder -> Int]
        /\ disbursed \in Nat /\ before.disbursed \in Nat
        /\ paid \in 0 .. Length /\ beneficiaries \in Seq(Holder)
        /\ sale \in Sale /\ Length \in Nat
    BY DEF IInv, TypeOK, Length
  <1>2. Total(money) \in Int /\ Total(before.money) \in Int
    BY <1>1, TotalIsInteger
  <1>3. CASE UNCHANGED vars
    BY <1>3 DEF Accounts, Richer, Booked, Total, vars, people, setup
  <1>4. ASSUME NEW r \in due, StartRecord(r) PROVE Accounts'
    <2>1. before' = [money |-> money, disbursed |-> disbursed]
          /\ money' = money /\ disbursed' = disbursed /\ stage' = "walking"
      BY <1>4 DEF StartRecord
    <2>2. Richer' = 0 /\ Booked' = 0
      BY <1>1, <1>2, <2>1 DEF Richer, Booked, Total
    <2>3. QED
      BY <2>1, <2>2 DEF Accounts
  <1>5. CASE Charge
    <2>1. money = before.money /\ paid = 0
      BY <1>5 DEF IInv, Bookkeeping, Charge
    <2>2. /\ money' = [money EXCEPT ![Buyer[sale]] = @ - Price]
          /\ Buyer[sale] \in Holder
      BY <1>1, <1>5 DEF Charge
    <2>3. Total(money') = Total(money) - Price
      BY <1>1, <2>2, TotalCharged
    <2>4. before' = before /\ disbursed' = disbursed /\ paid' = paid
          /\ stage = "charging" /\ stage' = "paying"
          /\ UNCHANGED <<companyPaysCommission, companySupplied>>
      BY <1>5 DEF Charge, people, setup
    <2>5. Richer' <= 0 /\ Booked' = Booked
      BY <1>2, <2>1, <2>3, <2>4 DEF Richer, Booked, Total
    <2>6. QED
      BY <2>1, <2>4, <2>5 DEF Accounts
  <1>6. CASE PaySeller
    <2> DEFINE sum == IF companyPaysCommission THEN Price ELSE SellerPayment
    <2>1. stage = "paying" /\ paid = 0 /\ Length >= 1
      BY <1>1, <1>6 DEF PaySeller, ToPay, Length
    <2>2. money = Charged(before.money)
      BY <2>1 DEF IInv, Bookkeeping
    <2>3. Buyer[sale] \in Holder
      BY <1>1
    <2>4. Total(money) = Total(before.money) - Price
      BY <1>1, <2>2, <2>3, TotalCharged DEF Charged
    <2>5. sum \in Int /\ sum <= Price /\ (companyPaysCommission => sum = Price)
      BY SellerPaymentBound
    <2>6. money' = [money EXCEPT ![beneficiaries[1]] = @ + sum]
      BY <1>6 DEF PaySeller
    <2> HIDE DEF sum
    <2>7. beneficiaries[1] \in Holder
      BY <1>1, <2>1 DEF Length
    <2>8. Total(money') = Total(money) + sum
      BY <1>1, <2>5, <2>6, <2>7, TotalMoves
    <2>9. /\ before' = before /\ disbursed' = disbursed
          /\ paid' = 1 /\ stage' = "paying"
          /\ UNCHANGED <<companyPaysCommission, companySupplied>>
      BY <1>6, <2>1 DEF PaySeller, people, setup
    <2>10. /\ Richer' <= 0 /\ Booked' = 0
           /\ companyPaysCommission => Richer' = 0
      BY <1>1, <1>2, <2>1, <2>4, <2>5, <2>8, <2>9
      DEF Accounts, Richer, Booked, Total
    <2>11. QED
      BY <2>9, <2>10 DEF Accounts
  <1>7. CASE PayCommission
    <2>1. /\ stage = "paying" /\ paid > 0 /\ paid + 1 \in 1 .. Length
          /\ InMapping(paid + 1)
      BY <1>1, <1>7 DEF PayCommission, ToPay, Length
    <2>2. companyPaysCommission
      <3>1. Length # 1
        BY <1>1, <2>1
      <3>2. QED
        BY <2>1, <3>1, Zenon DEF InMapping, Length
    <2>3. /\ money' = [money EXCEPT ![beneficiaries[paid + 1]] = @ + Commission]
          /\ beneficiaries[paid + 1] \in Holder
      BY <1>1, <1>7, <2>1 DEF PayCommission, Length
    <2>4. Total(money') = Total(money) + Commission
      <3>1. Commission \in Int
        OBVIOUS
      <3>2. QED
        BY ONLY <1>1, <2>3, <3>1, TotalMoves
    <2>5. /\ before' = before /\ paid' = paid + 1
          /\ UNCHANGED <<companyPaysCommission, companySupplied>>
      BY <1>7 DEF PayCommission, people, setup
    <2>6. CASE companySupplied /\ disbursed' = disbursed + Commission
      <3>1. Richer' = Richer + Commission /\ Booked' = Booked + Commission
        BY <1>1, <1>2, <2>4, <2>5, <2>6 DEF Richer, Booked, Total
      <3>2. Richer = Booked /\ paid' # 0
        BY <1>1, <2>1, <2>2, <2>5, <2>6 DEF Accounts
      <3>3. QED
        BY <2>2, <2>5, <3>1, <3>2 DEF Accounts
    <2>7. CASE ~companySupplied
      <3>1. paid' # 0
        BY <1>1, <2>1, <2>5
      <3>2. QED
        BY <2>2, <2>5, <2>7, <3>1 DEF Accounts
    <2>8. QED
      BY <1>7, <2>6, <2>7 DEF PayCommission
  <1>8. CASE EndRecord
    <2>1. paid > 0
      BY <1>1, <1>8 DEF EndRecord, IInv, Walked, Length
    <2>2. Richer' = Richer /\ stage = "paying" /\ stage' \in {"records", "done"}
          /\ Booked' = Booked
          /\ UNCHANGED <<companyPaysCommission, companySupplied>>
      BY <1>8 DEF EndRecord, Richer, Booked, Total, people, setup
    <2>3. QED
      BY <2>1, <2>2 DEF Accounts
  <1>9. CASE WalkUp \/ Audit
    <2>1. /\ stage \in {"walking", "auditing"}
          /\ stage' \in {"walking", "auditing", "charging", "aborted"}
          /\ paid' = paid /\ Richer' = Richer /\ Booked' = Booked
          /\ UNCHANGED <<companyPaysCommission, companySupplied>>
      BY <1>9 DEF WalkUp, Audit, Richer, Booked, Total, people, setup
    <2>2. QED
      BY <2>1 DEF Accounts
  <1>10. CASE InsufficientFunds \/ UnknownBeneficiary \/ TouchUndefined
    <2>1. /\ stage' \in {"insufficientFunds", "unknownBeneficiary", "undefined"}
          /\ Richer' = Richer
          /\ UNCHANGED <<companyPaysCommission, companySupplied>>
      BY <1>10 DEF InsufficientFunds, UnknownBeneficiary, TouchUndefined,
          Richer, Total, people, setup
    <2>2. QED
      BY <2>1 DEF Accounts
  <1>11. QED
    BY <1>3, <1>4, <1>5, <1>6, <1>7, <1>8, <1>9, <1>10 DEF Next

-----------------------------------------------------------------------------
(* Type correctness of apply. *)
THEOREM TypeCorrect == Spec => []TypeOK
  <1>1. IInv => TypeOK
    BY DEF IInv
  <1>2. QED
    BY <1>1, Invariance, PTL

(* Every chain that is paid is a line of recruiters without repetition. *)
THEOREM LinesArePaid == Spec => []ChainIsALine
  <1>1. IInv => ChainIsALine
    <2> SUFFICES ASSUME IInv, stage \in {"charging", "paying"}
                 PROVE  /\ beneficiaries[1] = Seller[sale]
                        /\ \A i \in 1 .. Len(beneficiaries) - 1 :
                              recruitedBy[beneficiaries[i]] = beneficiaries[i + 1]
                        /\ \A i, j \in 1 .. Len(beneficiaries) :
                              beneficiaries[i] = beneficiaries[j] => i = j
      BY DEF ChainIsALine
    <2>1. Length >= 1
      BY DEF IInv, Walked
    <2>2. PICK rank \in Ranking : Line(rank)
      BY DEF IInv
    <2>3. beneficiaries \in Seq(Holder) /\ Length \in Nat
      BY DEF IInv, TypeOK, Length
    <2>4. \A i \in 1 .. Length : rank[beneficiaries[i]] \in Int
      BY <2>2, <2>3 DEF Ranking, Length
    <2>5. \A i, j \in 1 .. Length : i < j => beneficiaries[i] # beneficiaries[j]
      BY <2>2, <2>4 DEF Line
    <2>6. \A i, j \in 1 .. Length : beneficiaries[i] = beneficiaries[j] => i = j
      BY <2>3, <2>5
    <2>7. QED
      BY <2>1, <2>6 DEF IInv, Linked, Length
  <1>2. QED
    BY <1>1, Invariance, PTL

(* An exception never leaves a record half paid out. *)
THEOREM ExceptionsComeFirst == Spec => []ExceptionBeforePayment
  <1>1. IInv => ExceptionBeforePayment
    BY DEF IInv, TypeOK, Bookkeeping, Charged, ExceptionBeforePayment
  <1>2. QED
    BY <1>1, Invariance, PTL

(* No money appears or gets lost: what the distributors and the buyer have *)
(* gained by a record is what the company has booked, and the chained      *)
(* formula gives away no more than the price, wherever it is stopped.      *)
THEOREM NoMoneyFromNowhere == Spec => []MoneyAccounted
  <1>1. IInv /\ Accounts => MoneyAccounted
    <2> SUFFICES ASSUME IInv, Accounts PROVE MoneyAccounted
      OBVIOUS
    <2>1. Total(money) \in Int /\ Total(before.money) \in Int
      BY TotalIsInteger DEF IInv, TypeOK
    <2>2. Richer <= 0 => Total(money) <= Total(before.money)
      BY <2>1 DEF Richer
    <2>3. ASSUME companyPaysCommission, companySupplied,
                 stage \in {"records", "done"}
          PROVE  Richer = Booked
      BY <2>3, Zenon DEF Accounts
    <2>4. ~companyPaysCommission => Total(money) <= Total(before.money)
      BY <2>2, Zenon DEF Accounts
    <2>5. QED
      BY <2>3, <2>4, Zenon DEF MoneyAccounted, Richer, Booked
  <1>2. IInv /\ Accounts /\ [Next]_vars => Accounts'
    BY AccountsStep
  <1>3. QED
    BY <1>1, <1>2, Invariance, AccountsInit, PTL DEF Spec

(* Nobody at the head of a line of recruiters ever gains by apply. *)
THEOREM NothingForTheTop == Spec => TopRecruiterNeverPaid
  <1>1. IInv /\ [Next]_vars =>
            [\A h \in Holder : recruitedBy[h] = None => money'[h] <= money[h]]_vars
    <2> SUFFICES ASSUME IInv, Next, NEW h \in Holder, recruitedBy[h] = None
                 PROVE  money'[h] <= money[h]
      OBVIOUS
    <2>1. money \in [Holder -> Int] /\ Price \in Nat
      BY DEF IInv, TypeOK
    <2>2. ASSUME ToPay PROVE h # beneficiaries[paid + 1]
      <3>1. paid + 1 \in 1 .. Length
        BY <2>2 DEF IInv, TypeOK, ToPay, Length
      <3>2. QED
        BY <3>1 DEF IInv, Recruits
    <2>3. CASE PaySeller
      <3>1. h # beneficiaries[1]
        BY <2>2, <2>3 DEF PaySeller
      <3>2. QED
        BY <2>1, <2>3, <3>1 DEF PaySeller
    <2>4. CASE PayCommission
      BY <2>1, <2>2, <2>4 DEF PayCommission
    <2>5. CASE Charge
      <3>1. money' = [money EXCEPT ![Buyer[sale]] = @ - Price]
        BY <2>5 DEF Charge
      <3>2. money'[h] = money[h] \/ money'[h] = money[h] - Price
        BY <2>1, <3>1
      <3>3. QED
        BY <2>1, <3>2
    <2>6. CASE ~(PaySeller \/ PayCommission \/ Charge)
      BY <2>1, <2>6 DEF Next, StartRecord, WalkUp, Audit, InsufficientFunds,
          UnknownBeneficiary, EndRecord, TouchUndefined
    <2>7. QED
      BY <2>3, <2>4, <2>5, <2>6
  <1>2. QED
    BY <1>1, Invariance, PTL DEF Spec, TopRecruiterNeverPaid

(* A Debug build never gets as far as moving money. *)
THEOREM NothingInDebug == Spec => DebugMovesNothing
  <1>1. IInv /\ [Next]_vars =>
            [debug => UNCHANGED <<money, disbursed>>]_vars
    BY DEF IInv, DebugStops, AuditedStages, Next, StartRecord, WalkUp, Audit,
        Charge, InsufficientFunds, PaySeller, UnknownBeneficiary, PayCommission,
        EndRecord, TouchUndefined, ToPay, vars
  <1>2. QED
    BY <1>1, Invariance, PTL DEF Spec, DebugMovesNothing

-----------------------------------------------------------------------------
(***************************************************************************)
(* The steps that are left.  Somebody whose recruiters go on for rank more *)
(* people has rank turns of the loop left, so that no line is longer than  *)
(* there are people.                                                       *)
(***************************************************************************)
Everybody == Cardinality(Holder)

RoomAbove ==
    /\ Length <= Everybody
    /\ stage = "walking" =>
            \E rank \in Ranking : rank[currentBeneficiary] + Length <= Everybody

LEMMA CountsAreNumbers ==
    ASSUME IInv
    PROVE  /\ Everybody \in Nat /\ StepsPerRecord = 2 * Everybody + 5
           /\ IsFiniteSet(due) /\ Cardinality(due) \in Nat
           /\ Length \in Nat /\ paid \in 0 .. Length
  <1>1. IsFiniteSet(due)
    BY FS_Subset DEF IInv, TypeOK
  <1>2. QED
    BY <1>1, FS_CardinalityType DEF IInv, TypeOK, Length, Everybody, StepsPerRecord

LEMMA RoomAboveInit == Init => RoomAbove
  <1> SUFFICES ASSUME Init PROVE RoomAbove
    OBVIOUS
  <1>1. Length = 0 /\ stage # "walking"
    BY DEF Init, Length
  <1>2. Everybody \in Nat
    BY FS_CardinalityType DEF Everybody
  <1>3. QED
    BY <1>1, <1>2 DEF RoomAbove

LEMMA RoomAboveStep == ASSUME IInv, RoomAbove, [Next]_vars PROVE RoomAbove'
  <1>1. Everybody \in Nat /\ Length \in Nat /\ Everybody' = Everybody
    BY CountsAreNumbers DEF Everybody
  <1>2. UNCHANGED recruitedBy /\ Ranking' = Ranking
    BY DEF Next, vars, people, setup, StartRecord, WalkUp, Audit, Charge,
        InsufficientFunds, PaySeller, UnknownBeneficiary, PayCommission,
        EndRecord, TouchUndefined, Ranking
  <1>3. ASSUME NEW r \in due, StartRecord(r) PROVE RoomAbove'
    <2>1. Length' = 0 /\ currentBeneficiary' \in Holder
      BY <1>3 DEF StartRecord, Length, IInv, TypeOK
    <2>2. PICK rank \in Ranking : TRUE
      BY DEF IInv
    <2>3. rank[currentBeneficiary'] \in 0 .. Everybody
      BY <2>1, <2>2 DEF Ranking, Everybody
    <2>4. QED
      BY <1>1, <1>2, <2>1, <2>3 DEF RoomAbove
  <1>4. CASE WalkUp
    <2>1. /\ stage = "walking" /\ Length' = Length + 1
          /\ recruitedBy[currentBeneficiary] # None
          /\ currentBeneficiary' = recruitedBy[currentBeneficiary]
          /\ currentBeneficiary \in Holder
          /\ recruitedBy \in [Holder -> Holder \cup {None}]
      BY <1>4 DEF WalkUp, Up, Pushed, IInv, TypeOK, Length
    <2>2. PICK rank \in Ranking : rank[currentBeneficiary] + Length <= Everybody
      BY <2>1 DEF RoomAbove
    <2>3. /\ rank[currentBeneficiary'] \in 0 .. Everybody
          /\ rank[currentBeneficiary] \in 0 .. Everybody
          /\ rank[currentBeneficiary'] < rank[currentBeneficiary]
      BY <2>1, <2>2 DEF Ranking, Everybody
    <2>4. Length' <= Everybody
          /\ rank[currentBeneficiary'] + Length' <= Everybody
      BY <1>1, <2>1, <2>2, <2>3
    <2>5. QED
      BY <1>1, <1>2, <2>2, <2>4 DEF RoomAbove
  <1>5. CASE ~(WalkUp \/ (\E r \in due : StartRecord(r)))
    <2>1. UNCHANGED <<beneficiaries, currentBeneficiary>>
          /\ (stage' = "walking" => stage = "walking")
      BY <1>5 DEF Next, vars, walk, Audit, Charge, InsufficientFunds, PaySeller,
          UnknownBeneficiary, PayCommission, EndRecord, TouchUndefined
    <2>2. QED
      BY <1>1, <1>2, <2>1 DEF RoomAbove, Length
  <1>6. QED
    BY <1>3, <1>4, <1>5

LEMMA StepsAreNumbered == ASSUME IInv, RoomAbove PROVE StepsLeft \in Nat
  <1> DEFINE records == Cardinality(due) * StepsPerRecord
  <1>1. StepsPerRecord \in Nat
    BY CountsAreNumbers
  <1>2. records \in Nat
    BY <1>1, CountsAreNumbers, OneFactorLess
  <1>3. LeftOfTheRecord \in Nat
    <2>1. LeftOfTheRecord \in {2 * Everybody + 5 - 1 - Length, Length + 3, Length + 2,
                               Length - paid + 1, 0}
      BY CountsAreNumbers DEF LeftOfTheRecord, Length
    <2>2. Length <= Everybody
      BY DEF RoomAbove
    <2>3. QED
      BY <2>1, <2>2, CountsAreNumbers
  <1>4. StepsLeft = records + LeftOfTheRecord
    BY DEF StepsLeft
  <1> HIDE DEF records
  <1>5. QED
    BY <1>2, <1>3, <1>4

LEMMA StepCounts ==
    ASSUME IInv, RoomAbove, Next, RoomAbove' PROVE StepsLeft' < StepsLeft
  <1> DEFINE records == Cardinality(due) * StepsPerRecord
  <1>1. /\ Everybody \in Nat /\ StepsPerRecord = 2 * Everybody + 5
        /\ IsFiniteSet(due) /\ Cardinality(due) \in Nat
        /\ Length \in Nat /\ paid \in 0 .. Length /\ Length <= Everybody
        /\ Length' <= Everybody /\ StepsPerRecord' = StepsPerRecord
    <2>1. Everybody' = Everybody /\ StepsPerRecord' = StepsPerRecord
      BY DEF Everybody, StepsPerRecord
    <2>2. QED
      BY <2>1, CountsAreNumbers DEF RoomAbove
  <1>2. records \in Nat
    <2>1. StepsPerRecord \in Nat
      BY <1>1
    <2>2. QED
      BY <1>1, <2>1, OneFactorLess
  <1>3. /\ StepsLeft = records + LeftOfTheRecord
        /\ StepsLeft' = records' + LeftOfTheRecord'
    BY DEF StepsLeft
  <1>4. ASSUME NEW r \in due, StartRecord(r) PROVE StepsLeft' < StepsLeft
    <2>1. /\ stage = "records" /\ stage' = "walking" /\ due' = due \ {r}
          /\ Length' = 0
      BY <1>4 DEF StartRecord, Length
    <2>2. Cardinality(due') = Cardinality(due) - 1
      BY <1>1, <2>1, FS_RemoveElement
    <2>3. records' = records - StepsPerRecord
      BY <1>1, <2>2, OneFactorLess
    <2>4. LeftOfTheRecord = 0 /\ LeftOfTheRecord' = StepsPerRecord - 1 - 0
      BY <1>1, <2>1 DEF LeftOfTheRecord, Length
    <2> HIDE DEF records
    <2>5. QED
      BY <1>1, <1>2, <1>3, <2>3, <2>4
  <1>5. ASSUME UNCHANGED due, LeftOfTheRecord \in Int, LeftOfTheRecord' \in Int,
               LeftOfTheRecord' < LeftOfTheRecord
        PROVE  StepsLeft' < StepsLeft
    <2>1. records' = records
      BY <1>1, <1>5
    <2> HIDE DEF records
    <2>2. StepsLeft' = records + LeftOfTheRecord'
      BY <1>3, <2>1
    <2>3. LeftOfTheRecord' < LeftOfTheRecord
          /\ LeftOfTheRecord \in Int /\ LeftOfTheRecord' \in Int
      BY <1>5
    <2>4. StepsLeft = records + LeftOfTheRecord
      BY <1>3
    <2>5. \A r \in Nat : \A a, b \in Int : a < b => r + a < r + b
      OBVIOUS
    <2>6. records + LeftOfTheRecord' < records + LeftOfTheRecord
      BY <1>2, <2>3, <2>5
    <2>7. QED
      BY <2>2, <2>4, <2>6
  <1>6. CASE WalkUp
    <2>1. /\ stage = "walking" /\ stage' \in {"walking", "auditing"}
          /\ UNCHANGED due /\ Length' = Length + 1
      BY <1>6 DEF WalkUp, Pushed, IInv, TypeOK, Length
    <2>2. /\ LeftOfTheRecord = StepsPerRecord - 1 - Length
          /\ \/ LeftOfTheRecord' = StepsPerRecord - 1 - (Length + 1)
             \/ LeftOfTheRecord' = (Length + 1) + 3
      BY <1>1, <2>1 DEF LeftOfTheRecord, Length
    <2>3. Length + 1 <= Everybody
      BY <1>1, <2>1
    <2>4. /\ LeftOfTheRecord \in Int /\ LeftOfTheRecord' \in Int
          /\ LeftOfTheRecord' < LeftOfTheRecord
      BY <1>1, <2>2, <2>3
    <2>5. QED
      BY <1>5, <2>1, <2>4
  <1>7. CASE PaySeller \/ PayCommission
    <2>1. /\ stage = "paying" /\ stage' \in {"paying", "undefined"}
          /\ paid' = paid + 1 /\ paid < Length /\ Length' = Length /\ UNCHANGED due
      BY <1>1, <1>7 DEF PaySeller, PayCommission, ToPay, walk, Length
    <2>2. /\ LeftOfTheRecord = Length - paid + 1
          /\ LeftOfTheRecord' \in {Length - (paid + 1) + 1, 0}
      BY <2>1 DEF LeftOfTheRecord, Length
    <2>3. /\ LeftOfTheRecord \in Int /\ LeftOfTheRecord' \in Int
          /\ LeftOfTheRecord' < LeftOfTheRecord
      BY <1>1, <2>1, <2>2
    <2>4. QED
      BY <1>5, <2>1, <2>3
  <1>8. CASE ~(WalkUp \/ PaySeller \/ PayCommission \/ \E r \in due : StartRecord(r))
    <2>1. /\ \/ stage = "walking" /\ stage' = "undefined"
             \/ stage = "auditing" /\ stage' \in {"aborted", "charging"}
             \/ stage = "charging" /\ stage' \in {"paying", "insufficientFunds", "undefined"}
             \/ stage = "paying" /\ stage' \in {"unknownBeneficiary", "done", "records"}
          /\ UNCHANGED due /\ Length' = Length /\ paid' = paid
      BY <1>8 DEF Next, Audit, Charge, InsufficientFunds, UnknownBeneficiary,
          EndRecord, TouchUndefined, ToPay, walk, Length
    <2>2. /\ stage = "walking" => LeftOfTheRecord = StepsPerRecord - 1 - Length
          /\ stage = "auditing" => LeftOfTheRecord = Length + 3
          /\ stage = "charging" => LeftOfTheRecord = Length + 2
          /\ stage = "paying" => LeftOfTheRecord = Length - paid + 1
      BY DEF LeftOfTheRecord, Length
    <2>3. /\ stage' = "charging" => LeftOfTheRecord' = Length + 2
          /\ stage' = "paying" => LeftOfTheRecord' = Length - paid + 1
          /\ stage' \notin {"walking", "auditing", "charging", "paying"}
                => LeftOfTheRecord' = 0
      BY <2>1 DEF LeftOfTheRecord, Length
    <2>4. /\ LeftOfTheRecord \in Int /\ LeftOfTheRecord' \in Int
          /\ LeftOfTheRecord' < LeftOfTheRecord
      BY <1>1, <2>1, <2>2, <2>3
    <2>5. QED
      BY <1>5, <2>1, <2>4
  <1>9. QED
    BY <1>4, <1>6, <1>7, <1>8

(* apply takes no more steps than StepsLeft counts at its beginning, however *)
(* the recruiters are related and whatever goes wrong: what is left of it is *)
(* a natural number that every step makes smaller.                           *)
THEOREM ApplyIsFinite == Spec => [](StepsLeft \in Nat) /\ EveryStepCounts
  <1>1. Init => IInv /\ RoomAbove
    BY InitInvariant, RoomAboveInit
  <1>2. IInv /\ RoomAbove /\ [Next]_vars => RoomAbove'
    BY RoomAboveStep
  <1>3. IInv /\ RoomAbove => StepsLeft \in Nat
    BY StepsAreNumbered
  <1>4. IInv /\ RoomAbove /\ RoomAbove' /\ [Next]_vars => [StepsLeft' < StepsLeft]_vars
    BY StepCounts
  <1>5. QED
    BY <1>1, <1>2, <1>3, <1>4, Invariance, PTL DEF Spec, EveryStepCounts
=============================================================================
