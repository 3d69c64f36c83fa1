----------------------------- MODULE SideEffects -----------------------------
(***************************************************************************)
(* SalesSideEffects::apply: after the sales of a tick, each Sale record is *)
(* paid out a second time, up the line of recruiters.  For each record the *)
(* beneficiary chain is walked, audited, and then the buyer is charged and *)
(* the chain is paid, by the company (CompanyCommission) or out of the     *)
(* price (ChainedPercentWithGuarantee).                                    *)
(*                                                                         *)
(* One thread, but the steps of one record can fail between each other: an *)
(* exception leaves apply with whatever has been moved so far.  "aborted"  *)
(* is a failed assert, "undefined" is undefined behaviour.                 *)
(*                                                                         *)
(* Money is counted in a unit small enough for every amount to be an       *)
(* integer; One is the amount the code writes as 1.0.                      *)
(***************************************************************************)
EXTENDS Integers, Sequences, FiniteSets, FiniteSetsExt

CONSTANTS
    Holder, None,
    Sale, Seller, Buyer,     \* the Sale records and their parties
    StartMoney,
    Price, WholesaleCost,    \* soldFor and wholesalePrice
    One,                     \* 1.0 in units of money
    Commission               \* downstreamPercent * soldFor

ASSUME SideEffectsAssumption ==
    /\ None \notin Holder
    /\ IsFiniteSet(Holder)
    /\ IsFiniteSet(Sale)
    /\ Seller \in [Sale -> Holder]
    /\ Buyer \in [Sale -> Holder]
    /\ \A r \in Sale : Seller[r] # Buyer[r]
    /\ StartMoney \subseteq Nat
    /\ {Price, WholesaleCost, One, Commission} \subseteq Nat

VARIABLES
    companyPaysCommission,  \* which of the two formulas
    companySupplied,     \* whether the company pointer is not null
    debug,               \* whether assertions are compiled in
    recruitedBy,         \* Distributor::recruitedBy, None if null
    money,
    disbursed,           \* sum of Company::disbursements
    stage,               \* where apply is, or how it ended
    due,                 \* the records not looked at yet
    sale,                \* the record being paid out
    beneficiaries,       \* the chain so far
    currentBeneficiary,  \* of getBeneficiaryChain
    paid,                \* how many of the chain effectTransfers has paid
    before               \* money and disbursed when the record was begun

setup == <<companyPaysCommission, companySupplied, debug>>
people == <<recruitedBy, setup>>
walk == <<beneficiaries, currentBeneficiary>>
vars == <<people, money, disbursed, stage, due, sale, walk, paid, before>>

Ended == {"done", "insufficientFunds", "unknownBeneficiary", "aborted",
          "undefined"}

\* Recruiters were distributors before their recruits, and a buyer is a
\* consumer: it neither has nor is a recruiter.
Recruitment(recruiter) ==
    /\ \E rank \in [Holder -> 0 .. Cardinality(Holder)] :
            \A h \in Holder :
                recruiter[h] # None => rank[recruiter[h]] < rank[h]
    /\ \A r \in Sale : /\ recruiter[Buyer[r]] = None
                       /\ \A h \in Holder : recruiter[h] # Buyer[r]

Init ==
    /\ companyPaysCommission \in BOOLEAN
    /\ companySupplied \in BOOLEAN
    /\ debug \in BOOLEAN
    /\ recruitedBy \in [Holder -> Holder \cup {None}]
    /\ Recruitment(recruitedBy)
    /\ money \in [Holder -> StartMoney]
    /\ disbursed = 0
    /\ stage = "records"
    /\ due = Sale
    /\ sale \in Sale                       \* not read before a record begins
    /\ beneficiaries = <<>>
    /\ currentBeneficiary = Seller[sale]
    /\ paid = 0
    /\ before = [money |-> money, disbursed |-> disbursed]

-----------------------------------------------------------------------------
StartRecord(r) ==
    /\ stage = "records"
    /\ due' = due \ {r}
    /\ sale' = r
    /\ beneficiaries' = <<>>
    /\ currentBeneficiary' = Seller[r]
    /\ paid' = 0
    /\ stage' = "walking"
    /\ before' = [money |-> money, disbursed |-> disbursed]
    /\ UNCHANGED <<people, money, disbursed>>

Up == recruitedBy[currentBeneficiary]

\* Mutant: the head of the line is pushed with its recruit.
PushedToTheTop ==
    IF recruitedBy[Up] = None THEN beneficiaries \o <<currentBeneficiary, Up>>
                              ELSE Append(beneficiaries, currentBeneficiary)

\* Mutant: the chain begins with the seller's recruiter.
PushedNext == Append(beneficiaries, Up)

Pushed == Append(beneficiaries, currentBeneficiary)

\* One turn of the do loop: its condition asks the next beneficiary, not the
\* one just pushed, whether it was recruited.
WalkUp ==
    /\ stage = "walking"
    /\ Up # None
    /\ beneficiaries' = Pushed
    /\ currentBeneficiary' = Up
    /\ stage' = IF recruitedBy[Up] # None THEN "walking" ELSE "auditing"
    /\ UNCHANGED <<people, money, disbursed, due, sale, paid, before>>

\* auditBeneficiaryChain: every link, and the end of the chain.
Audited ==
    LET last == Len(beneficiaries) IN
    /\ \A i \in 1 .. last - 1 :
            recruitedBy[beneficiaries[i]] = beneficiaries[i + 1]
    /\ recruitedBy[beneficiaries[last]] = None

\* In Debug the chained formula also insists on Price > WholesaleCost, once
\* the chain has been audited.
Audit ==
    /\ stage = "auditing"
    /\ stage' = IF debug /\ ~Audited THEN "aborted" ELSE "charging"
    /\ UNCHANGED <<people, money, disbursed, due, sale, walk, paid, before>>

Charge ==
    /\ stage = "charging"
    /\ money[Buyer[sale]] >= Price
    /\ money' = [money EXCEPT ![Buyer[sale]] = @ - Price]
    /\ stage' = "paying"
    /\ UNCHANGED <<people, disbursed, due, sale, walk, paid, before>>

InsufficientFunds ==
    /\ stage = "charging"
    /\ money[Buyer[sale]] < Price
    /\ stage' = "insufficientFunds"
    /\ UNCHANGED <<people, money, disbursed, due, sale, walk, paid, before>>

MinOf(x, y) == IF x <= y THEN x ELSE y

\* What the chained formula has for a seller without upstream distributors.
\* With them, it has nothing for anybody: what there is to divide is a share
\* of the remainder, which is never positive.
SellerPayment ==
    MinOf(One, Price - WholesaleCost) + MinOf(0, Price - WholesaleCost)

\* Mutant: the seller is always in the mapping.
SellerInMapping(i) == companyPaysCommission \/ i = 1

InMapping(i) == companyPaysCommission \/ Len(beneficiaries) = 1

ToPay == stage = "paying" /\ paid < Len(beneficiaries)

PaySeller ==
    /\ ToPay
    /\ paid = 0
    /\ InMapping(1)
    /\ money' = [money EXCEPT ![beneficiaries[1]] =
                    @ + IF companyPaysCommission THEN Price ELSE SellerPayment]
    /\ paid' = 1
    /\ UNCHANGED <<people, disbursed, stage, due, sale, walk, before>>

UnknownBeneficiary ==
    /\ ToPay
    /\ ~InMapping(paid + 1)
    /\ stage' = "unknownBeneficiary"
    /\ UNCHANGED <<people, money, disbursed, due, sale, walk, paid, before>>

\* Mutant: the company does not book what it pays.
PayUnbooked ==
    /\ ToPay
    /\ paid > 0
    /\ money' = [money EXCEPT ![beneficiaries[paid + 1]] = @ + Commission]
    /\ paid' = paid + 1
    /\ UNCHANGED <<people, disbursed, stage, due, sale, walk, before>>

\* Mutant: two steps of the iterator at once.
PayEveryOther ==
    /\ ToPay
    /\ paid > 0
    /\ money' = [money EXCEPT ![beneficiaries[paid + 1]] = @ + Commission]
    /\ disbursed' = disbursed + Commission
    /\ paid' = paid + 2
    /\ UNCHANGED <<people, stage, due, sale, walk, before>>

\* The distributor has the money before the company is asked for it.
PayCommission ==
    /\ ToPay
    /\ paid > 0
    /\ InMapping(paid + 1)
    /\ money' = [money EXCEPT ![beneficiaries[paid + 1]] = @ + Commission]
    /\ paid' = paid + 1
    /\ \/ companySupplied /\ disbursed' = disbursed + Commission /\ UNCHANGED stage
       \/ ~companySupplied /\ stage' = "undefined" /\ UNCHANGED disbursed
    /\ UNCHANGED <<people, due, sale, walk, before>>

\* Mutant: the end of the records is not noticed.
EndRecordUnnoticed ==
    /\ stage = "paying"
    /\ paid = Len(beneficiaries)
    /\ stage' = "records"
    /\ UNCHANGED <<people, money, disbursed, due, sale, walk, paid, before>>

EndRecord ==
    /\ stage = "paying"
    /\ paid = Len(beneficiaries)
    /\ stage' = IF due = {} THEN "done" ELSE "records"
    /\ UNCHANGED <<people, money, disbursed, due, sale, walk, paid, before>>

\* A null recruiter is asked for its own.
TouchUndefined ==
    /\ stage = "walking"
    /\ Up = None
    /\ stage' = "undefined"
    /\ UNCHANGED <<people, money, disbursed, due, sale, walk, paid, before>>

Next ==
    \/ \E r \in due : StartRecord(r)
    \/ WalkUp
    \/ Audit
    \/ Charge
    \/ InsufficientFunds
    \/ PaySeller
    \/ UnknownBeneficiary
    \/ PayCommission
    \/ EndRecord
    \/ TouchUndefined

Spec == Init /\ [][Next]_vars

\* apply runs to its end in the thread that calls it.
FairSpec == Spec /\ WF_vars(Next)
-----------------------------------------------------------------------------
(* Properties *)

TypeOK ==
    /\ companyPaysCommission \in BOOLEAN
    /\ companySupplied \in BOOLEAN
    /\ debug \in BOOLEAN
    /\ recruitedBy \in [Holder -> Holder \cup {None}]
    /\ money \in [Holder -> Int]
    /\ disbursed \in Nat
    /\ stage \in {"records", "walking", "auditing", "charging", "paying"}
                    \cup Ended
    /\ due \subseteq Sale
    /\ sale \in Sale
    /\ beneficiaries \in Seq(Holder)
    /\ currentBeneficiary \in Holder
    /\ paid \in 0 .. Len(beneficiaries)
    /\ before \in [money : [Holder -> Int], disbursed : Nat]

\* The chain that is paid starts with the seller, leads from recruit to
\* recruiter, and names nobody twice, so nobody is paid twice for one sale.
ChainIsALine ==
    stage \in {"charging", "paying"} =>
        /\ beneficiaries[1] = Seller[sale]
        /\ \A i \in 1 .. Len(beneficiaries) - 1 :
                recruitedBy[beneficiaries[i]] = beneficiaries[i + 1]
        /\ \A i, j \in 1 .. Len(beneficiaries) :
                beneficiaries[i] = beneficiaries[j] => i = j

\* The head of a line of recruiters, whom nobody recruited, never earns by
\* what the line sells: no step of apply gives it money.
TopRecruiterNeverPaid ==
    [][\A h \in Holder : recruitedBy[h] = None => money'[h] <= money[h]]_vars

\* With assertions compiled in, apply never moves any money: every record
\* fails its audit, if it gets as far as that.
DebugMovesNothing == [][debug => UNCHANGED <<money, disbursed>>]_vars

Total(purse) == SumFunctionOnSet(purse, Holder)

\* Once a record is paid out by the company, the distributors and the buyer
\* together are richer by exactly what the company has booked.  The chained
\* formula hands out no more than the buyer paid, even if it is stopped halfway.
MoneyAccounted ==
    /\ companyPaysCommission /\ companySupplied /\ stage \in {"records", "done"} =>
            Total(money) - Total(before.money) = disbursed - before.disbursed
    /\ ~companyPaysCommission => Total(money) <= Total(before.money)

\* An exception comes before the first payment of its record: whoever is not
\* the buyer has gained and lost nothing by the record.
ExceptionBeforePayment ==
    stage \in {"insufficientFunds", "unknownBeneficiary"} =>
        \A h \in Holder \ {Buyer[sale]} : money[h] = before.money[h]

\* apply always comes to an end.
EffectsEnd == <>(stage \in Ended)

\* How many steps are left at most: for each record, up the line of recruiters
\* and down it again with the payments.
StepsPerRecord == 2 * Cardinality(Holder) + 5

LeftOfTheRecord ==
    LET length == Len(beneficiaries)
    IN CASE stage = "walking"  -> StepsPerRecord - 1 - length
         [] stage = "auditing" -> length + 3
         [] stage = "charging" -> length + 2
         [] stage = "paying"   -> length - paid + 1
         [] OTHER              -> 0

StepsLeft == Cardinality(due) * StepsPerRecord + LeftOfTheRecord

\* No step is in vain: the line of recruiters comes to an end, no distributor
\* on it is paid again, and no record is taken up a second time.
EveryStepCounts == [][StepsLeft' < StepsLeft]_vars

\* auditBeneficiaryChain's comment: the last beneficiary was recruited by the
\* company, so it has no recruiter.
LastWasRecruitedByCompany ==
    stage = "auditing" =>
        recruitedBy[beneficiaries[Len(beneficiaries)]] = None
=============================================================================
