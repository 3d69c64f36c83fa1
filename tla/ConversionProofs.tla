--------------------------- MODULE ConversionProofs ---------------------------
(***************************************************************************)
(* What Conversion.tla and ConversionRecords.tla promise, for every        *)
(* population, graph and buy-in, whether or not conversions are recorded.  *)
(***************************************************************************)
EXTENDS ConversionRecords, FoldProofs

(***************************************************************************)
(* The inductive invariant.  That a record is good when its vertex is      *)
(* reached is not inductive alone: a vertex with a record must still be a  *)
(* consumer until it is visited, and must be the recruit of its record     *)
(* afterwards; and the distributor of a record has no recruiter, because   *)
(* its chance was sampled, and gets none, because it has no record.        *)
(***************************************************************************)
Joins(e, c, d) == {c, d} = {Source[e], Target[e]}

NothingConverted == step = "testing" => unvisited = Holder

RecordsAreGood ==
    \A h \in Holder : HasRecord(h) =>
        /\ IsDistributor(convertedBy[h])
        /\ h \in unvisited => ~IsDistributor(h)
        /\ h \notin unvisited => recruitedBy[h] = convertedBy[h]
        /\ \E e \in recorded : Joins(e, h, convertedBy[h])

EndsAreKnown ==
    \A e \in recorded : \E c, d \in Holder :
        /\ Joins(e, c, d)
        /\ HasRecord(c)
        /\ IsDistributor(d) /\ recruitedBy[d] = None

AllVisited == step \in {"converted", "aborted"} => unvisited = {}

IInv ==
    /\ TypeOK
    /\ RosterShape
    /\ NothingConverted
    /\ RecordsAreGood
    /\ EndsAreKnown
    /\ AllVisited

-----------------------------------------------------------------------------
(* A new leaf under a member of the forest leaves a forest: a circle with   *)
(* the recruit in it would be one without it, since it recruited nobody.    *)
LEMMA NewLeaf ==
    ASSUME NEW f \in [Holder -> Holder \cup {None}], Forest(f),
           NEW c \in Holder, NEW d \in Holder, c # d,
           \A h \in Holder : f[h] # c
    PROVE  Forest([f EXCEPT ![c] = d])
  <1> DEFINE g == [f EXCEPT ![c] = d]
  <1> SUFFICES ASSUME NEW circle \in (SUBSET Holder) \ {{}}
               PROVE  \E h \in circle : g[h] \notin circle
    BY DEF Forest
  <1>1. CASE circle \ {c} = {}
    <2>1. circle = {c} /\ g[c] = d
      BY <1>1
    <2>2. QED
      BY <2>1
  <1>2. CASE circle \ {c} # {}
    <2>1. PICK h \in circle \ {c} : f[h] \notin circle \ {c}
      BY <1>2 DEF Forest
    <2>2. g[h] = f[h] /\ f[h] # c /\ h \in circle
      BY <2>1
    <2>3. QED
      BY <2>1, <2>2
  <1>3. QED
    BY <1>1, <1>2

LEMMA InitInvariant == Init => IInv
  <1> SUFFICES ASSUME Init PROVE IInv
    OBVIOUS
  <1> USE PopulationAssumption, RoomAssumption
  <1>1. money \in [Holder -> Nat]
    <2>1. money \in [Holder -> StartMoney] /\ StartMoney \subseteq Nat
      BY DEF Init, PopulationInit
    <2>2. QED
      BY <2>1
  <1>2. inventory \in [Holder -> 0 .. InventoryWidth - 1]
    <2>1. \A i \in StartInventory : i \in 0 .. InventoryWidth - 1
      BY FS_CardinalityType
    <2>2. inventory \in [Holder -> StartInventory]
      BY DEF Init, PopulationInit
    <2>3. QED
      BY <2>1, <2>2
  <1>3. PopulationTypeOK
    BY <1>1, <1>2 DEF Init, PopulationInit, PopulationTypeOK
  <1>4. TypeOK
    BY <1>3 DEF Init, ConversionStart, TypeOK
  <1>5. QED
    BY <1>4 DEF Init, ConversionStart, PopulationInit, IInv, NothingConverted,
        RecordsAreGood, HasRecord, EndsAreKnown, AllVisited

LEMMA PeopleUntouched ==
    ASSUME IInv, UNCHANGED <<roster, money, inventory>>
    PROVE  PopulationTypeOK' /\ RosterShape'
  <1>1. PopulationTypeOK'
    BY DEF IInv, TypeOK, PopulationTypeOK, roster
  <1>2. Forest(recruitedBy)'
    BY DEF IInv, RosterShape, Forest, roster
  <1>3. QED
    BY <1>1, <1>2 DEF IInv, RosterShape, IsDistributor, roster

(* A step that changes neither people nor records keeps what is claimed, as *)
(* long as it passes over nobody with a record.                            *)
LEMMA QuietStep ==
    ASSUME IInv, TypeOK',
           UNCHANGED <<roster, money, inventory>>,
           UNCHANGED <<recorded, convertedBy>>,
           unvisited' \subseteq unvisited,
           \A h \in unvisited \ unvisited' : ~HasRecord(h),
           NothingConverted', AllVisited'
    PROVE  IInv'
  <1>1. RosterShape'
    BY PeopleUntouched
  <1>2. RecordsAreGood'
    <2> SUFFICES ASSUME NEW h \in Holder, HasRecord(h)
                 PROVE  /\ IsDistributor(convertedBy[h])
                        /\ h \in unvisited' => ~IsDistributor(h)
                        /\ h \notin unvisited' => recruitedBy[h] = convertedBy[h]
                        /\ \E e \in recorded :
                                Joins(e, h, convertedBy[h])
      BY DEF RecordsAreGood, HasRecord, IsDistributor, roster
    <2>1. h \in unvisited' <=> h \in unvisited
      OBVIOUS
    <2>2. QED
      BY <2>1 DEF IInv, RecordsAreGood
  <1>3. EndsAreKnown'
    BY DEF IInv, EndsAreKnown, HasRecord, IsDistributor, Joins, roster
  <1>4. QED
    BY <1>1, <1>2, <1>3 DEF IInv

(* An edge that leaves no record changes nothing that is claimed. *)
LEMMA NoRecordStep ==
    ASSUME IInv, NEW e \in Edge, NoRecord(e)
    PROVE  IInv'
  <1>1. TypeOK'
    BY PeopleUntouched DEF NoRecord, Tested, roster, IInv, TypeOK
  <1>2. NothingConverted' /\ AllVisited'
    BY DEF NoRecord, IInv, NothingConverted, AllVisited
  <1>3. QED
    BY <1>1, <1>2, QuietStep DEF NoRecord, roster

LEMMA TestUndefinedStep ==
    ASSUME IInv, NEW e \in Edge, TestUndefined(e)
    PROVE  IInv'
  <1>1. TypeOK'
    BY PeopleUntouched DEF TestUndefined, roster, recordVars, IInv, TypeOK,
        ConversionEnded
  <1>2. NothingConverted' /\ AllVisited'
    BY DEF TestUndefined, NothingConverted, AllVisited
  <1>3. QED
    BY <1>1, <1>2, QuietStep DEF TestUndefined, roster, recordVars

LEMMA SampleThrowsStep ==
    ASSUME IInv, NEW e \in Edge, SampleThrows(e)
    PROVE  IInv'
  <1>1. TypeOK'
    BY PeopleUntouched DEF SampleThrows, roster, recordVars, IInv, TypeOK,
        ConversionEnded
  <1>2. NothingConverted' /\ AllVisited'
    BY DEF SampleThrows, NothingConverted, AllVisited
  <1>3. QED
    BY <1>1, <1>2, QuietStep DEF SampleThrows, roster, recordVars

(* What is known of an edge whose chance is sampled. *)
LEMMA SampledPair ==
    ASSUME IInv, NEW e \in Edge, Sampled(e)
    PROVE  /\ ConsumerOf(e) \in Holder /\ DistributorOf(e) \in Holder
           /\ Joins(e, ConsumerOf(e), DistributorOf(e))
           /\ ~IsDistributor(ConsumerOf(e)) /\ IsDistributor(DistributorOf(e))
           /\ recruitedBy[DistributorOf(e)] = None
           /\ step = "testing" /\ unvisited = Holder
  <1>1. Source[e] \in Holder /\ Target[e] \in Holder
    BY PopulationAssumption
  <1>2. /\ step = "testing" /\ Pair(e)
        /\ chance[DistributorOf(e)] # "null"
    BY DEF Sampled, Testing
  <1>3. /\ ConsumerOf(e) \in Holder /\ DistributorOf(e) \in Holder
        /\ Joins(e, ConsumerOf(e), DistributorOf(e))
        /\ ~IsDistributor(ConsumerOf(e)) /\ IsDistributor(DistributorOf(e))
    BY <1>1, <1>2 DEF Pair, ConsumerOf, DistributorOf, IsDistributor, Joins
  <1>4. recruitedBy[DistributorOf(e)] = None
    BY <1>2, <1>3 DEF IInv, RosterShape
  <1>5. QED
    BY <1>2, <1>3, <1>4 DEF IInv, NothingConverted

LEMMA RecordStep ==
    ASSUME IInv, NEW e \in Edge, Record(e)
    PROVE  IInv'
  <1> DEFINE c == ConsumerOf(e)
             d == DistributorOf(e)
  <1>1. /\ c \in Holder /\ d \in Holder /\ Joins(e, c, d)
        /\ ~IsDistributor(c) /\ IsDistributor(d) /\ recruitedBy[d] = None
        /\ step = "testing" /\ unvisited = Holder
    BY SampledPair DEF Record
  <1>2. /\ UNCHANGED <<step, unvisited, numConversions, roster, role,
                       recruitedBy, chance, company, money, inventory>>
        /\ untested' = untested \ {e}
        /\ recorded' = recorded \cup {e}
        /\ convertedBy' = IF convertedBy[c] # None THEN convertedBy
                          ELSE [convertedBy EXCEPT ![c] = d]
    BY DEF Record, Tested, roster
  <1>3. TypeOK'
    BY <1>1, <1>2 DEF IInv, TypeOK, PopulationTypeOK
  <1>4. RosterShape'
    BY <1>2, PeopleUntouched
  <1>5. \A h \in Holder : convertedBy'[h] =
            IF h = c /\ convertedBy[c] = None THEN d ELSE convertedBy[h]
    BY <1>1, <1>2 DEF IInv, TypeOK
  <1>6. RecordsAreGood'
    <2> SUFFICES ASSUME NEW h \in Holder, convertedBy'[h] # None
                 PROVE  /\ IsDistributor(convertedBy'[h])
                        /\ ~IsDistributor(h)
                        /\ \E x \in recorded' :
                                Joins(x, h, convertedBy'[h])
      BY <1>1, <1>2 DEF RecordsAreGood, HasRecord, IsDistributor
    <2>1. CASE h = c /\ convertedBy[c] = None
      BY <1>1, <1>2, <1>5, <2>1
    <2>2. CASE ~(h = c /\ convertedBy[c] = None)
      BY <1>1, <1>2, <1>5, <2>2 DEF IInv, RecordsAreGood, HasRecord
    <2>3. QED
      BY <2>1, <2>2
  <1>7. EndsAreKnown'
    <2> SUFFICES ASSUME NEW x \in recorded'
                 PROVE  \E p, q \in Holder :
                            /\ Joins(x, p, q)
                            /\ convertedBy'[p] # None
                            /\ IsDistributor(q) /\ recruitedBy[q] = None
      BY <1>2 DEF EndsAreKnown, HasRecord, IsDistributor
    <2>1. CASE x = e
      <3>1. convertedBy'[c] # None
        BY <1>1, <1>5, PopulationAssumption
      <3>2. QED
        BY <1>1, <2>1, <3>1
    <2>2. CASE x # e
      <3>1. x \in recorded
        BY <1>2, <2>2
      <3>2. PICK p, q \in Holder :
                /\ Joins(x, p, q)
                /\ convertedBy[p] # None
                /\ IsDistributor(q) /\ recruitedBy[q] = None
        BY <3>1 DEF IInv, EndsAreKnown, HasRecord
      <3>3. convertedBy'[p] # None
        BY <1>1, <1>5, <3>2, PopulationAssumption
      <3>4. QED
        BY <3>2, <3>3
    <2>3. QED
      BY <2>1, <2>2
  <1>8. QED
    BY <1>1, <1>2, <1>3, <1>4, <1>6, <1>7 DEF IInv, NothingConverted, AllVisited

LEMMA ProcessConversionsStep ==
    ASSUME IInv, ProcessConversions PROVE IInv'
  <1>1. TypeOK'
    BY PeopleUntouched DEF ProcessConversions, roster, recordVars, IInv, TypeOK
  <1>2. NothingConverted' /\ AllVisited'
    BY DEF ProcessConversions, IInv, NothingConverted, AllVisited
  <1>3. QED
    BY <1>1, <1>2, QuietStep DEF ProcessConversions, roster, recordVars

LEMMA SkipStep ==
    ASSUME IInv, NEW h \in Holder, Skip(h) PROVE IInv'
  <1>1. TypeOK'
    BY PeopleUntouched DEF Skip, roster, recordVars, IInv, TypeOK
  <1>2. NothingConverted' /\ AllVisited'
    BY DEF Skip, IInv, NothingConverted, AllVisited
  <1>3. QED
    BY <1>1, <1>2, QuietStep DEF Skip, roster, recordVars

LEMMA ReturnStep ==
    ASSUME IInv, Return PROVE IInv'
  <1>1. TypeOK'
    BY PeopleUntouched DEF Return, roster, recordVars, IInv, TypeOK,
        ConversionEnded
  <1>2. NothingConverted' /\ AllVisited'
    BY DEF Return, IInv, NothingConverted, AllVisited
  <1>3. QED
    BY <1>1, <1>2, QuietStep DEF Return, roster, recordVars

(* A conversion is a recruitment between acquaintances. *)
LEMMA ConvertRecruits ==
    ASSUME IInv, NEW h \in Holder, Convert(h)
    PROVE  /\ convertedBy[h] \in Holder /\ convertedBy[h] # h
           /\ RecruitmentOf!Recruit(h, convertedBy[h])
  <1>1. /\ h \in unvisited /\ convertedBy[h] # None
        /\ role' = [role EXCEPT ![h] = "distributor"]
        /\ recruitedBy' = [recruitedBy EXCEPT ![h] = convertedBy[h]]
    BY DEF Convert, HasRecord, BecomeDistributor
  <1>2. /\ convertedBy[h] \in Holder
        /\ role[h] = "consumer"
        /\ role[convertedBy[h]] = "distributor"
    BY <1>1 DEF IInv, TypeOK, PopulationTypeOK, RecordsAreGood, HasRecord,
        IsDistributor
  <1>3. PICK e \in recorded : Joins(e, h, convertedBy[h])
    BY <1>1 DEF IInv, RecordsAreGood, HasRecord
  <1>4. e \in Edge
    BY <1>3 DEF IInv, TypeOK
  <1>5. {<<h, convertedBy[h]>>, <<convertedBy[h], h>>} \cap Acquainted # {}
    <2>1. \/ h = Source[e] /\ convertedBy[h] = Target[e]
          \/ h = Target[e] /\ convertedBy[h] = Source[e]
      BY <1>2, <1>3 DEF Joins
    <2>2. <<Source[e], Target[e]>> \in Acquainted
      BY <1>4 DEF Acquainted
    <2>3. QED
      BY <2>1, <2>2
  <1>6. QED
    BY <1>1, <1>2, <1>5 DEF RecruitmentOf!Recruit

LEMMA ConvertStep ==
    ASSUME IInv, NEW h \in Holder, Convert(h) PROVE IInv'
  <1> DEFINE d == convertedBy[h]
  <1>1. /\ d \in Holder /\ d # h
        /\ role[h] = "consumer" /\ role[d] = "distributor"
    BY ConvertRecruits DEF RecruitmentOf!Recruit
  <1>2. /\ step = "converting" /\ h \in unvisited
        /\ role' = [role EXCEPT ![h] = "distributor"]
        /\ recruitedBy' = [recruitedBy EXCEPT ![h] = d]
        /\ chance' = [chance EXCEPT ![h] = "null"]
        /\ unvisited' = unvisited \ {h}
        /\ numConversions' = numConversions + 1
        /\ UNCHANGED <<step, untested, recorded, convertedBy, money, inventory,
                       company>>
    BY DEF Convert, BecomeDistributor, recordVars
  <1>3. /\ role \in [Holder -> {"consumer", "distributor"}]
        /\ recruitedBy \in [Holder -> Holder \cup {None}]
        /\ chance \in [Holder -> Chance]
        /\ convertedBy \in [Holder -> Holder \cup {None}]
    BY DEF IInv, TypeOK, PopulationTypeOK
  <1>4. TypeOK'
    BY <1>1, <1>2, <1>3 DEF IInv, TypeOK, PopulationTypeOK, Chance
  <1>5. \A g \in Holder : recruitedBy[g] # h
    BY <1>1, PopulationAssumption DEF IInv, RosterShape, IsDistributor
  <1>6. RosterShape'
    <2>1. Forest(recruitedBy')
      BY <1>1, <1>2, <1>3, <1>5, NewLeaf DEF IInv, RosterShape
    <2>2. ASSUME NEW g \in Holder, recruitedBy'[g] # None
          PROVE  role'[g] = "distributor" /\ role'[recruitedBy'[g]] = "distributor"
      <3>1. CASE g = h
        BY <1>1, <1>2, <1>3, <3>1
      <3>2. CASE g # h
        <4>1. recruitedBy'[g] = recruitedBy[g] /\ recruitedBy[g] \in Holder
          BY <1>2, <1>3, <2>2, <3>2
        <4>2. role[g] = "distributor" /\ role[recruitedBy[g]] = "distributor"
          BY <2>2, <4>1 DEF IInv, RosterShape, IsDistributor
        <4>3. QED
          BY <1>2, <1>3, <4>1, <4>2
      <3>3. QED
        BY <3>1, <3>2
    <2>3. \A g \in Holder : chance'[g] = "null" <=> recruitedBy'[g] # None
      BY <1>1, <1>2, <1>3, PopulationAssumption DEF IInv, RosterShape
    <2>4. QED
      BY <2>1, <2>2, <2>3 DEF RosterShape, IsDistributor
  <1>7. RecordsAreGood'
    <2> SUFFICES ASSUME NEW g \in Holder, convertedBy[g] # None
                 PROVE  /\ role'[convertedBy[g]] = "distributor"
                        /\ g \in unvisited' => role'[g] # "distributor"
                        /\ g \notin unvisited' => recruitedBy'[g] = convertedBy[g]
                        /\ \E e \in recorded :
                                Joins(e, g, convertedBy[g])
      BY <1>2 DEF RecordsAreGood, HasRecord, IsDistributor
    <2>1. /\ role[convertedBy[g]] = "distributor"
          /\ g \in unvisited => role[g] # "distributor"
          /\ g \notin unvisited => recruitedBy[g] = convertedBy[g]
          /\ \E e \in recorded : Joins(e, g, convertedBy[g])
      BY DEF IInv, RecordsAreGood, HasRecord, IsDistributor
    <2>2. convertedBy[g] \in Holder
      BY <1>3
    <2>3. QED
      BY <1>1, <1>2, <1>3, <2>1, <2>2
  <1>8. EndsAreKnown'
    <2> SUFFICES ASSUME NEW e \in recorded
                 PROVE  \E p, q \in Holder :
                            /\ Joins(e, p, q)
                            /\ convertedBy[p] # None
                            /\ role'[q] = "distributor" /\ recruitedBy'[q] = None
      BY <1>2 DEF EndsAreKnown, HasRecord, IsDistributor
    <2>1. PICK p, q \in Holder :
                /\ Joins(e, p, q)
                /\ convertedBy[p] # None
                /\ role[q] = "distributor" /\ recruitedBy[q] = None
      BY DEF IInv, EndsAreKnown, HasRecord, IsDistributor
    <2>2. role'[q] = "distributor" /\ recruitedBy'[q] = None
      BY <1>1, <1>2, <1>3, <2>1
    <2>3. QED
      BY <2>1, <2>2
  <1>9. QED
    BY <1>2, <1>4, <1>6, <1>7, <1>8 DEF IInv, NothingConverted, AllVisited

LEMMA NextInvariant == IInv /\ [Next]_vars => IInv'
  <1> SUFFICES ASSUME IInv, [Next]_vars PROVE IInv'
    OBVIOUS
  <1>1. ASSUME NEW e \in Edge, TestConversion(e) PROVE IInv'
    BY <1>1, NoRecordStep, RecordStep, SampleThrowsStep, TestUndefinedStep
    DEF TestConversion, Unimplemented, CastFailed, CantBeDistributor, ProcFailed
  <1>2. ASSUME NEW h \in Holder, Skip(h) \/ Convert(h) PROVE IInv'
    BY <1>2, SkipStep, ConvertStep
  <1>3. CASE UNCHANGED vars
    <2>1. TypeOK'
      BY <1>3, PeopleUntouched DEF vars, conversionVars, roster, recordVars,
          IInv, TypeOK
    <2>2. QED
      BY <1>3, <2>1, QuietStep DEF vars, conversionVars, roster, recordVars,
          IInv, NothingConverted, AllVisited
  <1>4. QED
    BY <1>1, <1>2, <1>3, ProcessConversionsStep, ReturnStep DEF Next

LEMMA Invariance == Spec => []IInv
  BY InitInvariant, NextInvariant, PTL DEF Spec

-----------------------------------------------------------------------------
(* Every reachable state of a conversion is well typed. *)
THEOREM TypeCorrect == Spec => []TypeOK
  <1>1. IInv => TypeOK
    BY DEF IInv
  <1>2. QED
    BY <1>1, Invariance, PTL

(* Neither the assert nor an exception of processConversions is reached. *)
THEOREM NothingThrows == Spec => []NoConversionFails
  <1>1. IInv => NoConversionFails
    BY DEF IInv, TypeOK, RecordsAreGood, NoConversionFails
  <1>2. QED
    BY <1>1, Invariance, PTL

(* The sales that follow find the roster they assume. *)
THEOREM RosterIsKept == Spec => []HandsOnARoster
  <1>1. IInv => HandsOnARoster
    BY DEF IInv, HandsOnARoster
  <1>2. QED
    BY <1>1, Invariance, PTL

(* Whoever has a record is the recruit of an edge that was recorded. *)
THEOREM Honoured == Spec => []RecordsAreHonoured
  <1>1. IInv => RecordsAreHonoured
    <2> SUFFICES ASSUME IInv, step \in {"converted", "aborted"}, NEW h \in Holder
                 PROVE  HasRecord(h) <=> \E e \in recorded :
                            {h, recruitedBy[h]} = {Source[e], Target[e]}
      BY DEF RecordsAreHonoured
    <2>1. unvisited = {}
      BY DEF IInv, AllVisited
    <2>2. ASSUME HasRecord(h)
          PROVE  \E e \in recorded : {h, recruitedBy[h]} = {Source[e], Target[e]}
      BY <2>1, <2>2 DEF IInv, RecordsAreGood, Joins
    <2>3. ASSUME NEW e \in recorded, {h, recruitedBy[h]} = {Source[e], Target[e]}
          PROVE  HasRecord(h)
      <3>1. PICK p, q \in Holder :
                /\ Joins(e, p, q)
                /\ HasRecord(p)
                /\ recruitedBy[q] = None
        BY DEF IInv, EndsAreKnown
      <3>2. h # q
        <4>1. Source[e] \in Holder /\ Target[e] \in Holder
          BY PopulationAssumption DEF IInv, TypeOK
        <4>2. QED
          BY <2>3, <3>1, <4>1, PopulationAssumption
      <3>3. QED
        BY <2>3, <3>1, <3>2 DEF Joins
    <2>4. QED
      BY <2>2, <2>3
  <1>2. QED
    BY <1>1, Invariance, PTL

(* A conversion is a recruitment, every other step leaves the roster alone. *)
THEOREM Refinement == Spec => ImplementsRecruitment
  <1>1. Init => RecruitmentOf!Init
    BY DEF Init, PopulationInit, RosterShape, IsDistributor, RecruitmentOf!Init
  <1>2. IInv /\ [Next]_vars => [RecruitmentOf!Next]_RecruitmentOf!vars
    <2> SUFFICES ASSUME IInv, [Next]_vars,
                        ~UNCHANGED <<role, recruitedBy>>
                 PROVE  RecruitmentOf!Next
      BY DEF RecruitmentOf!vars
    <2>1. \E h \in Holder : Convert(h)
      BY DEF Next, vars, TestConversion, Unimplemented, CastFailed,
          CantBeDistributor, ProcFailed, NoRecord, Record, SampleThrows,
          TestUndefined,
          ProcessConversions, Skip, Return, roster
    <2>2. QED
      BY <2>1, ConvertRecruits DEF RecruitmentOf!Next
  <1>3. QED
    BY <1>1, <1>2, Invariance, PTL DEF Spec, ImplementsRecruitment,
        RecruitmentOf!Spec

-----------------------------------------------------------------------------
(***************************************************************************)
(* How many were converted.  The count goes up by one for each vertex with *)
(* a record, and the final assertion compares it with the records.         *)
(***************************************************************************)
Converted == {h \in Holder \ unvisited : HasRecord(h)}

Counted == numConversions = Cardinality(Converted)

AbortedForAReason ==
    step \in {"converted", "aborted"} =>
        (step = "aborted" <=> Debug /\ numConversions # Cardinality(recorded))

CountInv == IInv /\ Counted /\ AbortedForAReason

LEMMA FewAreConverted ==
    ASSUME IInv
    PROVE  IsFiniteSet({h \in Holder : HasRecord(h)}) /\ IsFiniteSet(Converted)
  <1> DEFINE Sources == {Source[e] : e \in Edge}
             Targets == {Target[e] : e \in Edge}
  <1>1. IsFiniteSet(Sources)
    <2>1. Source \in Surjection(Edge, Sources)
      BY PopulationAssumption DEF Surjection
    <2>2. QED
      BY <2>1, FS_Surjection, PopulationAssumption DEF ExistsSurjection
  <1>2. IsFiniteSet(Targets)
    <2>1. Target \in Surjection(Edge, Targets)
      BY PopulationAssumption DEF Surjection
    <2>2. QED
      BY <2>1, FS_Surjection, PopulationAssumption DEF ExistsSurjection
  <1>3. {h \in Holder : HasRecord(h)} \subseteq Sources \cup Targets
    BY DEF IInv, TypeOK, RecordsAreGood, Joins
  <1>4. IsFiniteSet(Sources \cup Targets)
    BY <1>1, <1>2, FS_Union
  <1>5. QED
    BY <1>3, <1>4, FS_Subset DEF Converted

LEMMA CountInit == Init => CountInv
  <1> SUFFICES ASSUME Init PROVE CountInv
    OBVIOUS
  <1>1. Converted = {} /\ numConversions = 0 /\ step = "testing"
    BY DEF Init, ConversionStart, Converted, HasRecord
  <1>2. QED
    BY <1>1, InitInvariant, FS_EmptySet DEF CountInv, Counted, AbortedForAReason

LEMMA CountStep == CountInv /\ [Next]_vars => CountInv'
  <1> SUFFICES ASSUME CountInv, [Next]_vars PROVE CountInv'
    OBVIOUS
  <1>1. IInv /\ IInv'
    BY NextInvariant DEF CountInv
  <1>2. ASSUME NEW h \in Holder, Convert(h)
        PROVE  Counted' /\ AbortedForAReason'
    <2>1. Converted' = Converted \cup {h} /\ h \notin Converted
      BY <1>1, <1>2 DEF Convert, Converted, HasRecord, recordVars, IInv, TypeOK
    <2>2. numConversions' = numConversions + 1 /\ step' = "converting"
      BY <1>2 DEF Convert
    <2>3. QED
      BY <1>1, <2>1, <2>2, FewAreConverted, FS_AddElement
      DEF CountInv, Counted, AbortedForAReason
  <1>3. ASSUME NEW h \in Holder, Skip(h)
        PROVE  Counted' /\ AbortedForAReason'
    <2>1. Converted' = Converted
      BY <1>3 DEF Skip, Converted, HasRecord, recordVars
    <2>2. numConversions' = numConversions /\ step' = "converting"
      BY <1>3 DEF Skip
    <2>3. QED
      BY <2>1, <2>2 DEF CountInv, Counted, AbortedForAReason
  <1>4. ASSUME NEW e \in Edge, TestConversion(e)
        PROVE  Counted' /\ AbortedForAReason'
    <2>1. /\ step = "testing" /\ UNCHANGED <<unvisited, numConversions>>
          /\ step' \in {"testing", "threw", "undefined"}
      BY <1>4 DEF TestConversion, Unimplemented, CastFailed, CantBeDistributor,
          ProcFailed, Sampled, Testing, NoRecord, Record, SampleThrows,
          TestUndefined
    <2>2. Converted = {} /\ Converted' = {}
      BY <1>1, <2>1 DEF Converted, IInv, NothingConverted
    <2>3. QED
      BY <2>1, <2>2 DEF CountInv, Counted, AbortedForAReason
  <1>5. CASE ProcessConversions \/ Return \/ UNCHANGED vars
    <2>1. Converted' = Converted /\ numConversions' = numConversions
          /\ recorded' = recorded
      BY <1>5 DEF ProcessConversions, Return, vars, conversionVars, recordVars,
          Converted, HasRecord
    <2>2. \/ step' = step
          \/ step' = IF Debug /\ numConversions # Cardinality(recorded)
                     THEN "aborted" ELSE "converted"
          \/ step' \notin {"converted", "aborted"}
      BY <1>5 DEF ProcessConversions, Return, vars, conversionVars
    <2>3. QED
      BY <1>1, <2>1, <2>2 DEF CountInv, Counted, AbortedForAReason
  <1>6. QED
    BY <1>1, <1>2, <1>3, <1>4, <1>5 DEF Next, CountInv

LEMMA CountInvariance == Spec => []CountInv
  BY CountInit, CountStep, PTL DEF Spec

-----------------------------------------------------------------------------
(***************************************************************************)
(* The list that the records are folded into.  While the edges are tested  *)
(* nothing has been folded, so what the fold is going to be is what is     *)
(* claimed: in the order of the ids, with as many records as were made,    *)
(* and with the first record of everybody before the others.               *)
(***************************************************************************)
Conversions == [id : Holder, convertedBy : Holder]

SortedById(list) ==
    \A i, j \in 1 .. Len(list) : i < j => Rank[list[i].id] <= Rank[list[j].id]

\* The first record of h in the list, if there is one, names d.
FirstNames(list, h, d) ==
    IF d = None THEN \A i \in 1 .. Len(list) : list[i].id # h
    ELSE \E i \in 1 .. Len(list) :
            /\ list[i].id = h /\ list[i].convertedBy = d
            /\ \A j \in 1 .. Len(list) : list[j].id = h => i <= j

FoldSoFar == LeftFold(CompareUniqueables, <<>>, vecConversions)

FoldIsFaithful ==
    /\ SortedById(FoldSoFar)
    /\ Len(FoldSoFar) = Cardinality(recorded)
    /\ \A h \in Holder : FirstNames(FoldSoFar, h, convertedBy[h])

RecordsInv ==
    /\ IInv
    /\ vecConversions \in Seq(ShortLists(Conversions))
    /\ recorded \cap untested = {}
    /\ FoldIsFaithful
    /\ step \in {"converting", "converted", "aborted"} =>
            conversionRecs = FoldSoFar

LEMMA RankType ==
    /\ Rank \in [Holder -> Nat]
    /\ \A h, g \in Holder :
            <<h, g>> \in CompareUniqueables <=> Rank[h] < Rank[g]
  BY RankAssumption DEF CompareUniqueables

(* A record is put behind those of a lesser id and of its own. *)
LEMMA RecordInPlace ==
    ASSUME NEW list \in Seq(Conversions), SortedById(list), NEW r \in Conversions
    PROVE  LET p == PlaceFor(CompareUniqueables, r, list)
           IN  /\ p \in 1 .. Len(list) + 1
               /\ \A i \in 1 .. Len(list) : /\ list[i] \in Conversions
                                            /\ Rank[list[i].id] \in Nat
               /\ r.id \in Holder /\ r.convertedBy \in Holder /\ Rank[r.id] \in Nat
               /\ \A i \in 1 .. p - 1 : Rank[list[i].id] <= Rank[r.id]
               /\ \A i \in p .. Len(list) : Rank[r.id] < Rank[list[i].id]
  <1> DEFINE p == PlaceFor(CompareUniqueables, r, list)
  <1>1. /\ p \in 1 .. Len(list) + 1
        /\ \A i \in 1 .. Len(list) :
                i < p => <<r.id, list[i].id>> \notin CompareUniqueables
        /\ p <= Len(list) => <<r.id, list[p].id>> \in CompareUniqueables
    BY PlaceIsBehindTheOthers
  <1> HIDE DEF p
  <1>2. \A i \in 1 .. Len(list) : list[i] \in Conversions /\ list[i].id \in Holder
    <2>1. \A i \in 1 .. Len(list) : list[i] \in Conversions
      OBVIOUS
    <2>2. QED
      BY <2>1 DEF Conversions
  <1>3. r.id \in Holder /\ r.convertedBy \in Holder
    BY DEF Conversions
  <1>4. \A i \in 1 .. Len(list) : Rank[list[i].id] \in Nat
    BY <1>2, RankType
  <1>5. Rank[r.id] \in Nat
    BY <1>3, RankType
  <1>6. Len(list) \in Nat
    OBVIOUS
  <1>7. ASSUME NEW i \in 1 .. p - 1 PROVE Rank[list[i].id] <= Rank[r.id]
    <2>1. i \in 1 .. Len(list) /\ i < p
      BY <1>1, <1>6
    <2>2. ~(Rank[r.id] < Rank[list[i].id])
      BY <1>1, <1>2, <1>3, <2>1, RankType
    <2>3. QED
      BY <1>4, <1>5, <2>1, <2>2
  <1>8. ASSUME NEW i \in p .. Len(list) PROVE Rank[r.id] < Rank[list[i].id]
    <2>1. p \in 1 .. Len(list) /\ i \in 1 .. Len(list) /\ p <= i
      BY <1>1, <1>6
    <2>2. Rank[r.id] < Rank[list[p].id]
      BY <1>1, <1>2, <1>3, <2>1, RankType
    <2>3. Rank[list[p].id] <= Rank[list[i].id]
      BY <1>4, <2>1 DEF SortedById
    <2>4. QED
      BY <1>4, <1>5, <2>1, <2>2, <2>3
  <1>9. QED
    BY <1>1, <1>2, <1>3, <1>4, <1>5, <1>7, <1>8 DEF p

LEMMA RecordMerged ==
    ASSUME NEW list \in Seq(Conversions), SortedById(list), NEW r \in Conversions
    PROVE  LET merged == MergeListTransactionRecords(CompareUniqueables, list, <<r>>)
           IN  /\ merged \in Seq(Conversions)
               /\ Len(merged) = Len(list) + 1
               /\ SortedById(merged)
               /\ \A h \in Holder, d \in Holder \cup {None} :
                    FirstNames(list, h, d) =>
                        FirstNames(merged, h,
                            IF h = r.id /\ d = None THEN r.convertedBy ELSE d)
  <1> DEFINE p == PlaceFor(CompareUniqueables, r, list)
             merged == MergeListTransactionRecords(CompareUniqueables, list, <<r>>)
             n == Len(list)
  <1>1. /\ p \in 1 .. n + 1
        /\ \A i \in 1 .. n : Rank[list[i].id] \in Nat
        /\ r.id \in Holder /\ r.convertedBy \in Holder /\ Rank[r.id] \in Nat
        /\ \A i \in 1 .. p - 1 : Rank[list[i].id] <= Rank[r.id]
        /\ \A i \in p .. n : Rank[r.id] < Rank[list[i].id]
    BY RecordInPlace
  <1>2. merged = InsertAt(list, p, r)
    BY DEF MergeListTransactionRecords
  <1> HIDE DEF p, merged
  <1>3. /\ merged \in Seq(Conversions) /\ Len(merged) = n + 1
        /\ \A i \in 1 .. n + 1 :
             merged[i] = IF i < p THEN list[i] ELSE IF i = p THEN r ELSE list[i - 1]
    <2>1. p \in 1 .. Len(list) + 1 /\ list \in Seq(Conversions) /\ r \in Conversions
      BY <1>1
    <2>2. QED
      BY ONLY <1>2, <2>1, InsertedAt
  <1>4. n \in Nat
    OBVIOUS
  <1>5. \A i, j \in 1 .. n : i < j => Rank[list[i].id] <= Rank[list[j].id]
    BY DEF SortedById
  <1> HIDE DEF n
  <1>6. SortedById(merged)
    <2> SUFFICES ASSUME NEW i \in 1 .. n + 1, NEW j \in 1 .. n + 1, i < j
                 PROVE  Rank[merged[i].id] <= Rank[merged[j].id]
      BY <1>3 DEF SortedById
    <2>1. CASE j < p
      <3>1. i \in 1 .. n /\ j \in 1 .. n
        BY <1>1, <1>4, <2>1
      <3>2. i < p
        BY <1>1, <2>1, <3>1
      <3>3. merged[i] = list[i] /\ merged[j] = list[j]
        BY <1>3, <2>1, <3>2
      <3>4. QED
        BY <1>5, <3>1, <3>3
    <2>2. CASE j = p
      <3>1. i \in 1 .. p - 1
        BY <1>1, <2>2
      <3>2. merged[i] = list[i] /\ merged[j] = r
        BY <1>1, <1>3, <2>2, <3>1
      <3>3. Rank[list[i].id] <= Rank[r.id]
        BY <1>1, <3>1
      <3>4. QED
        BY <3>2, <3>3
    <2>3. CASE i = p
      <3>1. j - 1 \in p .. n /\ j > p
        BY <1>1, <1>4, <2>3
      <3>2. merged[i] = r /\ merged[j] = list[j - 1]
        BY <1>1, <1>3, <2>3, <3>1
      <3>3. j - 1 \in 1 .. n
        BY <1>1, <3>1
      <3>4. QED
        BY <1>1, <3>1, <3>2, <3>3
    <2>4. CASE i < p /\ j > p
      <3>1. i \in 1 .. p - 1 /\ i \in 1 .. n /\ j - 1 \in p .. n /\ j - 1 \in 1 .. n
        BY <1>1, <1>4, <2>4
      <3>2. Rank[list[i].id] <= Rank[r.id] /\ Rank[r.id] < Rank[list[j - 1].id]
        BY <1>1, <3>1
      <3>3. merged[i] = list[i] /\ merged[j] = list[j - 1]
        BY <1>1, <1>3, <2>4
      <3>4. QED
        BY <1>1, <3>1, <3>2, <3>3
    <2>5. CASE i > p
      <3>1. i - 1 \in 1 .. n /\ j - 1 \in 1 .. n /\ i - 1 < j - 1
        BY <1>1, <1>4, <2>5
      <3>2. merged[i] = list[i - 1] /\ merged[j] = list[j - 1]
        BY <1>1, <1>3, <2>5
      <3>3. QED
        BY <1>5, <3>1, <3>2
    <2>6. QED
      BY <1>1, <2>1, <2>2, <2>3, <2>4, <2>5
  <1>7. ASSUME NEW h \in Holder, \A i \in 1 .. n : list[i].id # h
        PROVE  FirstNames(merged, h, IF h = r.id THEN r.convertedBy ELSE None)
    <2>1. \A i \in 1 .. n + 1 : i # p => merged[i].id # h
      <3> SUFFICES ASSUME NEW i \in 1 .. n + 1, i # p PROVE merged[i].id # h
        OBVIOUS
      <3>1. i < p => i \in 1 .. n
        BY <1>1, <1>4
      <3>2. i > p => i - 1 \in 1 .. n
        BY <1>1, <1>4
      <3>3. QED
        BY <1>1, <1>3, <1>7, <3>1, <3>2
    <2>2. merged[p] = r
      BY <1>1, <1>3
    <2>3. r.convertedBy # None
      BY <1>1, PopulationAssumption
    <2>4. Len(merged) = n + 1 /\ p \in 1 .. n + 1 /\ n \in Nat
      BY <1>1, <1>3, <1>4
    <2>5. CASE h = r.id
      <3>1. \A j \in 1 .. Len(merged) : merged[j].id = h => p <= j
        BY <2>1, <2>4
      <3>2. FirstNames(merged, h, r.convertedBy)
        BY <2>2, <2>3, <2>4, <2>5, <3>1 DEF FirstNames
      <3>3. QED
        BY <2>5, <3>2
    <2>6. CASE h # r.id
      <3>1. \A i \in 1 .. Len(merged) : merged[i].id # h
        BY <2>1, <2>2, <2>4, <2>6
      <3>2. FirstNames(merged, h, None)
        BY <3>1 DEF FirstNames
      <3>3. QED
        BY <2>6, <3>2
    <2>7. QED
      BY <2>5, <2>6
  <1>8. ASSUME NEW h \in Holder, NEW d \in Holder, FirstNames(list, h, d)
        PROVE  FirstNames(merged, h, d)
    <2>1. d # None
      BY PopulationAssumption
    <2>2. PICK i \in 1 .. n : /\ list[i].id = h /\ list[i].convertedBy = d
                              /\ \A j \in 1 .. n : list[j].id = h => i <= j
      BY <1>8, <2>1 DEF FirstNames, n
    <2> DEFINE k == IF i < p THEN i ELSE i + 1
    <2>3. k \in 1 .. n + 1 /\ merged[k] = list[i]
      BY <1>1, <1>3, <1>4
    <2>4. ASSUME NEW j \in 1 .. n + 1, merged[j].id = h PROVE k <= j
      <3>1. CASE j < p
        <4>1. j \in 1 .. n /\ list[j].id = h
          BY <1>1, <1>3, <1>4, <2>4, <3>1
        <4>2. QED
          BY <1>1, <2>2, <3>1, <4>1
      <3>2. CASE j = p
        <4>1. r.id = h
          BY <1>1, <1>3, <2>4, <3>2
        <4>2. ~(i >= p)
          BY <1>1, <2>2, <4>1
        <4>3. QED
          BY <1>1, <3>2, <4>2
      <3>3. CASE j > p
        <4>1. j - 1 \in 1 .. n /\ list[j - 1].id = h
          BY <1>1, <1>3, <1>4, <2>4, <3>3
        <4>2. i <= j - 1
          BY <2>2, <4>1
        <4>3. QED
          BY <1>1, <4>2
      <3>4. QED
        BY <1>1, <3>1, <3>2, <3>3
    <2> HIDE DEF k
    <2>5. QED
      BY <1>3, <2>1, <2>2, <2>3, <2>4 DEF FirstNames
  <1>9. ASSUME NEW h \in Holder, NEW d \in Holder \cup {None},
               FirstNames(list, h, d)
        PROVE  FirstNames(merged, h,
                    IF h = r.id /\ d = None THEN r.convertedBy ELSE d)
    <2>1. CASE d = None
      <3>1. \A i \in 1 .. n : list[i].id # h
        BY <1>9, <2>1 DEF FirstNames, n
      <3>2. QED
        BY <1>7, <2>1, <3>1
    <2>2. CASE d # None
      BY <1>8, <1>9, <2>2
    <2>3. QED
      BY <2>1, <2>2
  <1>10. QED
    BY <1>3, <1>6, <1>9 DEF merged, n

-----------------------------------------------------------------------------
(* A step of the lists is a step of Conversion.tla. *)
LEMMA RecordsNextIsNext == [RecordsNext]_<<vars, listVars>> => [Next]_vars
  BY DEF RecordsNext, Handle, Fold, Next

LEMMA InitRecordsInv == RecordsInit => RecordsInv
  <1> SUFFICES ASSUME RecordsInit PROVE RecordsInv
    OBVIOUS
  <1> DEFINE C == Conversions
             S == ShortLists(Conversions)
  <1> HIDE DEF C, S
  <1>1. <<>> \in Seq(C) /\ <<>> \in Seq(S) /\ Len(<<>>) = 0
    OBVIOUS
  <1>2. FoldSoFar = <<>>
    <2>1. vecConversions = <<>>
      BY DEF RecordsInit
    <2>2. LeftFold(CompareUniqueables, <<>>, <<>>) = <<>>
      BY <1>1, LeftFoldOfNothing
    <2>3. QED
      BY <2>1, <2>2 DEF FoldSoFar
  <1>3. /\ recorded = {} /\ step = "testing"
        /\ \A h \in Holder : convertedBy[h] = None
    BY DEF RecordsInit, Init, ConversionStart
  <1>4. FoldIsFaithful
    BY <1>1, <1>2, <1>3, FS_EmptySet DEF FoldIsFaithful, SortedById, FirstNames
  <1>5. IInv
    BY InitInvariant DEF RecordsInit
  <1>6. vecConversions \in Seq(S)
    BY <1>1 DEF RecordsInit
  <1>7. QED
    BY <1>3, <1>4, <1>5, <1>6 DEF RecordsInv, S

LEMMA HandleStep ==
    ASSUME RecordsInv, IInv', NEW e \in Edge, Handle(e)
    PROVE  RecordsInv'
  <1> DEFINE S == ShortLists(Conversions)
             list == FoldSoFar
             r == [id |-> ConsumerOf(e), convertedBy |-> DistributorOf(e)]
             last == IF e \in recorded' THEN <<r>> ELSE <<>>
  <1>1. /\ step = "testing" /\ step' \in {"testing", "threw", "undefined"}
        /\ e \in untested /\ e \notin recorded
    BY DEF Handle, TestConversion, Unimplemented, CastFailed, CantBeDistributor,
        ProcFailed, Sampled, Testing, NoRecord, Record, SampleThrows,
          TestUndefined, RecordsInv
  <1>2. /\ vecConversions' = Append(vecConversions, last)
        /\ vecConversions \in Seq(S)
    BY DEF Handle, RecordsInv
  <1>3. ASSUME Record(e)
        PROVE  /\ r \in Conversions /\ recorded' = recorded \cup {e}
               /\ untested' = untested \ {e}
               /\ r.id \in Holder /\ r.convertedBy \in Holder
               /\ \A h \in Holder : convertedBy'[h] =
                     IF h = r.id /\ convertedBy[h] = None THEN r.convertedBy
                     ELSE convertedBy[h]
    <2>1. Sampled(e) /\ recorded' = recorded \cup {e} /\ untested' = untested \ {e}
          /\ convertedBy' = IF convertedBy[ConsumerOf(e)] # None THEN convertedBy
                ELSE [convertedBy EXCEPT ![ConsumerOf(e)] = DistributorOf(e)]
      BY <1>3 DEF Record, Tested
    <2>2. ConsumerOf(e) \in Holder /\ DistributorOf(e) \in Holder
      BY <2>1, SampledPair DEF RecordsInv
    <2>3. convertedBy \in [Holder -> Holder \cup {None}]
      BY DEF RecordsInv, IInv, TypeOK
    <2>4. QED
      BY <2>1, <2>2, <2>3 DEF Conversions
  <1>4. ASSUME ~Record(e)
        PROVE  UNCHANGED <<recorded, convertedBy>> /\ untested' \subseteq untested
    BY <1>4 DEF Handle, TestConversion, Unimplemented, CastFailed,
        CantBeDistributor, ProcFailed, NoRecord, Tested, SampleThrows,
        TestUndefined, recordVars
  <1>5. last \in S
    BY <1>1, <1>3, <1>4 DEF ShortLists
  <1>6. <<>> \in Seq(Conversions)
    OBVIOUS
  <1>7. list \in Seq(Conversions)
    BY <1>2, <1>6, LeftFoldType DEF FoldSoFar
  <1> HIDE DEF S, last
  <1>8. vecConversions' \in Seq(S)
    BY <1>2, <1>5
  <1>9. FoldSoFar' = MergeListTransactionRecords(CompareUniqueables, list, last)
    <2>1. LeftFold(CompareUniqueables, <<>>, Append(vecConversions, last)) =
            MergeListTransactionRecords(CompareUniqueables,
                LeftFold(CompareUniqueables, <<>>, vecConversions), last)
      <3>1. /\ vecConversions \in Seq(ShortLists(Conversions))
            /\ last \in ShortLists(Conversions)
        BY <1>2, <1>5 DEF S
      <3>2. \A less : \A start \in Seq(Conversions) :
                LeftFold(less, start, Append(vecConversions, last)) =
                    MergeListTransactionRecords(less,
                        LeftFold(less, start, vecConversions), last)
        BY ONLY <3>1, LeftFoldOfAppended
      <3>3. QED
        BY <1>6, <3>2
    <2>2. QED
      BY <1>2, <2>1 DEF FoldSoFar
  <1> HIDE DEF list
  <1>10. /\ SortedById(list) /\ Len(list) = Cardinality(recorded)
         /\ \A h \in Holder : FirstNames(list, h, convertedBy[h])
    BY DEF RecordsInv, FoldIsFaithful, list
  <1>11. CASE Record(e)
    <2>1. last = <<r>>
      BY <1>3, <1>11 DEF last
    <2>2. /\ SortedById(FoldSoFar') /\ Len(FoldSoFar') = Len(list) + 1
          /\ \A h \in Holder, d \in Holder \cup {None} :
                    FirstNames(list, h, d) =>
                        FirstNames(FoldSoFar', h,
                            IF h = r.id /\ d = None THEN r.convertedBy ELSE d)
      BY <1>3, <1>7, <1>9, <1>10, <1>11, <2>1, RecordMerged
    <2>3. Cardinality(recorded') = Cardinality(recorded) + 1
      <3>1. IsFiniteSet(recorded)
        BY FS_Subset, PopulationAssumption DEF RecordsInv, IInv, TypeOK
      <3>2. QED
        BY <1>1, <1>3, <1>11, <3>1, FS_AddElement
    <2>4. \A h \in Holder : FirstNames(FoldSoFar', h, convertedBy'[h])
      <3>1. \A h \in Holder : convertedBy[h] \in Holder \cup {None}
        BY DEF RecordsInv, IInv, TypeOK
      <3>2. QED
        BY <1>3, <1>10, <1>11, <2>2, <3>1
    <2>5. QED
      BY <1>1, <1>3, <1>8, <1>10, <1>11, <2>2, <2>3, <2>4
      DEF RecordsInv, FoldIsFaithful, SortedById, FirstNames, S
  <1>12. CASE ~Record(e)
    <2>1. last = <<>>
      BY <1>1, <1>4, <1>12 DEF last
    <2>2. FoldSoFar' = list
      BY <1>9, <2>1 DEF MergeListTransactionRecords
    <2>3. QED
      BY <1>1, <1>4, <1>8, <1>10, <1>12, <2>2
      DEF RecordsInv, FoldIsFaithful, SortedById, FirstNames, S
  <1>13. QED
    BY <1>11, <1>12

LEMMA RecordsStep == RecordsInv /\ [RecordsNext]_<<vars, listVars>> => RecordsInv'
  <1> SUFFICES ASSUME RecordsInv, [RecordsNext]_<<vars, listVars>> PROVE RecordsInv'
    OBVIOUS
  <1>1. IInv'
    BY NextInvariant, RecordsNextIsNext DEF RecordsInv
  <1>2. ASSUME UNCHANGED <<untested, recorded, convertedBy, vecConversions>>,
               \/ conversionRecs' = FoldSoFar
               \/ /\ conversionRecs' = conversionRecs
                  /\ \/ step \in {"converting", "converted", "aborted"}
                     \/ step' \notin {"converting", "converted", "aborted"}
        PROVE  RecordsInv'
    <2>1. FoldSoFar' = FoldSoFar
      BY <1>2 DEF FoldSoFar
    <2>2. QED
      BY <1>1, <1>2, <2>1 DEF RecordsInv, FoldIsFaithful, SortedById, FirstNames
  <1>3. CASE Fold
    BY <1>2, <1>3 DEF Fold, ProcessConversions, recordVars, FoldSoFar
  <1>4. CASE (\E h \in Holder : Skip(h) \/ Convert(h)) /\ UNCHANGED listVars
    BY <1>2, <1>4 DEF Skip, Convert, recordVars, listVars
  <1>5. CASE Return /\ UNCHANGED listVars
    BY <1>2, <1>5 DEF Return, recordVars, listVars
  <1>6. CASE UNCHANGED <<vars, listVars>>
    BY <1>2, <1>6 DEF vars, conversionVars, recordVars, listVars
  <1>7. QED
    BY <1>1, <1>3, <1>4, <1>5, <1>6, HandleStep DEF RecordsNext

(* With lists of records or without, the conversions are the same. *)
THEOREM ListsImplementRecords == RecordsSpec => Spec
  <1>1. RecordsInit => Init
    BY DEF RecordsInit
  <1>2. QED
    BY <1>1, RecordsNextIsNext, PTL DEF RecordsSpec, Spec

(* The fold of the lists is searched for what Conversion.tla says of it. *)
THEOREM ListsAreFaithful == RecordsSpec => []ListIsFaithful
  <1>1. RecordsInv => ListIsFaithful
    <2> SUFFICES ASSUME RecordsInv, step \in {"converting", "converted", "aborted"}
                 PROVE  /\ Len(conversionRecs) = Cardinality(recorded)
                        /\ \A h \in Holder :
                                LookupConversionRecord(h) = convertedBy[h]
      BY DEF ListIsFaithful
    <2>1. /\ Len(conversionRecs) = Cardinality(recorded)
          /\ \A h \in Holder : FirstNames(conversionRecs, h, convertedBy[h])
      BY DEF RecordsInv, FoldIsFaithful
    <2>2. conversionRecs \in Seq(Conversions)
      <3>1. <<>> \in Seq(Conversions)
        OBVIOUS
      <3>2. QED
        BY <3>1, LeftFoldType DEF RecordsInv, FoldSoFar
    <2>3. ASSUME NEW h \in Holder
          PROVE  LookupConversionRecord(h) = convertedBy[h]
      <3> DEFINE found == {i \in DOMAIN conversionRecs : conversionRecs[i].id = h}
      <3>1. found \subseteq Nat /\ DOMAIN conversionRecs = 1 .. Len(conversionRecs)
        BY <2>2
      <3>2. LookupConversionRecord(h) =
                IF found = {} THEN None ELSE conversionRecs[Min(found)].convertedBy
        BY DEF LookupConversionRecord
      <3>3. CASE convertedBy[h] = None
        BY <2>1, <3>1, <3>2, <3>3 DEF FirstNames
      <3>4. CASE convertedBy[h] # None
        <4>1. PICK i \in found : /\ conversionRecs[i].convertedBy = convertedBy[h]
                                 /\ \A j \in found : i <= j
          BY <2>1, <3>1, <3>4 DEF FirstNames
        <4>2. Min(found) = i
          <5> HIDE DEF found
          <5>1. Min(found) \in found /\ \A j \in found : Min(found) <= j
            BY <3>1, <4>1, MinOfIndices
          <5>2. Min(found) <= i /\ i <= Min(found) /\ i \in Nat /\ Min(found) \in Nat
            BY <3>1, <4>1, <5>1
          <5>3. QED
            BY <5>2
        <4>3. QED
          BY <3>2, <4>1, <4>2
      <3>5. QED
        BY <3>3, <3>4
    <2>4. QED
      BY <2>1, <2>3
  <1>2. QED
    BY <1>1, InitRecordsInv, RecordsStep, PTL DEF RecordsSpec

-----------------------------------------------------------------------------
(* A list names as many ids as it has records exactly if no two of its       *)
(* records are of one id.                                                    *)
LEMMA AsManyIdsAsRecords ==
    ASSUME NEW list \in Seq(Conversions)
    PROVE  Cardinality(IdsOf(list)) # Len(list) <=>
                \E i, j \in DOMAIN list : i # j /\ list[i].id = list[j].id
  <1> DEFINE D == 1 .. Len(list)
             T == IdsOf(list)
             id == [i \in D |-> list[i].id]
  <1>1. DOMAIN list = D /\ Len(list) \in Nat
    OBVIOUS
  <1>2. IsFiniteSet(D) /\ Cardinality(D) = Len(list)
    <2>1. Cardinality(1 .. Len(list)) = IF 1 > Len(list) THEN 0 ELSE Len(list) - 1 + 1
      BY <1>1, FS_Interval
    <2>2. IsFiniteSet(1 .. Len(list))
      BY <1>1, FS_Interval
    <2>3. QED
      BY <1>1, <2>1, <2>2
  <1>3. id \in Surjection(D, T)
    <2>1. T = {list[i].id : i \in D}
      BY <1>1 DEF IdsOf
    <2>2. id \in [D -> T] /\ \A t \in T : \E i \in D : id[i] = t
      BY <2>1
    <2>3. QED
      BY <2>2 DEF Surjection
  <1>4. Cardinality(T) = Cardinality(D) <=> id \in Injection(D, T)
    BY <1>2, <1>3, FS_Surjection
  <1>5. id \in Injection(D, T) <=>
            \A i, j \in D : list[i].id = list[j].id => i = j
    <2>1. id \in [D -> T] /\ DOMAIN id = D /\ \A i \in D : id[i] = list[i].id
      BY <1>3 DEF Surjection
    <2> HIDE DEF id
    <2>2. IsInjective(id) <=> \A i, j \in D : id[i] = id[j] => i = j
      BY <2>1 DEF IsInjective
    <2>3. QED
      BY <2>1, <2>2 DEF Injection
  <1> HIDE DEF id
  <1>6. QED
    BY <1>1, <1>2, <1>4, <1>5

(* The ids of the fold are the vertices that will be found to have a record. *)
LEMMA IdsAreConverted ==
    ASSUME RecordsInv, step \in {"converting", "converted", "aborted"}
    PROVE  /\ conversionRecs \in Seq(Conversions)
           /\ Len(conversionRecs) = Cardinality(recorded)
           /\ IdsOf(conversionRecs) = {h \in Holder : HasRecord(h)}
  <1> DEFINE list == conversionRecs
  <1>1. /\ Len(list) = Cardinality(recorded)
        /\ \A h \in Holder : FirstNames(list, h, convertedBy[h])
    BY DEF RecordsInv, FoldIsFaithful
  <1>2. list \in Seq(Conversions)
    <2>1. <<>> \in Seq(Conversions)
      OBVIOUS
    <2>2. QED
      BY <2>1, LeftFoldType DEF RecordsInv, FoldSoFar
  <1>3. DOMAIN list = 1 .. Len(list)
    BY <1>2
  <1>4. \A i \in 1 .. Len(list) : list[i].id \in Holder
    <2>1. \A i \in 1 .. Len(list) : list[i] \in Conversions
      BY <1>2
    <2>2. QED
      BY <2>1 DEF Conversions
  <1>5. ASSUME NEW h \in Holder
        PROVE  HasRecord(h) <=> \E i \in 1 .. Len(list) : list[i].id = h
    BY <1>1 DEF FirstNames, HasRecord
  <1>6. IdsOf(list) = {list[i].id : i \in 1 .. Len(list)}
    BY <1>3 DEF IdsOf
  <1>7. QED
    BY <1>1, <1>2, <1>4, <1>5, <1>6

(* The conversions are as many as the consumers that are named in the list,  *)
(* and the final assertion fails in a Debug build exactly if it names one    *)
(* of them twice, which is to say that it was won over on two edges.         *)
THEOREM OnlyRivalsAbort == RecordsSpec => []AbortsOnlyOnRivals
  <1>1. RecordsInv /\ CountInv => AbortsOnlyOnRivals
    <2> SUFFICES ASSUME RecordsInv, CountInv, step \in {"converted", "aborted"}
                 PROVE  /\ numConversions = Cardinality(IdsOf(conversionRecs))
                        /\ step = "aborted" <=> Debug /\
                            \E i, j \in DOMAIN conversionRecs :
                                i # j /\ conversionRecs[i].id = conversionRecs[j].id
      BY DEF AbortsOnlyOnRivals
    <2>1. /\ conversionRecs \in Seq(Conversions)
          /\ Len(conversionRecs) = Cardinality(recorded)
          /\ IdsOf(conversionRecs) = {h \in Holder : HasRecord(h)}
      BY IdsAreConverted
    <2>2. numConversions = Cardinality(IdsOf(conversionRecs))
      BY <2>1 DEF CountInv, Counted, IInv, AllVisited, Converted
    <2>3. step = "aborted" <=> Debug /\ numConversions # Cardinality(recorded)
      BY DEF CountInv, AbortedForAReason
    <2>4. QED
      BY <2>1, <2>2, <2>3, AsManyIdsAsRecords
  <1>2. RecordsSpec => []RecordsInv
    BY InitRecordsInv, RecordsStep, PTL DEF RecordsSpec
  <1>3. QED
    BY <1>1, <1>2, ListsImplementRecords, CountInvariance, PTL
=============================================================================
