------------------------------ MODULE PagesProofs ------------------------------
(***************************************************************************)
(* Proofs about the parts of Pages, for any labels, securities, pools, runs,*)
(* reports, dates, ranges and bounds: the master data store, the three      *)
(* analysis pages, the import page and the whole run of an analysis.        *)
(*                                                                          *)
(* Each part has an inductive invariant of its own: StoreInv below, PageInv *)
(* in the module of each page, and IInv of AnalysisRunProofs.  The last     *)
(* section composes them.                                                   *)
(***************************************************************************)
EXTENDS Pages, FiniteSetTheorems, TLAPS

-----------------------------------------------------------------------------
(* The store of the master data.                                            *)

(* Members of a pool are bound, and what is bound exists: the inductive     *)
(* form of MembersAreBound, which says also that a binding is a pair.       *)
BoundInv ==
    /\ labels \subseteq securities \X DOMAIN classes
    /\ \A w \in DOMAIN lists : \A s \in DOMAIN lists[w] : <<s, lists[w][s]>> \in labels

(* A step that takes nothing away keeps it.                                 *)
LEMMA GrowingKeepsBound ==
    ASSUME BoundInv, lists' = lists, labels \subseteq labels',
           labels' \subseteq securities' \X DOMAIN classes'
    PROVE  BoundInv'
BY DEF BoundInv

LEMMA LabelSteps ==
    ASSUME BoundInv, NEW c, NEW n,
           \/ CreateClassification(n) \/ RenameClassification(c, n)
           \/ SetClassificationAliases(c, n) \/ DeleteClassification(c)
           \/ MergeClassification(c, n)
    PROVE  BoundInv'
<1>1. CASE CreateClassification(n)
  BY <1>1, GrowingKeepsBound DEF CreateClassification, With, BoundInv
<1>2. CASE RenameClassification(c, n)
  BY <1>2, GrowingKeepsBound DEF RenameClassification, BoundInv
<1>3. CASE SetClassificationAliases(c, n)
  BY <1>3, GrowingKeepsBound DEF SetClassificationAliases, BoundInv
<1>4. CASE DeleteClassification(c)
  <2>1. labels \subseteq securities \X DOMAIN Without(classes, c)
    BY <1>4 DEF DeleteClassification, Without, BoundInv
  <2> QED
    BY <1>4, <2>1, GrowingKeepsBound DEF DeleteClassification
<1>5. CASE MergeClassification(c, n)
  <2>1. /\ labels' = {IF b[2] = c THEN <<b[1], n>> ELSE b : b \in labels}
        /\ DOMAIN classes' = DOMAIN classes \ {c} /\ n \in DOMAIN classes \ {c}
        /\ securities' = securities
    BY <1>5 DEF MergeClassification, Without
  <2>2. labels' \subseteq securities' \X DOMAIN classes'
    BY <2>1 DEF BoundInv
  <2>3. DOMAIN lists' = DOMAIN lists
    BY <1>5 DEF MergeClassification
  <2>4. ASSUME NEW w \in DOMAIN lists', NEW s \in DOMAIN lists'[w]
        PROVE  <<s, lists'[w][s]>> \in labels'
    <3>1. /\ s \in DOMAIN lists[w]
          /\ lists'[w][s] = IF lists[w][s] = c THEN n ELSE lists[w][s]
      BY <1>5, <2>3, <2>4 DEF MergeClassification
    <3>2. <<s, lists[w][s]>> \in labels
      BY <2>3, <3>1 DEF BoundInv
    <3> DEFINE b == <<s, lists[w][s]>>
    <3>3. (IF b[2] = c THEN <<b[1], n>> ELSE b) \in labels'
      BY <2>1, <3>2
    <3>4. (IF b[2] = c THEN <<b[1], n>> ELSE b) = <<s, lists'[w][s]>>
      BY <3>1
    <3> QED
      BY <3>3, <3>4
  <2> QED
    BY <2>2, <2>4 DEF BoundInv
<1> QED
  BY <1>1, <1>2, <1>3, <1>4, <1>5

LEMMA SecuritySteps ==
    ASSUME BoundInv, NEW s, NEW wanted,
           DeleteSecurity(s) \/ SetSecurityClassifications(s, wanted)
    PROVE  BoundInv'
<1>1. CASE DeleteSecurity(s)
  <2>1. labels' \subseteq securities' \X DOMAIN classes'
    BY <1>1 DEF DeleteSecurity, BoundInv
  <2>2. ASSUME NEW w \in DOMAIN lists', NEW m \in DOMAIN lists'[w]
        PROVE  <<m, lists'[w][m]>> \in labels'
    <3>1. m # s /\ w \in DOMAIN lists /\ m \in DOMAIN lists[w] /\ lists'[w][m] = lists[w][m]
      BY <1>1, <2>2 DEF DeleteSecurity, Without
    <3>2. <<m, lists[w][m]>> \in labels
      BY <3>1 DEF BoundInv
    <3> QED
      BY <1>1, <3>1, <3>2 DEF DeleteSecurity
  <2> QED
    BY <2>1, <2>2 DEF BoundInv
<1>2. CASE SetSecurityClassifications(s, wanted)
  <2> DEFINE old == LabelsOf(s)
             heirs == IF wanted \cap old # {} THEN wanted \cap old ELSE wanted
  <2>1. /\ s \in securities /\ wanted \subseteq DOMAIN classes
        /\ labels' = {b \in labels : b[1] # s} \cup {<<s, c>> : c \in wanted}
        /\ securities' = securities /\ classes' = classes
    BY <1>2 DEF SetSecurityClassifications
  <2>2. labels' \subseteq securities' \X DOMAIN classes'
    BY <2>1 DEF BoundInv
  <2>3. ASSUME NEW w \in DOMAIN lists', NEW m \in DOMAIN lists'[w]
        PROVE  <<m, lists'[w][m]>> \in labels'
    <3>1. CASE wanted = {}
      <4>0. lists' = [v \in DOMAIN lists |-> Without(lists[v], s)]
        BY <1>2, <3>1 DEF SetSecurityClassifications
      <4>1. m # s /\ w \in DOMAIN lists /\ m \in DOMAIN lists[w] /\ lists'[w][m] = lists[w][m]
        BY <2>3, <4>0 DEF Without
      <4>2. <<m, lists[w][m]>> \in labels
        BY <4>1 DEF BoundInv
      <4> QED
        BY <2>1, <4>1, <4>2
    <3>2. CASE wanted # {}
      <4>1. PICK heir \in heirs :
                lists' = [v \in DOMAIN lists |-> Moved(lists[v], s, old \ wanted, heir)]
        BY <1>2, <3>2 DEF SetSecurityClassifications
      <4>2. /\ w \in DOMAIN lists /\ m \in DOMAIN lists[w]
            /\ lists'[w][m] = IF m = s /\ lists[w][m] \in old \ wanted THEN heir ELSE lists[w][m]
        BY <2>3, <4>1 DEF Moved
      <4>3. <<m, lists[w][m]>> \in labels /\ lists[w][m] \in DOMAIN classes
        BY <4>2 DEF BoundInv
      <4>4. heir \in wanted
        BY <4>1
      <4>5. CASE m # s
        BY <2>1, <4>2, <4>3, <4>5
      <4>6. CASE m = s
        <5>1. lists[w][m] \in old
          BY <4>3, <4>6 DEF LabelsOf
        <5>2. lists'[w][m] \in wanted
          BY <4>2, <4>4, <4>6, <5>1
        <5> QED
          BY <2>1, <4>6, <5>2
      <4> QED
        BY <4>5, <4>6
    <3> QED
      BY <3>1, <3>2
  <2> QED
    BY <2>2, <2>3 DEF BoundInv
<1> QED
  BY <1>1, <1>2

LEMMA PoolSteps ==
    ASSUME BoundInv, NEW w, NEW s, NEW c,
           \/ CreateWatchlist(w) \/ DeleteWatchlist(w)
           \/ AddWatchlistMembers(w, [m \in {s} |-> c])
           \/ SetWatchlistMemberBinding(w, s, c)
           \/ RemoveWatchlistMembers(w, {s})
    PROVE  BoundInv'
<1>1. labels' = labels /\ securities' = securities /\ classes' = classes
  BY DEF CreateWatchlist, DeleteWatchlist, AddWatchlistMembers, SetWatchlistMemberBinding,
         RemoveWatchlistMembers, Lists_
<1>2. ASSUME NEW v \in DOMAIN lists', NEW m \in DOMAIN lists'[v]
      PROVE  <<m, lists'[v][m]>> \in labels
  <2>1. CASE CreateWatchlist(w)
    BY <1>2, <2>1 DEF CreateWatchlist, Lists_, With, Empty, BoundInv
  <2>2. CASE DeleteWatchlist(w)
    BY <1>2, <2>2 DEF DeleteWatchlist, Lists_, Without, BoundInv
  <2>3. CASE AddWatchlistMembers(w, [x \in {s} |-> c])
    <3> DEFINE chosen == [x \in {s} |-> c]
               members == lists[w]
    <3>1. /\ lists' = [lists EXCEPT ![w] = [x \in DOMAIN chosen \cup DOMAIN members |->
                                 IF x \in DOMAIN members THEN members[x] ELSE chosen[x]]]
          /\ s \notin DOMAIN members => <<s, c>> \in labels
          /\ w \in DOMAIN lists
      BY <2>3 DEF AddWatchlistMembers, Lists_
    <3>2. CASE v # w
      BY <1>2, <3>1, <3>2 DEF BoundInv
    <3>3. CASE v = w
      <4>1. lists'[v] = [x \in {s} \cup DOMAIN members |->
                                 IF x \in DOMAIN members THEN members[x] ELSE c]
        BY <3>1, <3>3
      <4>2. lists'[v][m] = IF m \in DOMAIN lists[w] THEN lists[w][m] ELSE c
        BY <1>2, <4>1
      <4>3. m = s \/ m \in DOMAIN lists[w]
        BY <1>2, <4>1
      <4> QED
        BY <3>1, <4>2, <4>3 DEF BoundInv
    <3> QED
      BY <3>2, <3>3
  <2>4. CASE SetWatchlistMemberBinding(w, s, c)
    <3>1. /\ lists' = [lists EXCEPT ![w] = With(lists[w], s, c)]
          /\ w \in DOMAIN lists /\ <<s, c>> \in labels
      BY <2>4 DEF SetWatchlistMemberBinding, Lists_
    <3>2. CASE v # w
      BY <1>2, <3>1, <3>2 DEF BoundInv
    <3>3. CASE v = w
      <4>1. lists'[v] = With(lists[w], s, c)
        BY <3>1, <3>3
      <4> QED
        BY <1>2, <3>1, <4>1 DEF BoundInv, With
    <3> QED
      BY <3>2, <3>3
  <2>5. CASE RemoveWatchlistMembers(w, {s})
    <3>1. /\ lists' = [lists EXCEPT ![w] = [x \in DOMAIN lists[w] \ {s} |-> lists[w][x]]]
          /\ w \in DOMAIN lists
      BY <2>5 DEF RemoveWatchlistMembers, Lists_
    <3>2. CASE v # w
      BY <1>2, <3>1, <3>2 DEF BoundInv
    <3>3. CASE v = w
      <4>1. lists'[v] = [x \in DOMAIN lists[w] \ {s} |-> lists[w][x]]
        BY <3>1, <3>3
      <4> QED
        BY <1>2, <3>1, <4>1 DEF BoundInv
    <3> QED
      BY <3>2, <3>3
  <2> QED
    BY <2>1, <2>2, <2>3, <2>4, <2>5
<1> QED
  BY <1>1, <1>2 DEF BoundInv

(* What a commit leaves of the labels its batch resolved, and calls them.   *)
LEMMA CommittedLabels ==
    ASSUME ImportCommits, NEW l \in BatchLabels
    PROVE  /\ l.id \in DOMAIN classes'
           /\ \E k \in BatchLabels : k.id = l.id /\ k.name = classes'[l.id].name
<1>1. PICK R \in Records :
         /\ BatchFits(R)
         /\ classes' = [c \in DOMAIN classes \cup {k.id : k \in {m \in R : Called(m.name) = {}}} |->
                           IF c \in DOMAIN classes THEN classes[c]
                           ELSE [name |-> (CHOOSE k \in {m \in R : Called(m.name) = {}} : k.id = c).name,
                                 aliases |-> {}]]
  BY DEF ImportCommits
<1> DEFINE added == {m \in R : Called(m.name) = {}}
<1>2. R \subseteq BatchLabels /\ {k.id : k \in R} = {k.id : k \in BatchLabels}
  BY DEF Records
<1>3. PICK k \in R : k.id = l.id
  BY <1>2
<1>4. Fits(k)
  BY <1>1 DEF BatchFits
<1>5. CASE Called(k.name) = {}
  <2>1. k.id \notin DOMAIN classes /\ k \in added
    BY <1>4, <1>5 DEF Fits
  <2> DEFINE j == CHOOSE m \in added : m.id = k.id
  <2>2. j \in added /\ j.id = k.id
    BY <2>1
  <2>3. k.id \in {m.id : m \in added}
    BY <2>1
  <2>4. classes'[k.id] = [name |-> j.name, aliases |-> {}] /\ k.id \in DOMAIN classes'
    BY <1>1, <2>1, <2>3
  <2> HIDE DEF added, j
  <2>5. j \in BatchLabels /\ j.id = l.id /\ j.name = classes'[l.id].name
    <3>1. added \subseteq R
      BY DEF added
    <3> QED
      BY <1>2, <1>3, <2>2, <2>4, <3>1
  <2> QED
    BY <1>3, <2>4, <2>5
<1>6. CASE Called(k.name) # {}
  <2>1. k.id \in Called(k.name)
    BY <1>4, <1>6 DEF Fits
  <2>2. k.id \in DOMAIN classes /\ classes[k.id].name = k.name
    BY <2>1 DEF Called
  <2>3. k.id \in DOMAIN classes' /\ classes'[k.id] = classes[k.id]
    BY <1>1, <2>2
  <2> QED
    BY <1>2, <1>3, <2>2, <2>3
<1> QED
  BY <1>5, <1>6

LEMMA BackgroundSteps ==
    ASSUME BoundInv, NEW s,
           \/ ImportReads \/ ImportCommits \/ ImportFails \/ ImportEnds
           \/ ReanalysisReads(s) \/ AddAiClassifications \/ ReanalysisEnds
           \/ \E bound : OtherImportCommits(s, bound)
    PROVE  BoundInv'
<1>1. CASE ImportReads \/ ImportFails \/ ImportEnds \/ ReanalysisReads(s) \/ ReanalysisEnds
  BY <1>1, GrowingKeepsBound
     DEF ImportReads, ImportFails, ImportEnds, ReanalysisReads, ReanalysisEnds, tables, BoundInv
<1>2. CASE ImportCommits
  <2> DEFINE inserted == {x \in DOMAIN import.batch : ~Stored(x)}
  <2>1. /\ securities' = securities \cup {NewId(x) : x \in inserted}
        /\ labels' = labels \cup UNION {{<<NewId(x), l.id>> : l \in import.batch[x]} : x \in inserted}
        /\ DOMAIN classes \subseteq DOMAIN classes' /\ lists' = lists
    BY <1>2 DEF ImportCommits
  <2>2. ASSUME NEW b \in labels' PROVE b \in securities' \X DOMAIN classes'
    <3>1. CASE b \in labels
      BY <2>1, <3>1 DEF BoundInv
    <3>2. ASSUME NEW x \in inserted, NEW l \in import.batch[x], b = <<NewId(x), l.id>>
          PROVE  b \in securities' \X DOMAIN classes'
      <4>1. l \in BatchLabels
        BY DEF BatchLabels
      <4> QED
        BY <1>2, <2>1, <3>2, <4>1, CommittedLabels
    <3> QED
      BY <2>1, <2>2, <3>1, <3>2
  <2> QED
    BY <2>1, <2>2, GrowingKeepsBound
<1>3. CASE AddAiClassifications
  <2>1. PICK x \in reanalysis.of : \E new :
           /\ x \in securities /\ securities' = securities /\ lists' = lists
           /\ labels' = labels \cup {<<x, c>> : c \in new}
           /\ DOMAIN classes' = DOMAIN classes \cup new
    BY <1>3 DEF AddAiClassifications, AddAnswers
  <2>2. PICK new :
           /\ x \in securities /\ securities' = securities /\ lists' = lists
           /\ labels' = labels \cup {<<x, c>> : c \in new}
           /\ DOMAIN classes' = DOMAIN classes \cup new
    BY <2>1
  <2> QED
    BY <2>2, GrowingKeepsBound DEF BoundInv
<1>4. ASSUME NEW bound, OtherImportCommits(s, bound) PROVE BoundInv'
  <2>1. /\ securities' = securities \cup {NewId(s)} /\ UNCHANGED <<classes, lists>>
        /\ labels' = labels \cup {<<NewId(s), c>> : c \in bound} /\ bound \subseteq DOMAIN classes
    BY <1>4 DEF OtherImportCommits
  <2> QED
    BY <2>1, GrowingKeepsBound DEF BoundInv
<1> QED
  BY <1>1, <1>2, <1>3, <1>4

LEMMA BoundInit == Init => BoundInv
BY DEF Init, Empty, BoundInv

LEMMA BoundStep == BoundInv /\ [Next]_vars => BoundInv'
<1> SUFFICES ASSUME BoundInv, [Next]_vars PROVE BoundInv'
  OBVIOUS
<1>1. CASE UNCHANGED vars
  BY <1>1 DEF vars, BoundInv
<1> QED
  BY <1>1, LabelSteps, SecuritySteps, PoolSteps, BackgroundSteps DEF Next

LEMMA BoundMembers == BoundInv => MembersAreBound
BY DEF BoundInv, MembersAreBound

(* Members of a pool, their labels and their securities exist, whatever is  *)
(* deleted, merged, relabeled or imported meanwhile                         *)
(* (master_data_store.py _watchlist_dto).                                   *)
THEOREM PoolsAreBound == Spec => []MembersAreBound
<1>1. Init => BoundInv
  BY BoundInit
<1>2. BoundInv /\ [Next]_vars => BoundInv'
  BY BoundStep
<1>3. BoundInv => MembersAreBound
  BY BoundMembers
<1> QED
  BY <1>1, <1>2, <1>3, PTL DEF Spec

-----------------------------------------------------------------------------
(* What a step does to the pools when it changes labels.                    *)
LEMMA RelabelingKeeps ==
    ASSUME [Next]_vars
    PROVE  RelabelingKeepsMembers
<1> SUFFICES ASSUME NEW w \in DOMAIN lists, NEW s \in DOMAIN lists[w], labels' # labels,
                    s \in securities', NEW c \in DOMAIN classes', <<s, c>> \in labels'
             PROVE  w \in DOMAIN lists' /\ s \in DOMAIN lists'[w]
  BY DEF RelabelingKeepsMembers
<1>1. ASSUME NEW d, NEW e, MergeClassification(d, e)
      PROVE  w \in DOMAIN lists' /\ s \in DOMAIN lists'[w]
  BY <1>1 DEF MergeClassification
<1>2. ASSUME NEW x, DeleteSecurity(x) PROVE w \in DOMAIN lists' /\ s \in DOMAIN lists'[w]
  BY <1>2 DEF DeleteSecurity, Without
<1>3. ASSUME NEW x, NEW wanted, SetSecurityClassifications(x, wanted)
      PROVE  w \in DOMAIN lists' /\ s \in DOMAIN lists'[w]
  <2>1. CASE wanted = {}
    <3>1. /\ lists' = [v \in DOMAIN lists |-> Without(lists[v], x)]
          /\ labels' = {b \in labels : b[1] # x} \cup {<<x, d>> : d \in wanted}
      BY <1>3, <2>1 DEF SetSecurityClassifications
    <3>2. s # x
      BY <2>1, <3>1
    <3> QED
      BY <3>1, <3>2 DEF Without
  <2>2. CASE wanted # {}
    BY <1>3, <2>2 DEF SetSecurityClassifications, Moved
  <2> QED
    BY <2>1, <2>2
<1>4. CASE \/ ImportCommits \/ AddAiClassifications
            \/ \E x, bound : OtherImportCommits(x, bound)
  <2>1. lists' = lists
    BY <1>4 DEF ImportCommits, AddAiClassifications, OtherImportCommits
  <2> QED
    BY <2>1
<1>5. ASSUME NEW x, NEW d,
             \/ CreateClassification(x) \/ RenameClassification(d, x)
             \/ SetClassificationAliases(d, x) \/ DeleteClassification(d) \/ ReanalysisReads(x)
             \/ CreateWatchlist(x) \/ DeleteWatchlist(x)
      PROVE  labels' = labels
  BY <1>5 DEF CreateClassification, RenameClassification, SetClassificationAliases,
     DeleteClassification, ReanalysisReads, CreateWatchlist, DeleteWatchlist, Lists_, tables
<1>6. ASSUME NEW v, NEW x, NEW d,
             \/ AddWatchlistMembers(v, [m \in {x} |-> d]) \/ SetWatchlistMemberBinding(v, x, d)
             \/ RemoveWatchlistMembers(v, {x})
      PROVE  labels' = labels
  BY <1>6 DEF AddWatchlistMembers, SetWatchlistMemberBinding, RemoveWatchlistMembers, Lists_
<1>7. ImportReads \/ ImportFails \/ ImportEnds \/ ReanalysisEnds \/ UNCHANGED vars => labels' = labels
  BY DEF ImportReads, ImportFails, ImportEnds, ReanalysisEnds, tables, vars
<1> QED
  BY <1>1, <1>2, <1>3, <1>4, <1>5, <1>6, <1>7 DEF Next

(* Only a commit ends an import as committed.                               *)
LEMMA OnlyCommits ==
    ASSUME [Next]_vars, import.state = "asking", import'.state = "committed"
    PROVE  ImportCommits
<1>1. import' # import
  OBVIOUS
<1>2. ASSUME NEW x, NEW d,
             \/ CreateClassification(x) \/ RenameClassification(d, x)
             \/ SetClassificationAliases(d, x) \/ DeleteClassification(d)
             \/ MergeClassification(d, x) \/ DeleteSecurity(x) \/ ReanalysisReads(x)
             \/ SetSecurityClassifications(d, x) \/ CreateWatchlist(x) \/ DeleteWatchlist(x)
      PROVE  import' = import
  BY <1>2 DEF CreateClassification, RenameClassification, SetClassificationAliases,
     DeleteClassification, MergeClassification, DeleteSecurity, ReanalysisReads,
     SetSecurityClassifications, CreateWatchlist, DeleteWatchlist, Lists_, Background
<1>3. ASSUME NEW v, NEW x, NEW d,
             \/ AddWatchlistMembers(v, [m \in {x} |-> d]) \/ SetWatchlistMemberBinding(v, x, d)
             \/ RemoveWatchlistMembers(v, {x})
      PROVE  import' = import
  BY <1>3 DEF AddWatchlistMembers, SetWatchlistMemberBinding, RemoveWatchlistMembers, Lists_, Background
<1>4. /\ AddAiClassifications \/ ReanalysisEnds \/ UNCHANGED vars => import' = import
      /\ \A x, bound : OtherImportCommits(x, bound) => import' = import
  BY DEF AddAiClassifications, ReanalysisEnds, vars, OtherImportCommits, Background
<1>5. ~ImportReads /\ ~ImportFails /\ ~ImportEnds
  <2>1. ImportFails => import' = [import EXCEPT !.state = "failed"]
    BY DEF ImportFails
  <2>2. [import EXCEPT !.state = "failed"].state # "committed"
    OBVIOUS
  <2>3. ~ImportFails
    BY <2>1, <2>2
  <2>4. ~ImportReads
    BY DEF ImportReads
  <2>5. ImportEnds => import' = NoImport
    BY DEF ImportEnds
  <2>6. NoImport.state = "none"
    BY DEF NoImport
  <2> QED
    BY <2>3, <2>4, <2>5, <2>6
<1> QED
  BY <1>1, <1>2, <1>3, <1>4, <1>5 DEF Next

(* Relabeling and merging take no security that keeps a label out of a      *)
(* pool, and an import binds what it resolved although labels were renamed, *)
(* merged, deleted or created while it asked (master_data_store.py,         *)
(* import_writer.py).                                                       *)
THEOREM MeaningIsKept == Spec => WritesKeepMeaning
<1>1. [Next]_vars => [RelabelingKeepsMembers /\ ImportBindsWhatItResolved]_vars
  <2> SUFFICES ASSUME [Next]_vars PROVE RelabelingKeepsMembers /\ ImportBindsWhatItResolved
    OBVIOUS
  <2>1. ImportBindsWhatItResolved
    BY OnlyCommits, CommittedLabels DEF ImportBindsWhatItResolved
  <2> QED
    BY <2>1, RelabelingKeeps
<1> QED
  BY <1>1, PTL DEF Spec, WritesKeepMeaning

-----------------------------------------------------------------------------
(* Types of the store.                                                      *)
ClassRows == [name : Names, aliases : SUBSET Names]
Resolutions == [id : ClassIds, name : Names, was : Names \cup {""}]

(* What an import carries from the moment it read to its commit, and an     *)
(* answer to a reanalysis: names of labels, no more of them than a security *)
(* may have, and a symbol whose row is still to be spent.                   *)
BatchInv ==
    /\ import \in [state : {"none", "asking", "committed", "failed"}, batch : {import.batch}]
    /\ \A s \in DOMAIN import.batch :
          /\ s \in Symbols /\ import.batch[s] \subseteq Resolutions
          /\ IsFiniteSet(import.batch[s]) /\ Cardinality(import.batch[s]) <= MaxBound
    /\ \A p \in reanalysis.proposals : p.name \in Names

StoreInv == TypeOK /\ BoundInv /\ BatchInv

LEMMA RowBounds == MaxRows \in Nat /\ MaxBound \in Nat
BY MasterDataAssumption

LEMMA ClassIdsAreFinite == IsFiniteSet(ClassIds)
<1>1. IsFiniteSet(1..MaxRows)
  BY FS_Interval, RowBounds
<1> QED
  BY <1>1, FS_Product, MasterDataAssumption DEF ClassIds

LEMMA ImageIsSmaller ==
    ASSUME NEW S, IsFiniteSet(S), NEW f, DOMAIN f = S
    PROVE  /\ IsFiniteSet({f[x] : x \in S}) /\ Cardinality({f[x] : x \in S}) <= Cardinality(S)
           /\ Cardinality(S) \in Nat /\ Cardinality({f[x] : x \in S}) \in Nat
<1> DEFINE T == {f[x] : x \in S}
           g == [x \in S |-> f[x]]
<1>1. g \in Surjection(S, T)
  BY DEF Surjection
<1>2. IsFiniteSet(T) /\ Cardinality(T) <= Cardinality(S)
  BY <1>1, FS_Surjection
<1> QED
  BY <1>2, FS_CardinalityType

(* The labels of a security are those bound to it, as bound labels exist.   *)
LEMMA LabelsAreBound ==
    ASSUME BoundInv, DOMAIN classes \subseteq ClassIds, NEW s
    PROVE  /\ LabelsOf(s) = {c \in ClassIds : <<s, c>> \in labels}
           /\ IsFiniteSet(LabelsOf(s)) /\ Cardinality(LabelsOf(s)) \in Nat
<1>1. LabelsOf(s) = {c \in ClassIds : <<s, c>> \in labels}
  BY DEF BoundInv, LabelsOf
<1>2. IsFiniteSet(LabelsOf(s))
  BY <1>1, ClassIdsAreFinite, FS_Subset
<1> QED
  BY <1>1, <1>2, FS_CardinalityType

LEMMA LabelsAreBoundNext ==
    ASSUME BoundInv', DOMAIN classes' \subseteq ClassIds, NEW s
    PROVE  LabelsOf(s)' = {c \in ClassIds : <<s, c>> \in labels'}
BY DEF BoundInv, LabelsOf

(* A security whose bindings stay keeps its number of labels.               *)
LEMMA SameLabels ==
    ASSUME StoreInv, BoundInv', DOMAIN classes' \subseteq ClassIds, NEW s \in securities,
           \A c \in ClassIds : <<s, c>> \in labels' <=> <<s, c>> \in labels
    PROVE  Cardinality(LabelsOf(s)') <= MaxBound
<1>1. LabelsOf(s)' = LabelsOf(s)
  BY LabelsAreBound, LabelsAreBoundNext DEF StoreInv, TypeOK
<1> QED
  BY <1>1 DEF StoreInv, TypeOK

LEMMA IdsAreIds ==
    ASSUME TypeOK, NEW n \in Names \cup Symbols, MaySpend(n)
    PROVE  /\ issued[n] + 1 \in 1..MaxRows
           /\ n \in Names => NewId(n) \in ClassIds
           /\ n \in Symbols => NewId(n) \in SecurityIds
<1>1. issued[n] \in 0..MaxRows /\ issued[n] < MaxRows
  BY DEF TypeOK, MaySpend
<1>2. issued[n] + 1 \in 1..MaxRows
  BY <1>1, RowBounds
<1> QED
  BY <1>2 DEF NewId, ClassIds, SecurityIds

(* A step that only moves the tables, and leaves issued numbers alone or    *)
(* spends the number of a name.                                             *)
LEMMA TablesKeep ==
    ASSUME StoreInv, BoundInv', Background,
           DOMAIN classes' \subseteq ClassIds,
           \A c \in DOMAIN classes' : classes'[c] \in ClassRows,
           securities' \subseteq securities,
           \A s \in securities' : Cardinality(LabelsOf(s)') <= MaxBound,
           DOMAIN lists' \subseteq Lists,
           \/ issued' = issued
           \/ \E n \in Names : MaySpend(n) /\ issued' = [issued EXCEPT ![n] = @ + 1]
    PROVE  StoreInv'
<1>1. /\ issued' \in [Names \cup Symbols -> 0..MaxRows]
      /\ \A s \in Symbols : issued'[s] = issued[s]
  <2>1. issued \in [Names \cup Symbols -> 0..MaxRows]
    BY DEF StoreInv, TypeOK
  <2>2. ASSUME NEW n \in Names, MaySpend(n), issued' = [issued EXCEPT ![n] = @ + 1]
        PROVE  /\ issued' \in [Names \cup Symbols -> 0..MaxRows]
               /\ \A s \in Symbols : issued'[s] = issued[s]
    <3>1. issued[n] + 1 \in 1..MaxRows
      BY <2>2, IdsAreIds DEF StoreInv
    <3>2. issued[n] + 1 \in 0..MaxRows
      BY <3>1, RowBounds
    <3>3. n \notin Symbols
      BY MasterDataAssumption
    <3> QED
      BY <2>1, <2>2, <3>2, <3>3
  <2> QED
    BY <2>1, <2>2
<1>2. TypeOK'
  BY <1>1 DEF StoreInv, TypeOK, Background, ClassRows
<1>3. BatchInv'
  BY <1>1 DEF StoreInv, BatchInv, Background, MaySpend
<1> QED
  BY <1>2, <1>3 DEF StoreInv

LEMMA LabelTypes ==
    ASSUME StoreInv, BoundInv', NEW c, NEW n, NEW d, NEW aliases,
           \/ n \in Names /\ (CreateClassification(n) \/ RenameClassification(c, n))
           \/ aliases \in SUBSET Names /\ SetClassificationAliases(c, aliases)
           \/ DeleteClassification(c)
           \/ d \in ClassIds /\ MergeClassification(c, d)
    PROVE  StoreInv'
<1>0. /\ DOMAIN classes \subseteq ClassIds /\ DOMAIN lists \subseteq Lists
      /\ \A x \in DOMAIN classes : classes[x] \in ClassRows
      /\ securities \subseteq SecurityIds
  BY DEF StoreInv, TypeOK, ClassRows
<1>1. CASE n \in Names /\ CreateClassification(n)
  <2>1. /\ MaySpend(n) /\ issued' = [issued EXCEPT ![n] = @ + 1]
        /\ classes' = With(classes, NewId(n), [name |-> n, aliases |-> {}])
        /\ UNCHANGED <<securities, labels, lists>> /\ Background
    BY <1>1 DEF CreateClassification
  <2>2. NewId(n) \in ClassIds
    BY <1>1, <2>1, IdsAreIds DEF StoreInv
  <2>3. /\ DOMAIN classes' \subseteq ClassIds
        /\ \A x \in DOMAIN classes' : classes'[x] \in ClassRows
    BY <1>0, <1>1, <2>1, <2>2 DEF With, ClassRows
  <2>4. \A s \in securities' : Cardinality(LabelsOf(s)') <= MaxBound
    BY <2>1, <2>3, SameLabels
  <2> QED
    BY <1>0, <1>1, <2>1, <2>3, <2>4, TablesKeep
<1>2. CASE \/ n \in Names /\ RenameClassification(c, n)
           \/ aliases \in SUBSET Names /\ SetClassificationAliases(c, aliases)
  <2>1. /\ c \in DOMAIN classes /\ issued' = issued
        /\ \/ n \in Names /\ classes' = [classes EXCEPT ![c].name = n]
           \/ aliases \in SUBSET Names /\ classes' = [classes EXCEPT ![c].aliases = aliases]
        /\ UNCHANGED <<securities, labels, lists>> /\ Background
    BY <1>2 DEF RenameClassification, SetClassificationAliases
  <2>2. /\ DOMAIN classes' \subseteq ClassIds
        /\ \A x \in DOMAIN classes' : classes'[x] \in ClassRows
    BY <1>0, <2>1 DEF ClassRows
  <2>3. \A s \in securities' : Cardinality(LabelsOf(s)') <= MaxBound
    BY <2>1, <2>2, SameLabels
  <2> QED
    BY <1>0, <2>1, <2>2, <2>3, TablesKeep
<1>3. CASE DeleteClassification(c)
  <2>1. /\ classes' = Without(classes, c) /\ issued' = issued
        /\ UNCHANGED <<securities, labels, lists>> /\ Background
    BY <1>3 DEF DeleteClassification
  <2>2. /\ DOMAIN classes' \subseteq ClassIds
        /\ \A x \in DOMAIN classes' : classes'[x] \in ClassRows
    BY <1>0, <2>1 DEF Without
  <2>3. \A s \in securities' : Cardinality(LabelsOf(s)') <= MaxBound
    BY <2>1, <2>2, SameLabels
  <2> QED
    BY <1>0, <2>1, <2>2, <2>3, TablesKeep
<1>4. CASE d \in ClassIds /\ MergeClassification(c, d)
  <2>1. /\ classes' = Without(classes, c) /\ issued' = issued
        /\ labels' = {IF b[2] = c THEN <<b[1], d>> ELSE b : b \in labels}
        /\ DOMAIN lists' = DOMAIN lists
        /\ UNCHANGED securities /\ Background
    BY <1>4 DEF MergeClassification
  <2>2. /\ DOMAIN classes' \subseteq ClassIds
        /\ \A x \in DOMAIN classes' : classes'[x] \in ClassRows
    BY <1>0, <2>1 DEF Without
  <2>3. ASSUME NEW s \in securities PROVE Cardinality(LabelsOf(s)') <= MaxBound
    <3> DEFINE f == [x \in LabelsOf(s) |-> IF x = c THEN d ELSE x]
    <3>1. LabelsOf(s)' = {f[x] : x \in LabelsOf(s)}
      <4>1. labels \subseteq securities \X DOMAIN classes
        BY DEF StoreInv, BoundInv
      <4>2. ASSUME NEW y \in ClassIds, <<s, y>> \in labels'
            PROVE  y \in {f[x] : x \in LabelsOf(s)}
        <5>1. PICK b \in labels : <<s, y>> = IF b[2] = c THEN <<b[1], d>> ELSE b
          BY <2>1, <4>2
        <5>2. b = <<b[1], b[2]>> /\ b[2] \in DOMAIN classes
          BY <4>1
        <5>3. b[1] = s /\ y = IF b[2] = c THEN d ELSE b[2]
          BY <5>1, <5>2
        <5>4. b[2] \in LabelsOf(s)
          BY <5>2, <5>3 DEF LabelsOf
        <5> QED
          BY <5>3, <5>4
      <4>3. ASSUME NEW x \in LabelsOf(s) PROVE f[x] \in ClassIds /\ <<s, f[x]>> \in labels'
        <5>1. <<s, x>> \in labels /\ x \in ClassIds
          BY <1>0 DEF LabelsOf
        <5> DEFINE b == <<s, x>>
        <5>2. (IF b[2] = c THEN <<b[1], d>> ELSE b) \in labels'
          BY <2>1, <5>1
        <5>3. (IF b[2] = c THEN <<b[1], d>> ELSE b) = <<s, f[x]>>
          OBVIOUS
        <5> QED
          BY <1>4, <5>1, <5>2, <5>3
      <4>4. LabelsOf(s)' = {y \in ClassIds : <<s, y>> \in labels'}
        BY <2>2, LabelsAreBoundNext
      <4> HIDE DEF f
      <4> QED
        BY <4>2, <4>3, <4>4
    <3>2. IsFiniteSet(LabelsOf(s)) /\ DOMAIN f = LabelsOf(s)
      BY <1>0, LabelsAreBound DEF StoreInv
    <3>3. Cardinality(LabelsOf(s)) <= MaxBound
      BY DEF StoreInv, TypeOK
    <3> HIDE DEF f
    <3>4. /\ Cardinality(LabelsOf(s)') <= Cardinality(LabelsOf(s))
          /\ Cardinality(LabelsOf(s)) \in Nat /\ Cardinality(LabelsOf(s)') \in Nat
      BY <3>1, <3>2, ImageIsSmaller
    <3> QED
      BY <3>3, <3>4, RowBounds
  <2> QED
    BY <1>0, <2>1, <2>2, <2>3, TablesKeep
<1> QED
  BY <1>1, <1>2, <1>3, <1>4

LEMMA SecurityTypes ==
    ASSUME StoreInv, BoundInv', NEW s, NEW wanted \in SUBSET ClassIds,
           DeleteSecurity(s) \/ SetSecurityClassifications(s, wanted)
    PROVE  StoreInv'
<1>0. /\ DOMAIN classes \subseteq ClassIds /\ DOMAIN lists \subseteq Lists
      /\ \A x \in DOMAIN classes : classes[x] \in ClassRows
  BY DEF StoreInv, TypeOK, ClassRows
<1>1. /\ DOMAIN lists' = DOMAIN lists /\ UNCHANGED <<classes, issued>> /\ Background
      /\ securities' \subseteq securities
  BY DEF DeleteSecurity, SetSecurityClassifications
<1>2. ASSUME NEW t \in securities' PROVE Cardinality(LabelsOf(t)') <= MaxBound
  <2>1. CASE t # s
    <3>1. \A c \in ClassIds : <<t, c>> \in labels' <=> <<t, c>> \in labels
      BY <2>1 DEF DeleteSecurity, SetSecurityClassifications
    <3> QED
      BY <1>0, <1>1, <3>1, SameLabels
  <2>2. CASE t = s
    <3>1. SetSecurityClassifications(s, wanted)
      BY <1>2, <2>2 DEF DeleteSecurity
    <3>2. /\ labels' = {b \in labels : b[1] # s} \cup {<<s, c>> : c \in wanted}
          /\ Cardinality(wanted) <= MaxBound
      BY <3>1 DEF SetSecurityClassifications
    <3>3. LabelsOf(s)' = {c \in ClassIds : <<s, c>> \in labels'}
      BY <1>0, <1>1, LabelsAreBoundNext
    <3>4. LabelsOf(s)' = wanted
      BY <3>2, <3>3
    <3> QED
      BY <2>2, <3>2, <3>4
  <2> QED
    BY <2>1, <2>2
<1> QED
  BY <1>0, <1>1, <1>2, TablesKeep

LEMMA PoolTypes ==
    ASSUME StoreInv, BoundInv', NEW w \in Lists, NEW s, NEW c,
           \/ CreateWatchlist(w) \/ DeleteWatchlist(w)
           \/ AddWatchlistMembers(w, [m \in {s} |-> c])
           \/ SetWatchlistMemberBinding(w, s, c)
           \/ RemoveWatchlistMembers(w, {s})
    PROVE  StoreInv'
<1>0. /\ DOMAIN classes \subseteq ClassIds /\ DOMAIN lists \subseteq Lists
      /\ \A x \in DOMAIN classes : classes[x] \in ClassRows
  BY DEF StoreInv, TypeOK, ClassRows
<1>1. /\ UNCHANGED <<classes, securities, labels, issued>> /\ Background
      /\ DOMAIN lists' \subseteq DOMAIN lists \cup {w}
  BY DEF CreateWatchlist, DeleteWatchlist, AddWatchlistMembers, SetWatchlistMemberBinding,
         RemoveWatchlistMembers, Lists_, With, Without
<1>2. \A t \in securities' : Cardinality(LabelsOf(t)') <= MaxBound
  BY <1>0, <1>1, SameLabels
<1> QED
  BY <1>0, <1>1, <1>2, TablesKeep

(* What an analysis resolves: labels that are there, or new ones.           *)
LEMMA ResolvedTypes ==
    ASSUME TypeOK, NEW n \in Names, Known(n) # {} \/ MaySpend(n)
    PROVE  /\ Resolved(n) \subseteq Resolutions /\ IsFiniteSet(Resolved(n))
           /\ \A l \in Resolved(n) : IsNew(l) => l.name = n /\ MaySpend(n)
<1>0. /\ DOMAIN classes \subseteq ClassIds
      /\ \A x \in DOMAIN classes : classes[x].name \in Names /\ classes[x].name # ""
  BY MasterDataAssumption DEF TypeOK
<1>1. Known(n) \subseteq DOMAIN classes
  BY DEF Known, Called
<1>2. CASE Known(n) = {}
  <2>1. Resolved(n) = {[id |-> NewId(n), name |-> n, was |-> ""]}
    BY <1>2 DEF Resolved
  <2>2. NewId(n) \in ClassIds /\ MaySpend(n)
    BY <1>2, IdsAreIds
  <2> DEFINE l == [id |-> NewId(n), name |-> n, was |-> ""]
  <2>3. l \in Resolutions /\ IsNew(l) /\ l.name = n
    BY <2>2 DEF Resolutions, IsNew
  <2> HIDE DEF l
  <2>4. Resolved(n) = {l} /\ IsFiniteSet({l})
    BY <2>1, FS_Singleton DEF l
  <2> QED
    BY <2>2, <2>3, <2>4
<1>3. CASE Known(n) # {}
  <2> DEFINE f == [c \in Known(n) |-> [id |-> c, name |-> classes[c].name, was |-> classes[c].name]]
             g == [c \in Known(n) |-> [id |-> c, name |-> n, was |-> classes[c].name]]
  <2>1. Resolved(n) = {f[c] : c \in Known(n)} \cup {g[c] : c \in Known(n)}
    BY <1>3 DEF Resolved
  <2>2. IsFiniteSet(Known(n))
    BY <1>0, <1>1, ClassIdsAreFinite, FS_Subset
  <2>3. /\ \A c \in Known(n) : f[c] \in Resolutions /\ f[c].was # ""
        /\ \A c \in Known(n) : g[c] \in Resolutions /\ g[c].was # ""
    BY <1>0, <1>1 DEF Resolutions
  <2>4. DOMAIN f = Known(n) /\ DOMAIN g = Known(n)
    OBVIOUS
  <2> HIDE DEF f, g
  <2>5. IsFiniteSet({f[c] : c \in Known(n)}) /\ IsFiniteSet({g[c] : c \in Known(n)})
    BY <2>2, <2>4, ImageIsSmaller
  <2>6. IsFiniteSet(Resolved(n))
    BY <2>1, <2>5, FS_Union
  <2>7. \A l \in Resolved(n) : l \in Resolutions /\ l.was # ""
    BY <2>1, <2>3
  <2> QED
    BY <2>6, <2>7 DEF IsNew
<1> QED
  BY <1>2, <1>3

LEMMA ProposalTypes ==
    ASSUME TypeOK, NEW p \in Proposals
    PROVE  /\ p \subseteq Resolutions /\ IsFiniteSet(p) /\ Cardinality(p) <= MaxBound
           /\ \A l \in p : IsNew(l) => MaySpend(l.name)
<1>1. PICK N \in SUBSET Names :
         /\ Cardinality(N) <= MaxBound /\ \A n \in N : Known(n) # {} \/ MaySpend(n)
         /\ p \in SUBSET UNION {Resolved(n) : n \in N} /\ Cardinality(p) = Cardinality(N)
  BY DEF Proposals
<1> DEFINE f == [n \in N |-> Resolved(n)]
           all == {f[n] : n \in N}
<1>2. all = {Resolved(n) : n \in N}
  OBVIOUS
<1>3. IsFiniteSet(N)
  BY MasterDataAssumption, FS_Subset
<1>4. DOMAIN f = N
  OBVIOUS
<1>5. IsFiniteSet(all)
  <2> HIDE DEF f
  <2> QED
    BY <1>3, <1>4, ImageIsSmaller
<1>6. /\ \A T \in all : IsFiniteSet(T)
      /\ \A l \in UNION all : l \in Resolutions /\ (IsNew(l) => MaySpend(l.name))
  BY <1>1, <1>2, ResolvedTypes
<1> HIDE DEF all
<1>7. IsFiniteSet(UNION all)
  BY <1>5, <1>6, FS_UNION
<1>8. p \subseteq UNION all
  BY <1>1, <1>2
<1>9. IsFiniteSet(p)
  BY <1>7, <1>8, FS_Subset
<1> QED
  BY <1>1, <1>6, <1>8, <1>9

LEMMA ReadTypes ==
    ASSUME StoreInv, BoundInv', ImportReads
    PROVE  StoreInv'
<1>1. PICK S \in SUBSET {s \in Symbols : ~Stored(s) /\ MaySpend(s)} :
         \E batch \in [S -> Proposals] :
            /\ import' = [state |-> "asking", batch |-> batch]
            /\ issued' = [n \in DOMAIN issued |->
                             IF \E s \in S : \E l \in batch[s] : IsNew(l) /\ l.name = n
                             THEN issued[n] + 1 ELSE issued[n]]
  BY DEF ImportReads
<1>2. PICK batch \in [S -> Proposals] :
         /\ import' = [state |-> "asking", batch |-> batch]
         /\ issued' = [n \in DOMAIN issued |->
                          IF \E s \in S : \E l \in batch[s] : IsNew(l) /\ l.name = n
                          THEN issued[n] + 1 ELSE issued[n]]
  BY <1>1
<1>3. UNCHANGED <<classes, securities, labels, lists, reanalysis>>
  BY DEF ImportReads
<1>4. TypeOK /\ issued \in [Names \cup Symbols -> 0..MaxRows] /\ DOMAIN classes \subseteq ClassIds
  BY DEF StoreInv, TypeOK
<1>5. \A s \in S : /\ batch[s] \subseteq Resolutions /\ IsFiniteSet(batch[s])
                   /\ Cardinality(batch[s]) <= MaxBound
                   /\ \A l \in batch[s] : IsNew(l) => MaySpend(l.name)
  BY <1>4, ProposalTypes
<1>6. issued' \in [Names \cup Symbols -> 0..MaxRows]
  <2>1. ASSUME NEW n \in Names \cup Symbols PROVE issued'[n] \in 0..MaxRows
    <3>1. CASE \E s \in S : \E l \in batch[s] : IsNew(l) /\ l.name = n
      <4>1. MaySpend(n)
        BY <1>5, <3>1
      <4>2. issued[n] + 1 \in 1..MaxRows
        BY <1>4, <4>1, IdsAreIds
      <4>3. issued[n] + 1 \in 0..MaxRows
        BY <4>2, RowBounds
      <4> QED
        BY <1>2, <1>4, <3>1, <4>3
    <3>2. CASE ~\E s \in S : \E l \in batch[s] : IsNew(l) /\ l.name = n
      BY <1>2, <1>4, <3>2
    <3> QED
      BY <3>1, <3>2
  <2> QED
    BY <1>2, <1>4, <2>1
<1>7. S \subseteq Symbols
  BY <1>1
<1>8. \A s \in securities' : Cardinality(LabelsOf(s)') <= MaxBound
  BY <1>3, <1>4, SameLabels
<1>9. TypeOK'
  BY <1>2, <1>3, <1>6, <1>8 DEF StoreInv, TypeOK
<1>10. BatchInv'
  BY <1>2, <1>3, <1>5, <1>7 DEF StoreInv, BatchInv
<1> QED
  BY <1>9, <1>10 DEF StoreInv

LEMMA CommitTypes ==
    ASSUME StoreInv, BoundInv', ImportCommits
    PROVE  StoreInv'
<1> DEFINE inserted == {s \in DOMAIN import.batch : ~Stored(s)}
<1>1. PICK R \in Records :
         /\ BatchFits(R)
         /\ securities' = securities \cup {NewId(s) : s \in inserted}
         /\ labels' = labels \cup UNION {{<<NewId(s), l.id>> : l \in import.batch[s]} : s \in inserted}
         /\ classes' = [c \in DOMAIN classes \cup {l.id : l \in {m \in R : Called(m.name) = {}}} |->
                           IF c \in DOMAIN classes THEN classes[c]
                           ELSE [name |-> (CHOOSE l \in {m \in R : Called(m.name) = {}} : l.id = c).name,
                                 aliases |-> {}]]
         /\ issued' = [n \in DOMAIN issued |-> IF n \in inserted THEN issued[n] + 1 ELSE issued[n]]
  BY DEF ImportCommits
<1>2. /\ import' = [import EXCEPT !.state = "committed"] /\ UNCHANGED <<lists, reanalysis>>
      /\ import.state = "asking"
  BY DEF ImportCommits
<1>3. /\ TypeOK /\ issued \in [Names \cup Symbols -> 0..MaxRows] /\ DOMAIN classes \subseteq ClassIds
      /\ \A c \in DOMAIN classes : classes[c] \in ClassRows
      /\ securities \subseteq SecurityIds
  BY DEF StoreInv, TypeOK, ClassRows
<1>4. /\ \A s \in DOMAIN import.batch :
            /\ s \in Symbols /\ import.batch[s] \subseteq Resolutions
            /\ IsFiniteSet(import.batch[s]) /\ Cardinality(import.batch[s]) <= MaxBound
      /\ \A s \in inserted : MaySpend(s)
  BY DEF StoreInv, BatchInv, ImportCommits
<1>5. /\ DOMAIN classes' \subseteq ClassIds
      /\ \A c \in DOMAIN classes' : classes'[c] \in ClassRows
  <2> DEFINE added == {m \in R : Called(m.name) = {}}
  <2>1. added \subseteq Resolutions
    BY <1>4 DEF Records, BatchLabels
  <2>2. \A l \in added : l.id \in ClassIds /\ l.name \in Names
    BY <2>1 DEF Resolutions
  <2>3. classes' = [c \in DOMAIN classes \cup {l.id : l \in added} |->
                       IF c \in DOMAIN classes THEN classes[c]
                       ELSE [name |-> (CHOOSE l \in added : l.id = c).name, aliases |-> {}]]
    BY <1>1
  <2> HIDE DEF added
  <2>4. ASSUME NEW c \in DOMAIN classes', c \notin DOMAIN classes
        PROVE  classes'[c] \in ClassRows
    <3>1. \E l \in added : l.id = c
      BY <2>3, <2>4
    <3>2. (CHOOSE l \in added : l.id = c) \in added
      BY <3>1
    <3> QED
      BY <2>2, <2>3, <2>4, <3>2 DEF ClassRows
  <2>5. DOMAIN classes' = DOMAIN classes \cup {l.id : l \in added}
    BY <2>3
  <2>6. \A c \in DOMAIN classes : classes'[c] = classes[c]
    BY <2>3
  <2> QED
    BY <1>3, <2>2, <2>4, <2>5, <2>6
<1>6. issued' \in [Names \cup Symbols -> 0..MaxRows]
  <2>1. ASSUME NEW n \in Names \cup Symbols PROVE issued'[n] \in 0..MaxRows
    <3>1. CASE n \in inserted
      <4>1. issued[n] + 1 \in 1..MaxRows
        BY <1>3, <1>4, <3>1, IdsAreIds
      <4>2. issued[n] + 1 \in 0..MaxRows
        BY <4>1, RowBounds
      <4> QED
        BY <1>1, <1>3, <3>1, <4>2
    <3>2. CASE n \notin inserted
      BY <1>1, <1>3, <3>2
    <3> QED
      BY <3>1, <3>2
  <2> QED
    BY <1>1, <1>3, <2>1
<1>7. securities' \subseteq SecurityIds
  BY <1>1, <1>3, <1>4, IdsAreIds
<1>8. ASSUME NEW s \in securities' PROVE Cardinality(LabelsOf(s)') <= MaxBound
  <2>1. CASE s \in securities
    <3>1. ASSUME NEW t \in inserted PROVE s # NewId(t)
      BY <2>1 DEF Stored, NewId
    <3>2. \A c \in ClassIds : <<s, c>> \in labels' <=> <<s, c>> \in labels
      BY <1>1, <3>1
    <3> QED
      BY <1>5, <2>1, <3>2, SameLabels
  <2>2. CASE s \notin securities
    <3>1. PICK t \in inserted : s = NewId(t)
      BY <1>1, <2>2
    <3>2. \A u \in inserted : NewId(u) = NewId(t) => u = t
      BY DEF NewId
    <3> DEFINE f == [l \in import.batch[t] |-> l.id]
    <3>3. LabelsOf(s)' = {c \in ClassIds : <<s, c>> \in labels'}
      BY <1>5, LabelsAreBoundNext
    <3>4. \A c : <<s, c>> \notin labels
      BY <2>2 DEF StoreInv, BoundInv
    <3>5. LabelsOf(s)' = {f[l] : l \in import.batch[t]}
      <4>1. ASSUME NEW c \in ClassIds, <<s, c>> \in labels'
            PROVE  c \in {f[l] : l \in import.batch[t]}
        <5>1. PICK u \in inserted : \E l \in import.batch[u] : <<s, c>> = <<NewId(u), l.id>>
          BY <1>1, <3>4, <4>1
        <5> QED
          BY <3>1, <3>2, <5>1
      <4>2. ASSUME NEW l \in import.batch[t] PROVE f[l] \in ClassIds /\ <<s, f[l]>> \in labels'
        <5>1. f[l] = l.id /\ l \in Resolutions
          BY <1>4
        <5>2. <<NewId(t), l.id>> \in labels'
          BY <1>1
        <5> QED
          BY <3>1, <5>1, <5>2 DEF Resolutions
      <4> HIDE DEF f
      <4> QED
        BY <3>3, <4>1, <4>2
    <3>6. DOMAIN f = import.batch[t]
      OBVIOUS
    <3>7. IsFiniteSet(import.batch[t]) /\ Cardinality(import.batch[t]) <= MaxBound
      BY <1>4
    <3> HIDE DEF f
    <3>8. /\ Cardinality(LabelsOf(s)') <= Cardinality(import.batch[t])
          /\ Cardinality(LabelsOf(s)') \in Nat /\ Cardinality(import.batch[t]) \in Nat
      BY <3>5, <3>6, <3>7, ImageIsSmaller
    <3> QED
      BY <3>7, <3>8, RowBounds
  <2> QED
    BY <2>1, <2>2
<1>9. /\ import' \in [state : {"none", "asking", "committed", "failed"}, batch : {import'.batch}]
      /\ import'.state = "committed" /\ import'.batch = import.batch
  BY <1>2 DEF StoreInv, BatchInv
<1>10. TypeOK'
  BY <1>2, <1>3, <1>5, <1>6, <1>7, <1>8, <1>9 DEF TypeOK, ClassRows
<1>11. BatchInv'
  BY <1>2, <1>9 DEF StoreInv, BatchInv
<1> QED
  BY <1>10, <1>11 DEF StoreInv

LEMMA AnswerTypes ==
    ASSUME StoreInv, BoundInv', AddAiClassifications
    PROVE  StoreInv'
<1>0. /\ TypeOK /\ issued \in [Names \cup Symbols -> 0..MaxRows] /\ DOMAIN classes \subseteq ClassIds
      /\ \A c \in DOMAIN classes : classes[c] \in ClassRows
      /\ \A p \in reanalysis.proposals : p.name \in Names
  BY DEF StoreInv, TypeOK, BatchInv, ClassRows
<1>1. PICK s \in reanalysis.of, looked \in SUBSET reanalysis.proposals :
         \E target \in [looked -> UNION {Target(l) : l \in looked}] : AddAnswers(s, looked, target)
  BY DEF AddAiClassifications
<1>3. PICK target : target \in [looked -> UNION {Target(l) : l \in looked}] /\ AddAnswers(s, looked, target)
  BY <1>1
<1> DEFINE new == {target[l] : l \in looked} \ LabelsOf(s)
           created == {l \in looked : target[l] \notin DOMAIN classes}
<1>4. /\ s \in securities
      /\ \A l \in looked : target[l] \in Target(l) /\ l.name \in Names
      /\ \A l \in created : MaySpend(l.name)
      /\ Cardinality(new) <= FreeSlots(s)
      /\ labels' = labels \cup {<<s, c>> : c \in new}
      /\ classes' = [c \in DOMAIN classes \cup new |->
                        IF c \in DOMAIN classes THEN classes[c]
                        ELSE [name |-> (CHOOSE l \in created : target[l] = c).name, aliases |-> {}]]
      /\ issued' = [n \in DOMAIN issued |->
                       IF \E l \in created : l.name = n THEN issued[n] + 1 ELSE issued[n]]
  BY <1>0, <1>3 DEF AddAnswers
<1>5. UNCHANGED <<securities, lists, import>> /\ reanalysis' = NoReanalysis
  BY DEF AddAiClassifications
<1>6. \A l \in looked : target[l] \in ClassIds
  <2> SUFFICES ASSUME NEW l \in looked PROVE target[l] \in ClassIds
    OBVIOUS
  <2>1. l \in created => NewId(l.name) \in ClassIds
    BY <1>0, <1>4, IdsAreIds
  <2>2. target[l] \in DOMAIN classes \/ (l \in created /\ target[l] = NewId(l.name))
    BY <1>0, <1>4 DEF Target, Known, Called
  <2> QED
    BY <1>0, <2>1, <2>2
<1>7. new \subseteq ClassIds /\ created \subseteq looked
      /\ \A c \in new : c \notin DOMAIN classes => \E l \in created : target[l] = c
  BY <1>6
<1>8. \A l \in created : l.name \in Names /\ MaySpend(l.name)
  BY <1>4
<1> HIDE DEF new, created
<1>9. /\ DOMAIN classes' \subseteq ClassIds
      /\ \A c \in DOMAIN classes' : classes'[c] \in ClassRows
  <2>1. ASSUME NEW c \in DOMAIN classes', c \notin DOMAIN classes
        PROVE  classes'[c] \in ClassRows
    <3>1. (CHOOSE l \in created : target[l] = c) \in created
      BY <1>4, <1>7, <2>1
    <3> QED
      BY <1>4, <1>8, <2>1, <3>1 DEF ClassRows
  <2> QED
    BY <1>0, <1>4, <1>7, <2>1
<1>10. /\ issued' \in [Names \cup Symbols -> 0..MaxRows]
       /\ \A x \in Symbols : issued'[x] = issued[x]
  <2>1. ASSUME NEW n \in Names \cup Symbols PROVE issued'[n] \in 0..MaxRows
    <3>1. CASE \E l \in created : l.name = n
      <4>1. issued[n] + 1 \in 1..MaxRows
        BY <1>0, <1>8, <3>1, IdsAreIds
      <4>2. issued[n] + 1 \in 0..MaxRows
        BY <4>1, RowBounds
      <4> QED
        BY <1>0, <1>4, <3>1, <4>2
    <3>2. CASE ~\E l \in created : l.name = n
      BY <1>0, <1>4, <3>2
    <3> QED
      BY <3>1, <3>2
  <2>2. ASSUME NEW x \in Symbols PROVE issued'[x] = issued[x]
    <3>1. ~\E l \in created : l.name = x
      BY <1>8, MasterDataAssumption
    <3> QED
      BY <1>0, <1>4, <3>1
  <2> QED
    BY <1>0, <1>4, <2>1, <2>2
<1>11. ASSUME NEW t \in securities' PROVE Cardinality(LabelsOf(t)') <= MaxBound
  <2>1. CASE t # s
    <3>1. \A c \in ClassIds : <<t, c>> \in labels' <=> <<t, c>> \in labels
      BY <1>4, <2>1
    <3> QED
      BY <1>5, <1>9, <3>1, SameLabels
  <2>2. CASE t = s
    <3>1. LabelsOf(s)' = {c \in ClassIds : <<s, c>> \in labels'}
      BY <1>9, LabelsAreBoundNext
    <3>2. LabelsOf(s) = {c \in ClassIds : <<s, c>> \in labels} /\ IsFiniteSet(LabelsOf(s))
      BY <1>0, LabelsAreBound DEF StoreInv
    <3>3. LabelsOf(s)' = LabelsOf(s) \cup new
      BY <1>4, <1>7, <3>1, <3>2
    <3>4. IsFiniteSet(new)
      BY <1>7, ClassIdsAreFinite, FS_Subset
    <3>5. LabelsOf(s) \cap new = {}
      BY DEF new
    <3>7. Cardinality(LabelsOf(s)) \in Nat /\ Cardinality(new) \in Nat
      BY <3>2, <3>4, FS_CardinalityType
    <3>9. Cardinality(LabelsOf(s) \cup new)
            = Cardinality(LabelsOf(s)) + Cardinality(new) - Cardinality(LabelsOf(s) \cap new)
      BY <3>2, <3>4, FS_Union
    <3>10. Cardinality(LabelsOf(s) \cap new) = 0
      BY <3>5, FS_EmptySet
    <3>6. Cardinality(LabelsOf(s) \cup new) = Cardinality(LabelsOf(s)) + Cardinality(new)
      BY <3>7, <3>9, <3>10
    <3>8. Cardinality(new) <= MaxBound - Cardinality(LabelsOf(s))
      BY <1>4 DEF FreeSlots
    <3> QED
      BY <2>2, <3>3, <3>6, <3>7, <3>8, RowBounds
  <2> QED
    BY <2>1, <2>2
<1>12. TypeOK'
  BY <1>5, <1>9, <1>10, <1>11 DEF StoreInv, TypeOK, NoReanalysis, ClassRows
<1>13. BatchInv'
  BY <1>5, <1>10 DEF StoreInv, BatchInv, MaySpend, NoReanalysis
<1> QED
  BY <1>12, <1>13 DEF StoreInv

LEMMA OtherTypes ==
    ASSUME StoreInv, BoundInv', NEW s \in Symbols, NEW bound \in SUBSET ClassIds,
           OtherImportCommits(s, bound)
    PROVE  StoreInv'
<1>1. /\ securities' = securities \cup {NewId(s)} /\ UNCHANGED <<classes, lists>> /\ Background
      /\ labels' = labels \cup {<<NewId(s), c>> : c \in bound}
      /\ issued' = [issued EXCEPT ![s] = @ + 1]
      /\ Cardinality(bound) <= MaxBound /\ MaySpend(s) /\ ~Stored(s)
  BY DEF OtherImportCommits
<1>2. /\ issued \in [Names \cup Symbols -> 0..MaxRows] /\ DOMAIN classes \subseteq ClassIds
      /\ securities \subseteq SecurityIds /\ TypeOK
  BY DEF StoreInv, TypeOK
<1>3. NewId(s) \in SecurityIds /\ issued[s] + 1 \in 1..MaxRows
  BY <1>1, <1>2, IdsAreIds
<1>4. issued' \in [Names \cup Symbols -> 0..MaxRows]
  <2>1. issued[s] + 1 \in 0..MaxRows
    BY <1>3, RowBounds
  <2> QED
    BY <1>1, <1>2, <2>1
<1>5. ASSUME NEW t \in securities' PROVE Cardinality(LabelsOf(t)') <= MaxBound
  <2>1. NewId(s) \notin securities
    BY <1>1 DEF Stored, NewId
  <2>2. CASE t \in securities
    <3>1. \A c \in ClassIds : <<t, c>> \in labels' <=> <<t, c>> \in labels
      BY <1>1, <2>1, <2>2
    <3> QED
      BY <1>1, <1>2, <2>2, <3>1, SameLabels
  <2>3. CASE t = NewId(s)
    <3>1. LabelsOf(t)' = {c \in ClassIds : <<t, c>> \in labels'}
      BY <1>1, <1>2, LabelsAreBoundNext
    <3>2. \A c : <<t, c>> \notin labels
      BY <2>1, <2>3 DEF StoreInv, BoundInv
    <3>3. LabelsOf(t)' = bound
      BY <1>1, <2>3, <3>1, <3>2
    <3> QED
      BY <1>1, <3>3
  <2> QED
    BY <1>1, <2>2, <2>3
<1>6. TypeOK'
  BY <1>1, <1>2, <1>3, <1>4, <1>5 DEF StoreInv, TypeOK, Background
<1> QED
  BY <1>1, <1>6 DEF StoreInv, BatchInv, Background

LEMMA BackgroundTypes ==
    ASSUME StoreInv, BoundInv', NEW s,
           \/ ImportFails \/ ImportEnds \/ ReanalysisEnds
           \/ s \in SecurityIds /\ ReanalysisReads(s)
    PROVE  StoreInv'
<1>0. /\ UNCHANGED tables /\ TypeOK /\ DOMAIN classes \subseteq ClassIds
      /\ import \in [state : {"none", "asking", "committed", "failed"}, batch : {import.batch}]
  BY DEF ImportFails, ImportEnds, ReanalysisReads, ReanalysisEnds, StoreInv, TypeOK, BatchInv
<1>1. \A t \in securities' : Cardinality(LabelsOf(t)') <= MaxBound
  BY <1>0, SameLabels DEF tables
<1>2. /\ import'.state \in {"none", "asking", "committed", "failed"}
      /\ reanalysis'.of \subseteq SecurityIds
  BY <1>0 DEF ImportFails, ImportEnds, ReanalysisReads, ReanalysisEnds, NoImport, NoReanalysis, TypeOK
<1>3. TypeOK'
  BY <1>0, <1>1, <1>2 DEF TypeOK, tables
<1>4. \A p \in reanalysis'.proposals : p.name \in Names
  <2>1. CASE ReanalysisReads(s)
    <3>1. PICK p \in Proposals :
             reanalysis'.proposals = {[id |-> IF IsNew(l) THEN <<>> ELSE l.id, name |-> l.name] : l \in p}
      BY <2>1 DEF ReanalysisReads
    <3>2. p \subseteq Resolutions
      BY <1>0, ProposalTypes
    <3>3. \A l \in p : l.name \in Names
      BY <3>2 DEF Resolutions
    <3> QED
      BY <3>1, <3>3
  <2>2. CASE reanalysis' = NoReanalysis
    BY <2>2 DEF NoReanalysis
  <2>3. CASE reanalysis' = reanalysis
    BY <2>3 DEF StoreInv, BatchInv
  <2> QED
    BY <2>1, <2>2, <2>3 DEF ImportFails, ImportEnds, ReanalysisEnds
<1>5. CASE import' = NoImport
  <2>1. import'.batch = Empty /\ import'.state = "none" /\ DOMAIN Empty = {}
    BY <1>5 DEF NoImport, Empty
  <2>2. import' = [state |-> "none", batch |-> import'.batch]
    BY <1>5, <2>1 DEF NoImport
  <2>3. import' \in [state : {"none", "asking", "committed", "failed"}, batch : {import'.batch}]
    BY <2>2
  <2>4. \A t : t \notin DOMAIN import'.batch
    BY <2>1
  <2> QED
    BY <1>1, <1>3, <1>4, <2>3, <2>4 DEF BatchInv, StoreInv
<1>6. CASE import' = import
  BY <1>0, <1>3, <1>4, <1>6 DEF StoreInv, BatchInv, tables, MaySpend
<1>7. CASE import' = [import EXCEPT !.state = "failed"]
  <2>1. /\ import' \in [state : {"none", "asking", "committed", "failed"}, batch : {import'.batch}]
        /\ import'.batch = import.batch /\ import'.state # "asking"
    BY <1>0, <1>7
  <2> QED
    BY <1>3, <1>4, <2>1 DEF StoreInv, BatchInv
<1> QED
  BY <1>3, <1>5, <1>6, <1>7 DEF ImportFails, ImportEnds, ReanalysisReads, ReanalysisEnds, StoreInv

LEMMA StoreInit == Init => StoreInv
<1> SUFFICES ASSUME Init PROVE StoreInv
  OBVIOUS
<1>1. issued \in [Names \cup Symbols -> 0..MaxRows]
  BY RowBounds DEF Init
<1> QED
  BY <1>1, BoundInit DEF Init, StoreInv, TypeOK, BatchInv, Empty, NoImport, NoReanalysis

LEMMA StoreStep == StoreInv /\ [Next]_vars => StoreInv'
<1> SUFFICES ASSUME StoreInv, [Next]_vars PROVE StoreInv'
  OBVIOUS
<1>1. BoundInv'
  BY BoundStep DEF StoreInv
<1>2. CASE UNCHANGED vars
  BY <1>2 DEF vars, StoreInv, TypeOK, BoundInv, BatchInv, LabelsOf, MaySpend
<1>3. ASSUME NEW n \in Names, NEW c, CreateClassification(n) \/ RenameClassification(c, n)
      PROVE  StoreInv'
  BY <1>1, <1>3, LabelTypes
<1>4. ASSUME NEW c, DeleteClassification(c) PROVE StoreInv'
  BY <1>1, <1>4, LabelTypes
<1>5. ASSUME NEW c, NEW aliases \in SUBSET Names, SetClassificationAliases(c, aliases)
      PROVE  StoreInv'
  BY <1>1, <1>5, LabelTypes
<1>6. ASSUME NEW c, NEW d \in ClassIds, MergeClassification(c, d) PROVE StoreInv'
  BY <1>1, <1>6, LabelTypes
<1>8. ASSUME NEW s \in SecurityIds, DeleteSecurity(s) PROVE StoreInv'
  <2>1. {} \in SUBSET ClassIds
    OBVIOUS
  <2> QED
    BY <1>1, <1>8, <2>1, SecurityTypes
<1>9. ASSUME NEW s \in SecurityIds, NEW wanted \in SUBSET ClassIds, SetSecurityClassifications(s, wanted)
      PROVE  StoreInv'
  BY <1>1, <1>9, SecurityTypes
<1>10. ASSUME NEW w \in Lists, NEW s, NEW c,
              \/ CreateWatchlist(w) \/ DeleteWatchlist(w)
              \/ AddWatchlistMembers(w, [m \in {s} |-> c])
              \/ SetWatchlistMemberBinding(w, s, c)
              \/ RemoveWatchlistMembers(w, {s})
       PROVE  StoreInv'
  BY <1>1, <1>10, PoolTypes
<1>11. ASSUME NEW s \in SecurityIds, ReanalysisReads(s) PROVE StoreInv'
  BY <1>1, <1>11, BackgroundTypes
<1>12. CASE ImportReads \/ ImportCommits \/ AddAiClassifications
  BY <1>1, <1>12, ReadTypes, CommitTypes, AnswerTypes
<1>13. CASE ImportFails \/ ImportEnds \/ ReanalysisEnds
  BY <1>1, <1>13, BackgroundTypes
<1>14. /\ \A n \in Names : {n} \in SUBSET Names /\ {} \in SUBSET Names
       /\ \A c \in ClassIds : {c} \in SUBSET ClassIds /\ {} \in SUBSET ClassIds
  OBVIOUS
<1>15. ASSUME NEW s \in Symbols, NEW bound \in SUBSET ClassIds, OtherImportCommits(s, bound)
       PROVE  StoreInv'
  BY <1>1, <1>15, OtherTypes
<1> QED
  BY <1>15, <1>2, <1>3, <1>4, <1>5, <1>6, <1>8, <1>9, <1>10, <1>11, <1>12, <1>13, <1>14 DEF Next

-----------------------------------------------------------------------------
(* The turning point page.                                                  *)
LEMMA TurningRows ==
    ASSUME NEW S \in SUBSET TP!Runs, NEW f \in [S -> 0..TurningReports]
    PROVE  f \in TP!Rows
BY DEF TP!Rows

LEMMA TurningRowsShape ==
    ASSUME NEW f \in TP!Rows
    PROVE  DOMAIN f \subseteq TP!Runs /\ f \in [DOMAIN f -> 0..TurningReports]
BY DEF TP!Rows

LEMMA NoTurningRows == TP!NoRows \in TP!Rows /\ DOMAIN TP!NoRows = {}
<1>1. {} \subseteq TP!Runs /\ TP!NoRows \in [{} -> 0..TurningReports]
  BY DEF TP!NoRows
<1> QED
  BY <1>1, TurningRows

LEMMA TurningInit == TP!Init => TP!PageInv
BY PagesAssumption, NoTurningRows
   DEF TP!Init, TP!PageInv, TP!TypeOK, TP!FormInv, TP!JobInv, TP!ListsInv, TP!ShownTogether,
       TP!BusyWithJob, TP!DeletedStaysGone, TP!NoSupport, TP!NoReportTask, TP!NoReport, TP!Reports,
       TP!JobStates, TP!Dates, TP!Runs, TP!Forms, TP!Jobs, TP!Outcomes, TP!Views, TP!Supports, TP!ReportTasks

(* Launching a run.                                                         *)
LEMMA TurningLaunch ==
    ASSUME TP!PageInv, TP!LaunchRun, ~v3.running, v3.launched < TurningRuns,
           UNCHANGED <<v1, v4, v5, v6>>,
           v2' \in TP!Forms, v2'.checking = "none"
    PROVE  TP!PageInv'
<1>1. TP!TypeOK'
  <2>1. v3.launched + 1 \in 0..TurningRuns /\ v3 \in TP!Jobs
    BY PagesAssumption DEF TP!PageInv, TP!TypeOK, TP!Jobs
  <2>2. PICK registered \in BOOLEAN :
           v3' = [v3 EXCEPT !.launched = @ + 1, !.running = TRUE, !.state = "working",
                            !.registered = registered]
    BY DEF TP!LaunchRun
  <2>3. v3' \in TP!Jobs
    BY <2>1, <2>2 DEF TP!Jobs, TP!JobStates
  <2> QED
    BY <2>3 DEF TP!PageInv, TP!TypeOK
<1>2. TP!FormInv' /\ TP!ShownTogether' /\ TP!BusyWithJob' /\ TP!DeletedStaysGone'
  BY DEF TP!PageInv, TP!TypeOK, TP!Jobs, TP!LaunchRun, TP!FormInv, TP!ShownTogether, TP!BusyWithJob,
         TP!DeletedStaysGone
<1>3. TP!JobInv'
  BY DEF TP!PageInv, TP!TypeOK, TP!Jobs, TP!LaunchRun, TP!JobInv, TP!BusyWithJob
<1>4. TP!ListsInv'
  BY DEF TP!PageInv, TP!TypeOK, TP!Jobs, TP!LaunchRun, TP!ListsInv, TP!BusyWithJob
<1> QED
  BY <1>1, <1>2, <1>3, <1>4 DEF TP!PageInv

(* The form and the preflight.                                              *)
LEMMA TurningFormSteps ==
    ASSUME TP!PageInv,
           \/ TP!SetEndDate \/ TP!CalendarReturns \/ TP!Start \/ TP!BudgetReturns
           \/ TP!ConfirmBudget \/ TP!DismissBudget
    PROVE  TP!PageInv'
<1>1. ASSUME TP!FormInv', UNCHANGED <<v1, v3, v4, v5, v6>>,
             v2' \in TP!Forms
      PROVE  TP!PageInv'
  BY <1>1 DEF TP!PageInv, TP!TypeOK, TP!JobInv, TP!ListsInv, TP!ShownTogether, TP!BusyWithJob,
              TP!DeletedStaysGone
<1>2. CASE TP!SetEndDate \/ TP!CalendarReturns \/ TP!Start \/ TP!DismissBudget
  BY <1>1, <1>2 DEF TP!SetEndDate, TP!CalendarReturns, TP!Start, TP!DismissBudget, TP!DropBudget,
              TP!CanStart, TP!PageInv, TP!TypeOK, TP!FormInv, TP!Dates, TP!Forms
<1>3. CASE TP!BudgetReturns
  BY <1>1, <1>3, TurningLaunch DEF TP!BudgetReturns, TP!PageInv, TP!TypeOK, TP!FormInv, TP!Dates, TP!Forms
<1>4. CASE TP!ConfirmBudget
  BY <1>4, TurningLaunch DEF TP!ConfirmBudget, TP!ConfirmationVisible, TP!DropBudget, TP!PageInv,
              TP!TypeOK, TP!FormInv, TP!Dates, TP!Forms
<1> QED
  BY <1>2, <1>3, <1>4
(* A step of the job.                                                       *)
LEMMA TurningJobKeeps ==
    ASSUME TP!PageInv, UNCHANGED <<v2, v4, v5, v6>>, v1' \in TP!Rows, v3' \in TP!Jobs,
           v3'.packaged = v3.packaged, v3'.launched = v3.launched,
           v3'.running = v3.running, v3'.registered = v3.registered,
           v3.state # "none", v3'.state # "none",
           v3'.offer => v3'.state = "waiting" \/ (v3.packaged /\ v3'.state = "exited"),
           v3'.state \in {"working", "waiting", "decided"} =>
              v3.state \in {"working", "waiting", "decided"} /\ v1' = v1,
           \/ v1' = v1
           \/ v3.state \in {"working", "decided"} /\ DOMAIN v1' = DOMAIN v1 \cup {v3.launched},
           IF v3.packaged \/ v3'.state # "exited" THEN v3'.listed = v3.listed
           ELSE v6 \cap DOMAIN v3'.listed = {},
           v3'.state # "exited" => v3.state # "exited"
    PROVE  TP!PageInv'
<1>1. TP!TypeOK'
  BY DEF TP!PageInv, TP!TypeOK
<1>2. TP!FormInv' /\ TP!ShownTogether' /\ TP!DeletedStaysGone'
  BY DEF TP!PageInv, TP!FormInv, TP!ShownTogether, TP!DeletedStaysGone
<1>3. TP!BusyWithJob'
  BY DEF TP!PageInv, TP!BusyWithJob
<1>4. TP!JobInv'
  <2>1. v3.launched \in 0..TurningRuns /\ v3.launched > 0
    BY PagesAssumption DEF TP!PageInv, TP!TypeOK, TP!Jobs, TP!BusyWithJob, TP!JobInv
  <2>2. v3.launched \in 1..v3.launched
    BY <2>1, PagesAssumption
  <2> QED
    BY <2>1, <2>2 DEF TP!PageInv, TP!JobInv
<1>5. TP!ListsInv'
  BY DEF TP!PageInv, TP!ListsInv, TP!JobInv
<1> QED
  BY <1>1, <1>2, <1>3, <1>4, <1>5 DEF TP!PageInv

LEMMA TurningJobSteps ==
    ASSUME TP!PageInv,
           \/ TP!JobAsks \/ TP!ResolveOffer \/ TP!JobSaves \/ TP!JobFails
           \/ TP!ProcessEnds \/ TP!TaskEnds \/ TP!TaskRaises \/ TP!Cancel
    PROVE  TP!PageInv'
<1>0. v1 \in TP!Rows /\ v3 \in TP!Jobs
  BY DEF TP!PageInv, TP!TypeOK
<1>1. CASE TP!JobAsks
  <2>1. /\ v3.state = "working" /\ UNCHANGED <<v1, v2, v4, v5, v6>>
        /\ \/ v3' = [v3 EXCEPT !.state = "decided"]
           \/ v3' = [v3 EXCEPT !.state = "waiting", !.offer = TRUE]
    BY <1>1 DEF TP!JobAsks, TP!Job
  <2>2. v3' \in TP!Jobs
    BY <1>0, <2>1 DEF TP!Jobs, TP!JobStates
  <2>3. ~v3.offer
    BY <2>1 DEF TP!PageInv, TP!JobInv
  <2> QED
    BY <1>0, <2>1, <2>2, <2>3, TurningJobKeeps DEF TP!Jobs
<1>2. CASE TP!ResolveOffer
  <2>1. /\ v3.offer /\ UNCHANGED <<v1, v2, v4, v5, v6>>
        /\ v3' = [v3 EXCEPT !.state = TP!AnsweredState, !.offer = FALSE]
        /\ v3.state = "waiting" \/ (v3.packaged /\ v3.state = "exited")
    BY <1>2 DEF TP!ResolveOffer, TP!Job, TP!PageInv, TP!JobInv
  <2>2. TP!AnsweredState \in TP!JobStates
        /\ TP!AnsweredState = (IF v3.state = "waiting" THEN "decided" ELSE v3.state)
    BY <1>0 DEF TP!Jobs, TP!AnsweredState, TP!JobStates
  <2>3. v3' \in TP!Jobs
    BY <1>0, <2>1, <2>2 DEF TP!Jobs
  <2> QED
    BY <1>0, <2>1, <2>2, <2>3, TurningJobKeeps DEF TP!Jobs
<1>3. CASE TP!JobSaves
  <2>1. /\ v3.state \in {"working", "decided"} /\ UNCHANGED <<v2, v4, v5, v6>>
        /\ v3' = [v3 EXCEPT !.state = "saved", !.outcome = "READY"]
        /\ v1' = [r \in DOMAIN v1 \cup {v3.launched} |-> IF r \in DOMAIN v1 THEN v1[r] ELSE 0]
    BY <1>3 DEF TP!JobSaves, TP!Job
  <2>2. v3' \in TP!Jobs
    BY <1>0, <2>1 DEF TP!Jobs, TP!JobStates, TP!Outcomes
  <2>3. v1' \in TP!Rows
    <3>1. v3.launched \in TP!Runs
      BY <1>0, <2>1, PagesAssumption DEF TP!PageInv, TP!JobInv, TP!BusyWithJob, TP!Jobs, TP!Runs
    <3>2. DOMAIN v1 \cup {v3.launched} \in SUBSET TP!Runs /\ v1 \in [DOMAIN v1 -> 0..TurningReports]
      BY <1>0, <3>1, TurningRowsShape
    <3>3. v1' \in [DOMAIN v1 \cup {v3.launched} -> 0..TurningReports]
      BY <2>1, <3>2, PagesAssumption
    <3> QED
      BY <3>2, <3>3, TurningRows
  <2>4. ~v3.offer /\ DOMAIN v1' = DOMAIN v1 \cup {v3.launched}
    BY <2>1 DEF TP!PageInv, TP!JobInv
  <2> QED
    BY <1>0, <2>1, <2>2, <2>3, <2>4, TurningJobKeeps DEF TP!Jobs
<1>4. CASE TP!JobFails
  <2>1. /\ v3.state \in {"working", "decided"} /\ UNCHANGED <<v1, v2, v4, v5, v6>>
        /\ v3' = [v3 EXCEPT !.state = "failed", !.outcome = "FAILED"]
    BY <1>4 DEF TP!JobFails, TP!Job
  <2>2. v3' \in TP!Jobs
    BY <1>0, <2>1 DEF TP!Jobs, TP!JobStates, TP!Outcomes
  <2>3. ~v3.offer
    BY <2>1 DEF TP!PageInv, TP!JobInv
  <2> QED
    BY <1>0, <2>1, <2>2, <2>3, TurningJobKeeps DEF TP!Jobs
<1>5. CASE TP!ProcessEnds
  <2>1. PICK said \in {v3.outcome, "none"} :
           /\ v3.packaged /\ v3.state # "none" /\ UNCHANGED <<v1, v2, v4, v5, v6>>
           /\ v3' = [v3 EXCEPT !.state = "exited", !.outcome = said]
    BY <1>5 DEF TP!ProcessEnds, TP!Job
  <2>2. v3' \in TP!Jobs
    BY <1>0, <2>1 DEF TP!Jobs, TP!JobStates, TP!Outcomes
  <2> QED
    BY <1>0, <2>1, <2>2, TurningJobKeeps DEF TP!Jobs
<1>6. CASE TP!TaskEnds
  <2>1. /\ ~v3.packaged /\ v3.state \in {"working", "saved", "failed", "canceling"}
        /\ UNCHANGED <<v1, v2, v4, v5, v6>>
    BY <1>6 DEF TP!TaskEnds, TP!Job
  <2>2. ~v3.offer
    BY <2>1 DEF TP!PageInv, TP!JobInv
  <2>3. CASE v3' = [v3 EXCEPT !.state = "exited", !.outcome = "refused"] /\ v3.state = "working"
    <3>1. v3' \in TP!Jobs
      BY <1>0, <2>3 DEF TP!Jobs, TP!JobStates, TP!Outcomes
    <3>2. v6 \cap DOMAIN v3.listed = {}
      BY <2>3 DEF TP!PageInv, TP!ListsInv
    <3> QED
      BY <1>0, <2>1, <2>2, <2>3, <3>1, <3>2, TurningJobKeeps DEF TP!Jobs
  <2>4. ASSUME NEW rows \in {v1, TP!NoRows}, NEW said \in TP!Outcomes,
               v3' = [v3 EXCEPT !.state = "exited", !.listed = rows, !.outcome = said]
        PROVE  TP!PageInv'
    <3>1. rows \in TP!Rows /\ v6 \cap DOMAIN rows = {}
      BY <1>0, NoTurningRows DEF TP!PageInv, TP!ListsInv
    <3>2. v3' \in TP!Jobs /\ v3'.listed = rows /\ v3'.state = "exited" /\ ~v3'.offer
          /\ UNCHANGED <<v3.packaged, v3.launched, v3.running, v3.registered>>
      BY <1>0, <2>2, <2>4, <3>1 DEF TP!Jobs, TP!JobStates
    <3> QED
      BY <1>0, <2>1, <3>1, <3>2, TurningJobKeeps
  <2>5. v3.outcome \in TP!Outcomes /\ "CANCELED" \in TP!Outcomes
    BY <1>0 DEF TP!Jobs, TP!Outcomes
  <2> QED
    BY <1>6, <2>3, <2>4, <2>5 DEF TP!TaskEnds, TP!Job
<1>7. CASE TP!Cancel
  <2>1. /\ v3.state \notin {"none", "exited"} /\ UNCHANGED <<v1, v2, v4, v5, v6>>
        /\ \/ v3' = [v3 EXCEPT !.canceled = TRUE, !.state = TP!AnsweredState, !.offer = FALSE]
           \/ v3' = [v3 EXCEPT !.state = "canceling", !.offer = FALSE]
    BY <1>7 DEF TP!Cancel, TP!Job
  <2>2. TP!AnsweredState \in TP!JobStates
        /\ TP!AnsweredState = (IF v3.state = "waiting" THEN "decided" ELSE v3.state)
    BY <1>0 DEF TP!Jobs, TP!AnsweredState, TP!JobStates
  <2>3. v3' \in TP!Jobs
    BY <1>0, <2>1, <2>2 DEF TP!Jobs, TP!JobStates
  <2> QED
    BY <1>0, <2>1, <2>2, <2>3, TurningJobKeeps DEF TP!Jobs
<1>8. CASE TP!TaskRaises
  <2>1. /\ ~v3.packaged /\ v3.state \in {"working", "decided", "canceling"}
        /\ v3' = [TP!Idle EXCEPT !.raised = TRUE] /\ UNCHANGED <<v1, v2, v4, v5, v6>>
    BY <1>8 DEF TP!TaskRaises, TP!Job
  <2>2. /\ v3' \in TP!Jobs /\ v3'.state = "none" /\ v3'.raised /\ v3'.listed = TP!NoRows
        /\ UNCHANGED <<v3.packaged, v3.launched, v3.registered, v3.running, v3.offer>>
    BY <1>0, <2>1, NoTurningRows DEF TP!Jobs, TP!JobStates, TP!Outcomes, TP!Idle
  <2>3. ~v3'.offer
    BY <2>1, <2>2 DEF TP!PageInv, TP!JobInv
  <2> QED
    BY <2>1, <2>2, <2>3, NoTurningRows
       DEF TP!PageInv, TP!TypeOK, TP!FormInv, TP!BusyWithJob, TP!JobInv, TP!ListsInv,
           TP!ShownTogether, TP!DeletedStaysGone
<1> QED
  BY <1>1, <1>2, <1>3, <1>4, <1>5, <1>6, <1>7, <1>8

(* What a page shows of one run, and of a list.                             *)
LEMMA TurningShown ==
    ASSUME NEW r \in 0..TurningRuns, NEW text \in 0..TurningReports, NEW rows \in TP!Rows
    PROVE  /\ TP!Shown(r, text, rows) \in TP!Views
           /\ TP!Shown(r, text, rows).records = rows
           /\ TP!Shown(r, text, rows).results = TP!Shown(r, text, rows).selected
           /\ \/ TP!Shown(r, text, rows).report = TP!NoReport
              \/ TP!Shown(r, text, rows).report.run = TP!Shown(r, text, rows).selected
BY PagesAssumption DEF TP!Shown, TP!Views, TP!Reports, TP!NoReport

LEMMA TurningApplied ==
    ASSUME NEW rows \in TP!Rows, v4 \in TP!Views
    PROVE  /\ TP!ApplyHistory(rows) \in TP!Views
           /\ TP!ApplyHistory(rows).records = rows
           /\ TP!ApplyHistory(rows).results = v4.results
           /\ TP!ApplyHistory(rows).selected = v4.selected
           /\ TP!ApplyHistory(rows).report = v4.report
BY DEF TP!ApplyHistory, TP!Views

(* A step that changes what the page shows, of rows that miss every deleted *)
(* run.                                                                     *)
LEMMA TurningViewKeeps ==
    ASSUME TP!PageInv, v4' \in TP!Views,
           v4'.results = v4'.selected,
           v4'.report # TP!NoReport => v4'.report.run = v4'.selected,
           v6' \cap DOMAIN v4'.records = {}
    PROVE  TP!ShownTogether' /\ TP!DeletedStaysGone'
BY DEF TP!ShownTogether, TP!DeletedStaysGone, TP!NoReport

LEMMA TurningJobEnds ==
    ASSUME TP!PageInv, UNCHANGED <<v1, v2, v5, v6>>, v4' \in TP!Views,
           TP!ShownTogether', TP!DeletedStaysGone', v3.state = "exited",
           \/ v3' = TP!Ended
           \/ v3' = [TP!Ended EXCEPT !.offer = FALSE]
           \/ v3.packaged /\ ~v3.registered /\ v3' = [TP!Idle EXCEPT !.offer = FALSE],
           v3.packaged => ~v3'.offer
    PROVE  TP!PageInv'
<1>0. v3 \in TP!Jobs
  BY DEF TP!PageInv, TP!TypeOK
<1>1. /\ v3' \in TP!Jobs /\ v3'.state = "none" /\ v3'.listed = TP!NoRows
      /\ UNCHANGED <<v3.packaged, v3.launched, v3.registered>>
      /\ v3'.running => v3.running /\ v3.packaged /\ ~v3.registered
  <2>1. /\ TP!Idle \in TP!Jobs /\ TP!Idle.state = "none" /\ TP!Idle.listed = TP!NoRows
        /\ TP!Idle.running = v3.running /\ TP!Idle.packaged = v3.packaged
        /\ TP!Idle.launched = v3.launched /\ TP!Idle.registered = v3.registered
    BY <1>0, NoTurningRows DEF TP!Jobs, TP!JobStates, TP!Outcomes, TP!Idle
  <2>2. CASE v3' = TP!Ended
    BY <2>1, <2>2 DEF TP!Jobs, TP!Ended
  <2>3. CASE v3' = [TP!Ended EXCEPT !.offer = FALSE]
    BY <2>1, <2>3 DEF TP!Jobs, TP!Ended
  <2>4. CASE v3.packaged /\ ~v3.registered /\ v3' = [TP!Idle EXCEPT !.offer = FALSE]
    BY <2>1, <2>4 DEF TP!Jobs, TP!PageInv, TP!BusyWithJob
  <2> QED
    BY <2>2, <2>3, <2>4
<1>2. ~v3'.offer
  BY <1>0 DEF TP!Jobs, TP!Idle, TP!Ended, TP!PageInv, TP!JobInv
<1>3. TP!TypeOK'
  BY <1>1 DEF TP!PageInv, TP!TypeOK
<1>4. TP!FormInv' /\ TP!BusyWithJob' /\ TP!JobInv' /\ TP!ListsInv'
  BY <1>1, <1>2, NoTurningRows
     DEF TP!PageInv, TP!FormInv, TP!BusyWithJob, TP!JobInv, TP!ListsInv
<1> QED
  BY <1>3, <1>4 DEF TP!PageInv

LEMMA TurningEndSteps ==
    ASSUME TP!PageInv, TP!OnProcessFinished \/ TP!OnProcessError \/ TP!OnTaskFinished
    PROVE  TP!PageInv'
<1>0. /\ v1 \in TP!Rows /\ v3 \in TP!Jobs /\ v4 \in TP!Views /\ v3.state = "exited"
      /\ v3.launched \in 0..TurningRuns /\ v3.listed \in TP!Rows
      /\ UNCHANGED <<v1, v2, v5, v6>>
  BY DEF TP!PageInv, TP!TypeOK, TP!Jobs, TP!OnProcessFinished, TP!OnProcessError, TP!OnTaskFinished,
         TP!FinishProcess
<1>1. 0 \in 0..TurningRuns /\ 0 \in 0..TurningReports
  BY PagesAssumption
<1>2. ASSUME NEW r \in 0..TurningRuns, NEW rows \in {v1, TP!NoRows}, v3.packaged,
             TP!FinishProcess(r, rows)
      PROVE  TP!PageInv'
  <2>1. rows \in TP!Rows /\ v6 \cap DOMAIN rows = {}
    BY <1>0, <1>2, NoTurningRows DEF TP!PageInv, TP!ListsInv
  <2>2. v4' \in {v4, TP!Shown(r, 0, rows), TP!ApplyHistory(rows)}
    BY <1>2 DEF TP!FinishProcess
  <2>3. v4' \in TP!Views /\ TP!ShownTogether' /\ TP!DeletedStaysGone'
    BY <1>0, <1>1, <2>1, <2>2, TurningShown, TurningApplied, TurningViewKeeps
       DEF TP!PageInv, TP!ShownTogether, TP!DeletedStaysGone
  <2>4. /\ \/ v3' = [TP!Ended EXCEPT !.offer = FALSE]
           \/ ~v3.registered /\ v3' = [TP!Idle EXCEPT !.offer = FALSE]
        /\ ~v3'.offer
    BY <1>0, <1>2 DEF TP!FinishProcess, TP!Jobs, TP!Ended, TP!Idle
  <2> QED
    BY <1>0, <1>2, <2>3, <2>4, TurningJobEnds
<1>3. CASE TP!OnProcessFinished
  BY <1>0, <1>1, <1>2, <1>3 DEF TP!OnProcessFinished
<1>4. CASE TP!OnProcessError
  BY <1>0, <1>1, <1>2, <1>4 DEF TP!OnProcessError
<1>5. CASE TP!OnTaskFinished
  <2>1. ~v3.packaged /\ v3' = TP!Ended /\ v6 \cap DOMAIN v3.listed = {}
    BY <1>0, <1>5 DEF TP!OnTaskFinished, TP!PageInv, TP!ListsInv
  <2>2. v4' \in {v4, TP!Shown(v3.launched, 0, v3.listed), TP!ApplyHistory(v3.listed)}
    BY <1>5 DEF TP!OnTaskFinished
  <2>3. v4' \in TP!Views /\ TP!ShownTogether' /\ TP!DeletedStaysGone'
    BY <1>0, <1>1, <2>1, <2>2, TurningShown, TurningApplied, TurningViewKeeps
       DEF TP!PageInv, TP!ShownTogether, TP!DeletedStaysGone
  <2> QED
    BY <1>0, <2>1, <2>3, TurningJobEnds
<1> QED
  BY <1>3, <1>4, <1>5

(* The list of saved runs, and the tasks.                                   *)
LEMMA TurningListKeeps ==
    ASSUME TP!PageInv, UNCHANGED <<v2, v3>>, v1' \in TP!Rows, v4' \in TP!Views,
           v5' \in [support : TP!Supports, report : TP!ReportTasks],
           TP!ShownTogether', TP!DeletedStaysGone', TP!ListsInv',
           v6' \subseteq v6 \cup DOMAIN v1, DOMAIN v1' \subseteq DOMAIN v1
    PROVE  TP!PageInv'
<1>1. TP!TypeOK'
  BY TurningRowsShape DEF TP!PageInv, TP!TypeOK
<1>2. TP!FormInv' /\ TP!BusyWithJob' /\ TP!JobInv'
  BY DEF TP!PageInv, TP!FormInv, TP!BusyWithJob, TP!JobInv
<1> QED
  BY <1>1, <1>2 DEF TP!PageInv

LEMMA TurningWithout ==
    ASSUME NEW rows \in TP!Rows, NEW r
    PROVE  TP!Without(rows, r) \in TP!Rows /\ DOMAIN TP!Without(rows, r) = DOMAIN rows \ {r}
<1>1. /\ rows \in [DOMAIN rows -> 0..TurningReports]
      /\ DOMAIN rows \ {r} \in SUBSET TP!Runs
  BY TurningRowsShape
<1>2. TP!Without(rows, r) \in [DOMAIN rows \ {r} -> 0..TurningReports]
  BY <1>1 DEF TP!Without
<1> QED
  BY <1>1, <1>2, TurningRows

LEMMA TurningListSteps ==
    ASSUME TP!PageInv,
           \/ \E r \in TP!Runs : TP!SelectRun(r) \/ TP!DeleteHistory(r)
           \/ TP!PrepareNewRun
           \/ TP!LoadSupportData \/ TP!SupportReads \/ TP!SupportReturns
    PROVE  TP!PageInv'
<1>0. /\ v1 \in TP!Rows /\ v4 \in TP!Views /\ v4.records \in TP!Rows
      /\ v5 \in [support : TP!Supports, report : TP!ReportTasks]
      /\ v5.support \in TP!Supports /\ v5.support.rows \in TP!Rows
      /\ v6 \cap DOMAIN v4.records = {}
      /\ v4.results = v4.selected /\ (v4.report # TP!NoReport => v4.report.run = v4.selected)
      /\ 0 \in 0..TurningRuns /\ 0 \in 0..TurningReports
  BY PagesAssumption
     DEF TP!PageInv, TP!TypeOK, TP!Views, TP!Supports, TP!DeletedStaysGone, TP!ShownTogether
<1>1. ASSUME NEW r \in TP!Runs, TP!SelectRun(r)
      PROVE  TP!PageInv'
  <2>1. r \in DOMAIN v4.records /\ v4' = TP!Shown(r, v4.records[r], v4.records)
        /\ UNCHANGED <<v1, v2, v3, v5, v6>>
    BY <1>1 DEF TP!SelectRun
  <2>2. r \in 0..TurningRuns /\ v4.records[r] \in 0..TurningReports
    BY <1>0, <2>1, TurningRowsShape, PagesAssumption DEF TP!Runs
  <2>3. v4' \in TP!Views /\ TP!ShownTogether' /\ TP!DeletedStaysGone'
    BY <1>0, <2>1, <2>2, TurningShown, TurningViewKeeps
  <2> QED
    BY <1>0, <2>1, <2>3, TurningListKeeps DEF TP!PageInv, TP!ListsInv
<1>2. ASSUME NEW r \in TP!Runs, TP!DeleteHistory(r)
      PROVE  TP!PageInv'
  <2>1. /\ r \in DOMAIN v1 /\ v1' = TP!Without(v1, r)
        /\ v6' = (IF TP!ListUnderWay THEN v6 ELSE v6 \cup {r})
        /\ UNCHANGED <<v2, v3, v5>>
        /\ v4' \in {TP!Shown(0, 0, TP!Without(v4.records, r)), TP!ApplyHistory(TP!Without(v4.records, r))}
    BY <1>2 DEF TP!DeleteHistory, TP!Delete
  <2>2. /\ v1' \in TP!Rows /\ DOMAIN v1' = DOMAIN v1 \ {r}
        /\ TP!Without(v4.records, r) \in TP!Rows
        /\ DOMAIN TP!Without(v4.records, r) = DOMAIN v4.records \ {r}
    BY <1>0, <2>1, TurningWithout
  <2>3. v4' \in TP!Views /\ TP!ShownTogether' /\ TP!DeletedStaysGone'
    BY <1>0, <2>1, <2>2, TurningShown, TurningApplied, TurningViewKeeps
  <2>4. TP!ListsInv'
    BY <2>1, <2>2 DEF TP!PageInv, TP!ListsInv, TP!ListUnderWay
  <2> QED
    BY <1>0, <2>1, <2>2, <2>3, <2>4, TurningListKeeps
<1>3. CASE TP!PrepareNewRun
  <2>1. v4' = TP!Shown(0, 0, v4.records) /\ UNCHANGED <<v1, v2, v3, v5, v6>>
    BY <1>3 DEF TP!PrepareNewRun
  <2>2. v4' \in TP!Views /\ TP!ShownTogether' /\ TP!DeletedStaysGone'
    BY <1>0, <2>1, TurningShown, TurningViewKeeps
  <2> QED
    BY <1>0, <2>1, <2>2, TurningListKeeps DEF TP!PageInv, TP!ListsInv
<1>4. CASE TP!LoadSupportData \/ TP!SupportReads
  <2>1. /\ \/ v5' = [v5 EXCEPT !.support = [TP!NoSupport EXCEPT !.state = "asked"]]
           \/ v5' = [v5 EXCEPT !.support = [state |-> "read", rows |-> v1]]
        /\ UNCHANGED <<v1, v2, v3, v4, v6>>
    BY <1>4 DEF TP!LoadSupportData, TP!SupportReads, TP!Support
  <2>2. /\ v5' \in [support : TP!Supports, report : TP!ReportTasks]
        /\ v5'.support.state = "read" => v5'.support.rows = v1
    BY <1>0, <2>1, NoTurningRows DEF TP!Supports, TP!NoSupport
  <2>3. TP!ListsInv' /\ TP!ShownTogether' /\ TP!DeletedStaysGone'
    BY <2>1, <2>2 DEF TP!PageInv, TP!ListsInv, TP!ShownTogether, TP!DeletedStaysGone
  <2> QED
    BY <1>0, <2>1, <2>2, <2>3, TurningListKeeps
<1>5. CASE TP!SupportReturns
  <2>1. /\ v5.support.state = "read" /\ v5' = [v5 EXCEPT !.support = TP!NoSupport]
        /\ v4' = TP!ApplyHistory(v5.support.rows) /\ UNCHANGED <<v1, v2, v3, v6>>
    BY <1>5 DEF TP!SupportReturns, TP!Support
  <2>2. v5' \in [support : TP!Supports, report : TP!ReportTasks] /\ v5'.support.state = "none"
    BY <1>0, <2>1, NoTurningRows DEF TP!Supports, TP!NoSupport
  <2>3. v4' \in TP!Views /\ TP!ShownTogether' /\ TP!DeletedStaysGone'
    BY <1>0, <2>1, TurningApplied, TurningViewKeeps DEF TP!PageInv, TP!ListsInv
  <2>4. TP!ListsInv'
    BY <2>1, <2>2 DEF TP!PageInv, TP!ListsInv
  <2> QED
    BY <1>0, <2>1, <2>2, <2>3, <2>4, TurningListKeeps
<1> QED
  BY <1>1, <1>2, <1>3, <1>4, <1>5

LEMMA TurningReportSteps ==
    ASSUME TP!PageInv, TP!GenerateReport \/ TP!ReportWritten \/ TP!ReportReturns
    PROVE  TP!PageInv'
<1>0. /\ v1 \in TP!Rows /\ v4 \in TP!Views
      /\ v5 \in [support : TP!Supports, report : TP!ReportTasks]
      /\ v5.support \in TP!Supports /\ v5.report \in TP!ReportTasks
      /\ v6 \cap DOMAIN v4.records = {}
      /\ v4.results = v4.selected /\ (v4.report # TP!NoReport => v4.report.run = v4.selected)
      /\ 0 \in 0..TurningRuns /\ 0 \in 0..TurningReports
  BY PagesAssumption DEF TP!PageInv, TP!TypeOK, TP!DeletedStaysGone, TP!ShownTogether
<1>1. ASSUME UNCHANGED <<v2, v3, v6>>, v1' \in TP!Rows, DOMAIN v1' = DOMAIN v1,
             NEW task \in TP!ReportTasks, v5' = [v5 EXCEPT !.report = task],
             v4' \in TP!Views, TP!ShownTogether', v4'.records = v4.records
      PROVE  TP!PageInv'
  <2>1. v5' \in [support : TP!Supports, report : TP!ReportTasks] /\ v5'.support = v5.support
    BY <1>0, <1>1
  <2>2. TP!ListsInv' /\ TP!DeletedStaysGone'
    BY <1>0, <1>1, <2>1 DEF TP!PageInv, TP!ListsInv, TP!DeletedStaysGone
  <2> QED
    BY <1>1, <2>1, <2>2, TurningListKeeps
<1>2. CASE TP!GenerateReport
  <2>1. [run |-> v4.selected, state |-> "asked", text |-> 0] \in TP!ReportTasks
    BY <1>0 DEF TP!Views, TP!ReportTasks
  <2> QED
    BY <1>0, <1>1, <1>2, <2>1 DEF TP!GenerateReport, TP!ShownTogether
<1>3. CASE TP!ReportWritten
  <2> DEFINE r == v5.report.run
  <2>1. UNCHANGED <<v2, v3, v4, v6>> /\ TP!ShownTogether'
    BY <1>0, <1>3 DEF TP!ReportWritten, TP!ShownTogether
  <2>2. CASE /\ r \in DOMAIN v1 /\ v1[r] < TurningReports /\ v1' = [v1 EXCEPT ![r] = @ + 1]
             /\ v5' = [v5 EXCEPT !.report = [run |-> r, state |-> "written", text |-> v1'[r]]]
    <3>1. v1 \in [DOMAIN v1 -> 0..TurningReports] /\ DOMAIN v1 \in SUBSET TP!Runs
      BY <1>0, TurningRowsShape
    <3>2. v1[r] + 1 \in 0..TurningReports
      BY <2>2, <3>1, PagesAssumption
    <3>3. v1' \in [DOMAIN v1 -> 0..TurningReports] /\ v1'[r] \in 0..TurningReports
      BY <2>2, <3>1, <3>2
    <3>4. v1' \in TP!Rows /\ DOMAIN v1' = DOMAIN v1
      BY <3>1, <3>3, TurningRows
    <3>5. [run |-> r, state |-> "written", text |-> v1'[r]] \in TP!ReportTasks
      BY <1>0, <3>3 DEF TP!ReportTasks
    <3> QED
      BY <1>0, <1>1, <2>1, <2>2, <3>4, <3>5
  <2>3. CASE v5' = [v5 EXCEPT !.report.state = "failed"] /\ UNCHANGED v1
    <3>1. [v5.report EXCEPT !.state = "failed"] \in TP!ReportTasks
      BY <1>0 DEF TP!ReportTasks
    <3>2. v5' = [v5 EXCEPT !.report = [v5.report EXCEPT !.state = "failed"]]
      BY <1>0, <2>3
    <3> QED
      BY <1>0, <1>1, <2>1, <2>3, <3>1, <3>2
  <2> QED
    BY <1>3, <2>2, <2>3 DEF TP!ReportWritten
<1>4. CASE TP!ReportReturns
  <2>1. TP!NoReportTask \in TP!ReportTasks
    BY <1>0 DEF TP!NoReportTask, TP!ReportTasks
  <2>2. /\ v5' = [v5 EXCEPT !.report = TP!NoReportTask] /\ UNCHANGED <<v1, v2, v3, v6>>
        /\ \/ /\ v5.report.run = v4.selected
              /\ v4' = [v4 EXCEPT !.report = [run |-> v5.report.run, text |-> v5.report.text]]
           \/ v4' = v4
    BY <1>4 DEF TP!ReportReturns, TP!ReportReturnsWhen
  <2>3. v4' \in TP!Views /\ v4'.records = v4.records
    BY <1>0, <2>2 DEF TP!Views, TP!Reports, TP!ReportTasks
  <2>4. TP!ShownTogether'
    BY <1>0, <2>2 DEF TP!ShownTogether, TP!Views, TP!NoReport
  <2> QED
    BY <1>0, <1>1, <2>1, <2>2, <2>3, <2>4
<1> QED
  BY <1>2, <1>3, <1>4

LEMMA TurningStep == TP!PageInv /\ TP!Next => TP!PageInv'
BY TurningFormSteps, TurningJobSteps, TurningEndSteps, TurningListSteps, TurningReportSteps
   DEF TP!Next

LEMMA TurningStutter == TP!PageInv /\ UNCHANGED <<v1, v2, v3, v4, v5, v6>> => TP!PageInv'
BY DEF TP!PageInv, TP!TypeOK, TP!FormInv, TP!JobInv, TP!ListsInv, TP!ShownTogether, TP!BusyWithJob,
       TP!DeletedStaysGone

-----------------------------------------------------------------------------
(* The extreme deviation page.                                              *)
LEMMA DeviationRows ==
    ASSUME NEW S \in SUBSET ED!Runs, NEW f \in [S -> 0..DeviationReports]
    PROVE  f \in ED!Rows
BY DEF ED!Rows

LEMMA DeviationRowsShape ==
    ASSUME NEW f \in ED!Rows
    PROVE  DOMAIN f \subseteq ED!Runs /\ f \in [DOMAIN f -> 0..DeviationReports]
BY DEF ED!Rows

LEMMA DeviationInit == ED!Init => ED!PageInv
<1> SUFFICES ASSUME ED!Init PROVE ED!PageInv
  OBVIOUS
<1>1. v1 \in ED!Rows
  <2>1. {} \in SUBSET ED!Runs /\ v1 \in [{} -> 0..DeviationReports]
    BY DEF ED!Init
  <2> QED
    BY <2>1, DeviationRows
<1>2. v2 \in ED!Forms /\ v3 \in ED!Lookups /\ v4 \in ED!Budgets
  BY PagesAssumption
     DEF ED!Init, ED!Forms, ED!Lookups, ED!Budgets, ED!Requests, ED!Choices, ED!NoRequest
<1>3. v5 \in ED!Jobs
  BY PagesAssumption DEF ED!Init, ED!Jobs, ED!JobStates, ED!Outcomes
<1>4. v6 \in ED!Views
  BY PagesAssumption
     DEF ED!Init, ED!Views, ED!Reports, ED!ReportTasks, ED!NoReport, ED!NoReportTask
<1>5. ED!DatesInv /\ ~ED!Running /\ ED!ShownTogether
  BY DEF ED!Init, ED!DatesInv, ED!Running, ED!ShownTogether
<1> QED
  BY <1>1, <1>2, <1>3, <1>4, <1>5 DEF ED!PageInv, ED!TypeOK

(* A step of the form and its lookups.                                      *)
LEMMA DeviationFormKeeps ==
    ASSUME ED!PageInv, UNCHANGED <<v1, v5>>, v2' \in ED!Forms, v3' \in ED!Lookups,
           v4' \in ED!Budgets, v6' \in ED!Views, ED!ShownTogether', ED!DatesInv'
    PROVE  ED!PageInv'
BY DEF ED!PageInv, ED!TypeOK, ED!Running

LEMMA DeviationRequest ==
    ASSUME v2 \in ED!Forms
    PROVE  ED!BuildRequest \in ED!Requests /\ ED!NoRequest \in ED!Requests
BY PagesAssumption DEF ED!BuildRequest, ED!NoRequest, ED!Requests, ED!Forms, ED!Choices

LEMMA DeviationFormSteps ==
    ASSUME ED!PageInv,
           \/ \E s \in Securities : ED!SelectSecurity(s)
           \/ ED!SetInvalidEndDate \/ \E d \in 1..MaxDate : ED!SetEndDate(d)
           \/ ED!CalendarReturns \/ ED!LoadSupportData \/ ED!SupportReturns
           \/ ED!Start \/ ED!SetIntervalSelected
    PROVE  ED!PageInv'
<1>0. /\ v2 \in ED!Forms /\ v3 \in ED!Lookups /\ v4 \in ED!Budgets /\ v6 \in ED!Views
      /\ ED!ShownTogether /\ ED!DatesInv
      /\ v3.known \subseteq Securities /\ v3.calendar \in 0..MaxDate /\ v2.requested \in 0..MaxDate
  BY DEF ED!PageInv, ED!TypeOK, ED!Forms, ED!Lookups
<1>1. ASSUME UNCHANGED <<v1, v4, v5, v6>>, v2' \in ED!Forms, v3' \in ED!Lookups, ED!DatesInv'
      PROVE  ED!PageInv'
  BY <1>0, <1>1, DeviationFormKeeps DEF ED!ShownTogether
<1>2. ASSUME NEW s \in Securities, ED!SelectSecurity(s) PROVE ED!PageInv'
  BY <1>0, <1>1, <1>2 DEF ED!SelectSecurity, ED!Forms, ED!Choices, ED!DatesInv
<1>3. CASE ED!SetInvalidEndDate
  <2>1. v2' = [v2 EXCEPT !.requested = 0, !.end = 0] /\ UNCHANGED <<v1, v3, v4, v5, v6>>
    BY <1>3 DEF ED!SetInvalidEndDate
  <2>2. v2' \in ED!Forms /\ v2'.end = 0 /\ v2'.requested = 0 /\ v2'.security = v2.security
    <3>1. 0 \in 0..MaxDate
      BY PagesAssumption
    <3> QED
      BY <1>0, <2>1, <3>1 DEF ED!Forms
  <2>3. ED!DatesInv'
    BY <1>0, <2>1, <2>2 DEF ED!DatesInv
  <2> QED
    BY <1>0, <1>1, <2>1, <2>2, <2>3
<1>4. ASSUME NEW d \in 1..MaxDate, ED!SetEndDate(d) PROVE ED!PageInv'
  <2>1. d \in 0..MaxDate /\ d # 0
    BY PagesAssumption
  <2>2. /\ v2' = [v2 EXCEPT !.requested = d, !.end = d] /\ v3' = [v3 EXCEPT !.calendar = d]
        /\ UNCHANGED <<v1, v4, v5, v6>>
    BY <1>4 DEF ED!SetEndDate
  <2>3. v2' \in ED!Forms /\ v3' \in ED!Lookups
    BY <1>0, <2>1, <2>2 DEF ED!Forms, ED!Lookups
  <2>4. ED!DatesInv'
    BY <1>0, <2>1, <2>2 DEF ED!Forms, ED!Lookups, ED!DatesInv
  <2> QED
    BY <1>1, <2>2, <2>3, <2>4
<1>5. CASE ED!CalendarReturns
  <2>1. /\ v3.calendar # 0 /\ v3' = [v3 EXCEPT !.calendar = 0] /\ UNCHANGED <<v1, v4, v5, v6>>
        /\ \/ UNCHANGED v2
           \/ /\ v3.calendar = v2.requested
              /\ \E day \in {v3.calendar, v3.calendar - 1, 0} : v2' = [v2 EXCEPT !.end = day]
    BY <1>5 DEF ED!CalendarReturns, ED!CalendarAnswers
  <2>2. v3' \in ED!Lookups /\ v3'.calendar = 0 /\ v3'.known = v3.known
    BY <1>0, <2>1, PagesAssumption DEF ED!Lookups
  <2>3. CASE UNCHANGED v2
    BY <1>0, <1>1, <2>1, <2>2, <2>3 DEF ED!DatesInv
  <2>4. ASSUME NEW day \in {v3.calendar, v3.calendar - 1, 0}, v2' = [v2 EXCEPT !.end = day],
               v3.calendar = v2.requested
        PROVE  ED!PageInv'
    <3>1. day \in 0..MaxDate
      BY <1>0, <2>1, PagesAssumption
    <3>2. v2' \in ED!Forms
      BY <1>0, <2>4, <3>1 DEF ED!Forms
    <3>3. ED!DatesInv'
      BY <1>0, <2>1, <2>2, <2>4 DEF ED!DatesInv, ED!Forms
    <3> QED
      BY <1>1, <2>1, <2>2, <3>2, <3>3
  <2> QED
    BY <2>1, <2>3, <2>4
<1>6. CASE ED!LoadSupportData
  BY <1>0, <1>1, <1>6 DEF ED!LoadSupportData, ED!Lookups, ED!DatesInv
<1>7. CASE ED!SupportReturns
  BY <1>0, <1>1, <1>7 DEF ED!SupportReturns, ED!Lookups, ED!Forms, ED!Choices, ED!DatesInv
<1>8. CASE ED!Start \/ ED!SetIntervalSelected
  <2>1. v4' \in ED!Budgets /\ UNCHANGED <<v1, v2, v3, v5, v6>>
    <3>1. CASE ED!Start
      BY <1>0, <3>1, DeviationRequest DEF ED!Start, ED!Budgets
    <3>2. CASE ED!SetIntervalSelected
      BY <1>0, <3>2, DeviationRequest DEF ED!SetIntervalSelected, ED!Dropped, ED!Budgets
    <3> QED
      BY <1>8, <3>1, <3>2
  <2> QED
    BY <1>0, <2>1, DeviationFormKeeps DEF ED!ShownTogether, ED!DatesInv
<1> QED
  BY <1>2, <1>3, <1>4, <1>5, <1>6, <1>7, <1>8

(* Launching a run.                                                         *)
LEMMA DeviationLaunch ==
    ASSUME ED!PageInv, ED!LaunchRun(v4.kept), UNCHANGED <<v1, v2, v3, v6>>, v4' \in ED!Budgets
    PROVE  ED!PageInv'
<1>1. v5 \in ED!Jobs /\ v4.kept.end \in 0..MaxDate
  BY DEF ED!PageInv, ED!TypeOK, ED!Budgets, ED!Requests
<1>2. v5.launched + 1 \in 0..DeviationRuns /\ v5.launched + 1 > 0
  BY <1>1, PagesAssumption DEF ED!LaunchRun, ED!Jobs
<1>3. v5' \in ED!Jobs /\ v5'.launched > 0
  BY <1>1, <1>2 DEF ED!LaunchRun, ED!Jobs, ED!JobStates, ED!Outcomes
<1> QED
  BY <1>3 DEF ED!PageInv, ED!TypeOK, ED!DatesInv, ED!ShownTogether

LEMMA DeviationBudgetSteps ==
    ASSUME ED!PageInv, ED!BudgetReturns \/ ED!ConfirmBudget
    PROVE  ED!PageInv'
<1>0. /\ v2 \in ED!Forms /\ v3 \in ED!Lookups /\ v4 \in ED!Budgets /\ v6 \in ED!Views
      /\ ED!NoRequest \in ED!Requests
  BY DeviationRequest DEF ED!PageInv, ED!TypeOK
<1>1. v4' \in ED!Budgets /\ UNCHANGED <<v1, v2, v3, v6>>
  BY <1>0 DEF ED!BudgetReturns, ED!ConfirmBudget, ED!Dropped, ED!Budgets
<1>2. ED!LaunchRun(v4.kept) \/ UNCHANGED v5
  BY DEF ED!BudgetReturns, ED!ConfirmBudget
<1> QED
  BY <1>0, <1>1, <1>2, DeviationLaunch, DeviationFormKeeps
     DEF ED!PageInv, ED!ShownTogether, ED!DatesInv

(* The job.                                                                 *)
LEMMA DeviationJobKeeps ==
    ASSUME ED!PageInv, UNCHANGED <<v2, v3, v4>>, v1' \in ED!Rows, v5' \in ED!Jobs, v6' \in ED!Views,
           ED!ShownTogether', v5.state = "none" => v5'.state = "none", v5'.launched = v5.launched
    PROVE  ED!PageInv'
BY DEF ED!PageInv, ED!TypeOK, ED!DatesInv, ED!Running

LEMMA DeviationJobSteps ==
    ASSUME ED!PageInv,
           \/ ED!JobAsks \/ ED!ResolveOffer \/ ED!JobSaves \/ ED!JobFails \/ ED!ProcessKilled
           \/ ED!Cancel
    PROVE  ED!PageInv'
<1>0. v1 \in ED!Rows /\ v5 \in ED!Jobs /\ v6 \in ED!Views /\ ED!ShownTogether
  BY DEF ED!PageInv, ED!TypeOK
<1>1. UNCHANGED <<v2, v3, v4, v6>>
  BY DEF ED!JobAsks, ED!ResolveOffer, ED!JobSaves, ED!JobFails, ED!ProcessKilled, ED!Cancel, ED!Job
<1>2. /\ v5' \in ED!Jobs /\ v5'.launched = v5.launched
      /\ v5.state = "none" => v5'.state = "none"
  BY <1>0 DEF ED!JobAsks, ED!ResolveOffer, ED!JobSaves, ED!JobFails, ED!ProcessKilled, ED!Cancel,
         ED!Job, ED!Jobs, ED!JobStates, ED!Outcomes
<1>3. v1' \in ED!Rows
  <2>1. CASE UNCHANGED v1
    BY <1>0, <2>1
  <2>2. CASE ED!JobSaves
    <3>1. v5.launched \in ED!Runs
      BY <1>0, <2>2, PagesAssumption
         DEF ED!JobSaves, ED!Job, ED!PageInv, ED!Running, ED!Jobs, ED!Runs
    <3>2. DOMAIN v1 \cup {v5.launched} \in SUBSET ED!Runs /\ v1 \in [DOMAIN v1 -> 0..DeviationReports]
      BY <1>0, <3>1, DeviationRowsShape
    <3>3. v1' \in [DOMAIN v1 \cup {v5.launched} -> 0..DeviationReports]
      BY <2>2, <3>2, PagesAssumption DEF ED!JobSaves
    <3> QED
      BY <3>2, <3>3, DeviationRows
  <2> QED
    BY <2>1, <2>2 DEF ED!JobAsks, ED!ResolveOffer, ED!JobFails, ED!ProcessKilled, ED!Cancel
<1> QED
  BY <1>0, <1>1, <1>2, <1>3, DeviationJobKeeps DEF ED!ShownTogether

LEMMA DeviationShown ==
    ASSUME v6 \in ED!Views, NEW r \in 0..DeviationRuns, NEW text \in 0..DeviationReports
    PROVE  /\ ED!Shown(r, text) \in ED!Views
           /\ ED!Shown(r, text).results = ED!Shown(r, text).run
           /\ \/ ED!Shown(r, text).report = ED!NoReport
              \/ ED!Shown(r, text).report.run = ED!Shown(r, text).run
<1>1. [run |-> r, text |-> text] \in ED!Reports /\ ED!NoReport \in ED!Reports
  BY PagesAssumption DEF ED!Reports, ED!NoReport
<1> QED
  BY <1>1 DEF ED!Shown, ED!Views

LEMMA DeviationEndSteps ==
    ASSUME ED!PageInv, ED!OnProcessFinished \/ ED!OnProcessError \/ ED!OnTaskFinished
    PROVE  ED!PageInv'
<1>0. v1 \in ED!Rows /\ v5 \in ED!Jobs /\ v6 \in ED!Views /\ ED!ShownTogether
  BY DEF ED!PageInv, ED!TypeOK
<1>1. v5' = ED!Idle /\ UNCHANGED <<v1, v2, v3, v4>>
  BY DEF ED!OnProcessFinished, ED!OnProcessError, ED!OnTaskFinished
<1>2. v5' \in ED!Jobs /\ v5'.state = "none" /\ v5'.launched = v5.launched
  BY <1>0, <1>1 DEF ED!Idle, ED!Jobs, ED!JobStates, ED!Outcomes
<1>3. v5.launched \in 0..DeviationRuns /\ 0 \in 0..DeviationReports
  BY <1>0, PagesAssumption DEF ED!Jobs
<1>4. \/ v6' = v6
      \/ v6' = ED!Shown(v5.launched, 0)
      \/ v5.launched \in DOMAIN v1 /\ v6' = ED!Shown(v5.launched, v1[v5.launched])
  BY DEF ED!OnProcessFinished, ED!OnProcessError, ED!OnTaskFinished
<1>5. v5.launched \in DOMAIN v1 => v1[v5.launched] \in 0..DeviationReports
  BY <1>0, DeviationRowsShape
<1>6. v6' \in ED!Views /\ ED!ShownTogether'
  BY <1>0, <1>3, <1>4, <1>5, DeviationShown DEF ED!ShownTogether
<1> QED
  BY <1>0, <1>1, <1>2, <1>6, DeviationJobKeeps

(* Saved runs and reports.                                                  *)
LEMMA DeviationListSteps ==
    ASSUME ED!PageInv,
           \/ \E r \in ED!Runs : ED!SelectRun(r) \/ ED!DeleteHistory(r)
           \/ ED!PrepareNewRun
    PROVE  ED!PageInv'
<1>0. /\ v1 \in ED!Rows /\ v5 \in ED!Jobs /\ v6 \in ED!Views /\ ED!ShownTogether
      /\ 0 \in 0..DeviationRuns /\ 0 \in 0..DeviationReports
  BY PagesAssumption DEF ED!PageInv, ED!TypeOK
<1>1. ASSUME NEW r \in ED!Runs, ED!SelectRun(r) PROVE ED!PageInv'
  <2>1. r \in DOMAIN v1 /\ v6' = ED!Shown(r, v1[r]) /\ UNCHANGED <<v1, v2, v3, v4, v5>>
    BY <1>1 DEF ED!SelectRun
  <2>2. r \in 0..DeviationRuns /\ v1[r] \in 0..DeviationReports
    BY <1>0, <2>1, DeviationRowsShape, PagesAssumption DEF ED!Runs
  <2>3. v6' \in ED!Views /\ ED!ShownTogether'
    BY <1>0, <2>1, <2>2, DeviationShown DEF ED!ShownTogether
  <2> QED
    BY <1>0, <2>1, <2>3, DeviationJobKeeps
<1>2. ASSUME NEW r \in ED!Runs, ED!DeleteHistory(r) PROVE ED!PageInv'
  <2>1. /\ v1' = [q \in DOMAIN v1 \ {r} |-> v1[q]] /\ UNCHANGED <<v2, v3, v4, v5>>
        /\ v6' = ED!Shown(0, 0) \/ v6' = v6
    BY <1>2 DEF ED!DeleteHistory
  <2>2. v6' \in ED!Views /\ ED!ShownTogether'
    BY <1>0, <2>1, DeviationShown DEF ED!ShownTogether
  <2>3. v1' \in ED!Rows
    <3>1. v1 \in [DOMAIN v1 -> 0..DeviationReports] /\ DOMAIN v1 \ {r} \in SUBSET ED!Runs
      BY <1>0, DeviationRowsShape
    <3>2. v1' \in [DOMAIN v1 \ {r} -> 0..DeviationReports]
      BY <2>1, <3>1
    <3> QED
      BY <3>1, <3>2, DeviationRows
  <2> QED
    BY <1>0, <2>1, <2>2, <2>3, DeviationJobKeeps
<1>3. CASE ED!PrepareNewRun
  <2>0. v2 \in ED!Forms /\ v3 \in ED!Lookups /\ v4 \in ED!Budgets /\ ED!DatesInv
        /\ ED!NoRequest \in ED!Requests
    BY DeviationRequest DEF ED!PageInv, ED!TypeOK
  <2>1. /\ v2' = [v2 EXCEPT !.security = "none"] /\ v4' = ED!Dropped /\ v6' = ED!Shown(0, 0)
        /\ v3' = [v3 EXCEPT !.reading = TRUE] /\ UNCHANGED <<v1, v5>>
    BY <1>3 DEF ED!PrepareNewRun
  <2>2. v2' \in ED!Forms /\ v3' \in ED!Lookups /\ v4' \in ED!Budgets
    BY <2>0, <2>1 DEF ED!Forms, ED!Choices, ED!Lookups, ED!Budgets, ED!Dropped
  <2>3. v6' \in ED!Views /\ ED!ShownTogether'
    BY <1>0, <2>1, DeviationShown DEF ED!ShownTogether
  <2>4. ED!DatesInv'
    BY <2>0, <2>1 DEF ED!DatesInv, ED!Forms, ED!Lookups
  <2> QED
    BY <2>1, <2>2, <2>3, <2>4, DeviationFormKeeps
<1> QED
  BY <1>1, <1>2, <1>3

LEMMA DeviationReportSteps ==
    ASSUME ED!PageInv, ED!StartReport \/ ED!ReportWritten \/ ED!ReportReturns
    PROVE  ED!PageInv'
<1>0. /\ v1 \in ED!Rows /\ v5 \in ED!Jobs /\ v6 \in ED!Views /\ ED!ShownTogether
      /\ v6.task \in ED!ReportTasks /\ v6.run \in 0..DeviationRuns
      /\ 0 \in 0..DeviationRuns /\ 0 \in 0..DeviationReports
  BY PagesAssumption DEF ED!PageInv, ED!TypeOK, ED!Views
<1>1. ASSUME UNCHANGED <<v2, v3, v4, v5>>, v1' \in ED!Rows,
             NEW task \in ED!ReportTasks, v6' = [v6 EXCEPT !.task = task]
      PROVE  ED!PageInv'
  <2>1. v6' \in ED!Views /\ ED!ShownTogether'
    BY <1>0, <1>1 DEF ED!Views, ED!ShownTogether
  <2> QED
    BY <1>0, <1>1, <2>1, DeviationJobKeeps
<1>2. CASE ED!StartReport
  <2>1. [run |-> v6.run, state |-> "asked", text |-> 0] \in ED!ReportTasks
    BY <1>0 DEF ED!ReportTasks
  <2> QED
    BY <1>0, <1>1, <1>2, <2>1 DEF ED!StartReport
<1>3. CASE ED!ReportWritten
  <2> DEFINE r == v6.task.run
  <2>1. UNCHANGED <<v2, v3, v4, v5>>
    BY <1>3 DEF ED!ReportWritten
  <2>2. CASE /\ r \in DOMAIN v1 /\ v1[r] < DeviationReports /\ v1' = [v1 EXCEPT ![r] = @ + 1]
             /\ v6' = [v6 EXCEPT !.task = [run |-> r, state |-> "written", text |-> v1'[r]]]
    <3>1. v1 \in [DOMAIN v1 -> 0..DeviationReports] /\ DOMAIN v1 \in SUBSET ED!Runs
      BY <1>0, DeviationRowsShape
    <3>2. v1[r] + 1 \in 0..DeviationReports
      BY <2>2, <3>1, PagesAssumption
    <3>3. v1' \in [DOMAIN v1 -> 0..DeviationReports] /\ v1'[r] \in 0..DeviationReports
      BY <2>2, <3>1, <3>2
    <3>4. v1' \in ED!Rows
      BY <3>1, <3>3, DeviationRows
    <3>5. [run |-> r, state |-> "written", text |-> v1'[r]] \in ED!ReportTasks
      BY <1>0, <3>3 DEF ED!ReportTasks
    <3> QED
      BY <1>1, <2>1, <2>2, <3>4, <3>5
  <2>3. CASE v6' = [v6 EXCEPT !.task.state = "failed"] /\ UNCHANGED v1
    <3>1. [v6.task EXCEPT !.state = "failed"] \in ED!ReportTasks
      BY <1>0 DEF ED!ReportTasks
    <3>2. v6' = [v6 EXCEPT !.task = [v6.task EXCEPT !.state = "failed"]]
      BY <1>0, <2>3
    <3> QED
      BY <1>0, <1>1, <2>1, <2>3, <3>1, <3>2
  <2> QED
    BY <1>3, <2>2, <2>3 DEF ED!ReportWritten
<1>4. CASE ED!ReportReturns
  <2>1. ED!NoReportTask \in ED!ReportTasks
    BY <1>0 DEF ED!NoReportTask, ED!ReportTasks
  <2>2. PICK report \in {v6.report, [run |-> v6.task.run, text |-> v6.task.text]} :
           /\ v6' = [v6 EXCEPT !.task = ED!NoReportTask, !.report = report]
           /\ report = v6.report \/ (v6.task.run = v6.run /\ report.run = v6.task.run)
           /\ UNCHANGED <<v1, v2, v3, v4, v5>>
    BY <1>4 DEF ED!ReportReturns, ED!ReportReturnsWhen
  <2>3. report \in ED!Reports
    BY <1>0 DEF ED!Views, ED!Reports, ED!ReportTasks
  <2>4. v6' \in ED!Views /\ v6'.report = report /\ v6'.run = v6.run /\ v6'.results = v6.results
    BY <1>0, <2>1, <2>2, <2>3 DEF ED!Views
  <2>5. ED!ShownTogether'
    BY <1>0, <2>2, <2>4 DEF ED!ShownTogether
  <2> QED
    BY <1>0, <2>2, <2>4, <2>5, DeviationJobKeeps
<1> QED
  BY <1>2, <1>3, <1>4

LEMMA DeviationStep == ED!PageInv /\ ED!Next => ED!PageInv'
BY DeviationFormSteps, DeviationBudgetSteps, DeviationJobSteps, DeviationEndSteps,
   DeviationListSteps, DeviationReportSteps
   DEF ED!Next

LEMMA DeviationStutter == ED!PageInv /\ UNCHANGED <<v1, v2, v3, v4, v5, v6>> => ED!PageInv'
BY DEF ED!PageInv, ED!TypeOK, ED!DatesInv, ED!Running, ED!ShownTogether

-----------------------------------------------------------------------------
(* The RS history page.                                                     *)
LEMMA HistoryRows ==
    ASSUME NEW S \in SUBSET RsRuns, NEW f \in [S -> 0..RsReports]
    PROVE  f \in RS!Rows
BY DEF RS!Rows

LEMMA HistoryRowsShape ==
    ASSUME NEW f \in RS!Rows
    PROVE  DOMAIN f \subseteq RsRuns /\ f \in [DOMAIN f -> 0..RsReports]
BY DEF RS!Rows

LEMMA HistoryInit == RS!Init => RS!PageInv
<1> SUFFICES ASSUME RS!Init PROVE RS!PageInv
  OBVIOUS
<1>1. v1 \in RS!Rows
  <2>1. {} \in SUBSET RsRuns /\ v1 \in [{} -> 0..RsReports]
    BY DEF RS!Init
  <2> QED
    BY <2>1, HistoryRows
<1> QED
  BY <1>1, PagesAssumption
     DEF RS!Init, RS!PageInv, RS!TypeOK, RS!TextIsOfSnapshot, RS!Views, RS!NothingShown, RS!NoRun, RS!NoTask

LEMMA HistoryRangeIsOne == RS!FirstRange \in Ranges
BY PagesAssumption DEF RS!FirstRange

LEMMA HistoryNothingShown ==
    /\ RS!NothingShown \in RS!Views
    /\ RS!NothingShown.text = RS!NothingShown.last
    /\ RS!NothingShown.run = RS!NoRun /\ RS!NothingShown.range = RS!NoRun
<1>1. 0 \in 0..RsReports
  BY PagesAssumption
<1> QED
  BY <1>1 DEF RS!NothingShown, RS!Views

(* A run that is saved, deleted or reported about.                          *)
LEMMA HistoryStored ==
    ASSUME v1 \in RS!Rows, NEW r \in RsRuns
    PROVE  /\ [q \in DOMAIN v1 \cup {r} |-> IF q = r THEN 0 ELSE v1[q]] \in RS!Rows
           /\ RS!Without(r) \in RS!Rows
           /\ r \in DOMAIN v1 => v1[r] \in 0..RsReports
           /\ r \in DOMAIN v1 /\ v1[r] < RsReports => [v1 EXCEPT ![r] = @ + 1] \in RS!Rows
<1>1. v1 \in [DOMAIN v1 -> 0..RsReports] /\ DOMAIN v1 \in SUBSET RsRuns
  BY HistoryRowsShape
<1>2. [q \in DOMAIN v1 \cup {r} |-> IF q = r THEN 0 ELSE v1[q]] \in RS!Rows
  <2>1. [q \in DOMAIN v1 \cup {r} |-> IF q = r THEN 0 ELSE v1[q]]
           \in [DOMAIN v1 \cup {r} -> 0..RsReports]
    BY <1>1, PagesAssumption
  <2>2. DOMAIN v1 \cup {r} \in SUBSET RsRuns
    BY <1>1
  <2> QED
    BY <2>1, <2>2, HistoryRows
<1>3. RS!Without(r) \in RS!Rows
  <2>1. RS!Without(r) \in [DOMAIN v1 \ {r} -> 0..RsReports] /\ DOMAIN v1 \ {r} \in SUBSET RsRuns
    BY <1>1 DEF RS!Without
  <2> QED
    BY <2>1, HistoryRows
<1>4. ASSUME r \in DOMAIN v1, v1[r] < RsReports PROVE [v1 EXCEPT ![r] = @ + 1] \in RS!Rows
  <2>1. v1[r] + 1 \in 0..RsReports
    BY <1>1, <1>4, PagesAssumption
  <2>2. [v1 EXCEPT ![r] = @ + 1] \in [DOMAIN v1 -> 0..RsReports]
    BY <1>1, <2>1
  <2> QED
    BY <1>1, <2>2, HistoryRows
<1> QED
  BY <1>1, <1>2, <1>3, <1>4

LEMMA HistorySnapshot ==
    ASSUME v1 \in RS!Rows, NEW r \in RsRuns, r \in DOMAIN v1, NEW v \in RS!Views
    PROVE  /\ RS!Snapshot(v, r) \in RS!Views
           /\ RS!Snapshot(v, r).text = RS!Snapshot(v, r).last
           /\ RS!Snapshot(v, r).run = r /\ RS!Snapshot(v, r).range = v.range
<1>1. v1[r] \in 0..RsReports
  BY HistoryStored
<1> QED
  BY <1>1 DEF RS!Snapshot, RS!Views

LEMMA HistoryStep == RS!PageInv /\ RS!Next => RS!PageInv'
<1> SUFFICES ASSUME RS!PageInv, RS!Next PROVE RS!PageInv'
  OBVIOUS
<1>0. /\ v1 \in RS!Rows /\ v2 \in RS!Views /\ RS!TextIsOfSnapshot
      /\ v3 \in [run : RsRuns \cup {"none"}, outcome : {"none", "asked", "written", "failed"}]
      /\ v3 # RS!NoTask => v3.run \in RsRuns
      /\ "none" \notin RsRuns /\ "none" \notin Ranges
  BY PagesAssumption DEF RS!PageInv, RS!TypeOK, RS!NoRun
<1>1. ASSUME v1' \in RS!Rows, v2' \in RS!Views, RS!TextIsOfSnapshot', UNCHANGED v3
      PROVE  RS!PageInv'
  BY <1>0, <1>1 DEF RS!PageInv, RS!TypeOK
<1>2. ASSUME NEW r \in RsRuns, RS!Saved(r) \/ RS!Evicted(r) PROVE RS!PageInv'
  BY <1>0, <1>1, <1>2, HistoryStored DEF RS!Saved, RS!Evicted, RS!TextIsOfSnapshot
<1>3. ASSUME NEW r \in RsRuns, RS!SelectRun(r) PROVE RS!PageInv'
  <2> DEFINE v == [RS!NothingShown EXCEPT !.range = RS!FirstRange]
  <2>1. v \in RS!Views /\ v.range \in Ranges
    BY HistoryRangeIsOne, HistoryNothingShown DEF RS!Views
  <2>2. UNCHANGED <<v1, v3>> /\ v2' = (IF r \in DOMAIN v1 THEN RS!Snapshot(v, r) ELSE v2)
    BY <1>3 DEF RS!SelectRun
  <2> HIDE DEF v
  <2>3. v2' \in RS!Views /\ RS!TextIsOfSnapshot'
    BY <1>0, <2>1, <2>2, HistorySnapshot DEF RS!TextIsOfSnapshot, RS!NoRun
  <2> QED
    BY <1>0, <1>1, <2>2, <2>3
<1>4. CASE RS!ToggleStockSort
  BY <1>0, <1>1, <1>4 DEF RS!ToggleStockSort, RS!Views, RS!TextIsOfSnapshot
<1>5. ASSUME NEW range \in Ranges, RS!SelectRange(range) PROVE RS!PageInv'
  BY <1>0, <1>1, <1>5 DEF RS!SelectRange, RS!Views, RS!TextIsOfSnapshot, RS!NoRun
<1>6. ASSUME NEW r \in RsRuns, RS!DeleteHistory(r) PROVE RS!PageInv'
  <2>1. /\ UNCHANGED v3 /\ v1' = RS!Without(r)
        /\ v2' = v2 \/ v2' = [RS!NothingShown EXCEPT !.descending = v2.descending]
    BY <1>6 DEF RS!DeleteHistory
  <2>2. v2' \in RS!Views /\ RS!TextIsOfSnapshot'
    BY <1>0, <2>1, HistoryNothingShown DEF RS!Views, RS!TextIsOfSnapshot
  <2> QED
    BY <1>0, <1>1, <2>1, <2>2, HistoryStored
<1>7. CASE RS!GenerateReport
  <2>1. /\ v2' = [v2 EXCEPT !.error = FALSE] /\ v2.run # "none"
        /\ v3' = [run |-> v2.run, outcome |-> "asked"] /\ UNCHANGED v1
    BY <1>7 DEF RS!GenerateReport, RS!NoRun
  <2> QED
    BY <1>0, <2>1 DEF RS!Views, RS!TextIsOfSnapshot, RS!PageInv, RS!TypeOK, RS!NoRun
<1>8. CASE RS!ReportWritten
  <2>0. v3.run \in RsRuns
    BY <1>0, <1>8 DEF RS!ReportWritten, RS!NoTask
  <2>1. v1' \in RS!Rows /\ v2' = v2
    BY <1>0, <1>8, <2>0, HistoryStored DEF RS!ReportWritten
  <2>2. /\ v3'.run = v3.run /\ v3.run \in RsRuns
        /\ v3' \in [run : RsRuns \cup {"none"}, outcome : {"none", "asked", "written", "failed"}]
    BY <1>0, <1>8 DEF RS!ReportWritten, RS!NoTask
  <2> QED
    BY <1>0, <2>1, <2>2 DEF RS!PageInv, RS!TypeOK, RS!TextIsOfSnapshot, RS!NoRun
<1>9. CASE RS!ReportReturns
  <2>1. v3' = RS!NoTask /\ v3 # RS!NoTask /\ UNCHANGED v1
    BY <1>9 DEF RS!ReportReturns, RS!ReportReturnsTo, RS!NoTask
  <2>2. \/ v2' = v2
        \/ v2' = [v2 EXCEPT !.error = TRUE]
        \/ v3.run = v2.run /\ v3.run \in DOMAIN v1 /\ v2' = RS!Snapshot(v2, v3.run)
    BY <1>9 DEF RS!ReportReturns, RS!ReportReturnsTo
  <2>3. v2' \in RS!Views /\ RS!TextIsOfSnapshot'
    <3>1. CASE v2' = v2
      BY <1>0, <3>1 DEF RS!TextIsOfSnapshot
    <3>2. CASE v2' = [v2 EXCEPT !.error = TRUE]
      BY <1>0, <3>2 DEF RS!Views, RS!TextIsOfSnapshot
    <3>3. CASE v3.run = v2.run /\ v3.run \in DOMAIN v1 /\ v2' = RS!Snapshot(v2, v3.run)
      BY <1>0, <2>1, <3>3, HistorySnapshot DEF RS!TextIsOfSnapshot
    <3> QED
      BY <2>2, <3>1, <3>2, <3>3
  <2> QED
    BY <1>0, <2>1, <2>3 DEF RS!PageInv, RS!TypeOK, RS!NoTask, RS!NoRun
<1> QED
  BY <1>2, <1>3, <1>4, <1>5, <1>6, <1>7, <1>8, <1>9 DEF RS!Next, RS!UpdateHistory

(* The report that returns leaves the page where it is.                     *)
LEMMA HistoryKeepsPlace == RS!PageInv /\ RS!Next => RS!ReportKeepsPlace
<1> SUFFICES ASSUME RS!PageInv, RS!Next, v3 # RS!NoTask, v3' = RS!NoTask
             PROVE  /\ v2'.run = v2.run /\ v2'.range = v2.range
                    /\ v3.run # v2.run => v2' = v2
  BY DEF RS!ReportKeepsPlace
<1>0. v1 \in RS!Rows /\ v2 \in RS!Views /\ v3.run \in RsRuns
  BY DEF RS!PageInv, RS!TypeOK
<1>1. RS!ReportReturns
  <2>1. ~RS!GenerateReport /\ v3' # v3
    BY DEF RS!GenerateReport
  <2>2. ~RS!ReportWritten
    <3>1. v3 \in [run : RsRuns \cup {"none"}, outcome : {"none", "asked", "written", "failed"}]
      BY DEF RS!PageInv, RS!TypeOK, RS!NoRun
    <3> QED
      BY <3>1 DEF RS!ReportWritten, RS!NoTask
  <2>3. ASSUME NEW r, RS!Saved(r) \/ RS!Evicted(r) \/ RS!SelectRun(r) \/ RS!UpdateHistory(r)
                      \/ RS!DeleteHistory(r)
        PROVE  FALSE
    BY <2>1, <2>3 DEF RS!Saved, RS!Evicted, RS!SelectRun, RS!UpdateHistory, RS!DeleteHistory
  <2>4. ~RS!ToggleStockSort /\ \A range \in Ranges : ~RS!SelectRange(range)
    BY <2>1 DEF RS!ToggleStockSort, RS!SelectRange
  <2> QED
    BY <2>1, <2>2, <2>3, <2>4 DEF RS!Next
<1>2. \/ v2' = v2
      \/ v3.run = v2.run /\ v2' = [v2 EXCEPT !.error = TRUE]
      \/ v3.run = v2.run /\ v3.run \in DOMAIN v1 /\ v2' = RS!Snapshot(v2, v3.run)
  BY <1>1 DEF RS!ReportReturns, RS!ReportReturnsTo
<1> QED
  BY <1>0, <1>2, HistorySnapshot DEF RS!Views

LEMMA HistoryStutter == RS!PageInv /\ UNCHANGED <<v1, v2, v3>> => RS!PageInv' /\ RS!ReportKeepsPlace
BY DEF RS!PageInv, RS!TypeOK, RS!TextIsOfSnapshot, RS!ReportKeepsPlace

-----------------------------------------------------------------------------
(* The master data page.                                                    *)
LEMMA ImportInit == MP!Init => MP!PageInv
BY PagesAssumption
   DEF MP!Init, MP!PageInv, MP!TypeOK, MP!ImportInv, MP!ImportRunning, MP!Imports, MP!Refreshes,
       MP!NoRefresh

LEMMA ImportStep == MP!PageInv /\ MP!Next => MP!PageInv'
<1> SUFFICES ASSUME MP!PageInv, MP!Next PROVE MP!PageInv'
  OBVIOUS
<1>0. /\ v1 \in MP!Imports /\ v2 \in {"none", "active", "committing", "canceled", "done"}
      /\ v3 \subseteq 1..MaxImports /\ v5 \subseteq Profiles /\ v6 \in MP!Refreshes /\ MP!ImportInv
      /\ v4 \in {"none", "progress", "success", "rejected", "nothing saved"}
  BY DEF MP!PageInv, MP!TypeOK
<1>1. CASE MP!ImportSecurities
  <2>0. v1.number \in 0..MaxImports /\ v1.number < MaxImports
    BY <1>0, <1>1 DEF MP!ImportSecurities, MP!Imports
  <2>1. v1.number + 1 \in 0..MaxImports /\ v1.number + 1 > 0
    BY <2>0, PagesAssumption
  <2>2. v1' \in MP!Imports /\ v1'.number > 0
    BY <1>0, <1>1, <2>1 DEF MP!ImportSecurities, MP!Imports
  <2> QED
    BY <1>0, <1>1, <2>2
       DEF MP!ImportSecurities, MP!RefreshSame, MP!PageInv, MP!TypeOK, MP!ImportInv, MP!Imports,
           MP!ImportRunning
<1>2. CASE MP!WorkerCommits \/ MP!SecurityImportWorker \/ MP!WorkerDies \/ MP!KillImportProcess
  BY <1>0, <1>2
     DEF MP!WorkerCommits, MP!SecurityImportWorker, MP!WorkerDies, MP!KillImportProcess,
         MP!RefreshSame, MP!PageInv, MP!TypeOK, MP!ImportInv, MP!Imports, MP!ImportRunning
<1>3. CASE MP!CancelImport
  <2>0. v1.number \in 0..MaxImports /\ v1.number > 0
    BY <1>0, <1>3 DEF MP!CancelImport, MP!ImportInv, MP!Imports
  <2>1. v1.number \in 1..MaxImports
    BY <2>0, PagesAssumption
  <2> QED
    BY <1>0, <1>3, <2>1
       DEF MP!CancelImport, MP!RefreshSame, MP!PageInv, MP!TypeOK, MP!ImportInv, MP!ImportRunning
<1>4. CASE MP!OnImportProcessFinished \/ MP!OnImportProcessError \/ MP!OnImportFinished
  BY <1>0, <1>4
     DEF MP!OnImportProcessFinished, MP!OnImportProcessError, MP!OnImportFinished, MP!Finish,
         MP!TryComplete, MP!RefreshSame, MP!PageInv, MP!TypeOK, MP!ImportInv, MP!Imports,
         MP!ImportRunning
<1>5. CASE MP!RefreshSecurities \/ MP!RefreshOne \/ MP!OnRefreshFinished \/ MP!DeleteSecurity
  <2>1. UNCHANGED <<v1, v2, v3, v4>>
    BY <1>5 DEF MP!RefreshSecurities, MP!RefreshOne, MP!OnRefreshFinished, MP!DeleteSecurity,
                MP!ImportSame
  <2>2. v5' \subseteq Profiles /\ v6' \in MP!Refreshes
    <3>1. CASE MP!RefreshSecurities
      BY <1>0, <3>1 DEF MP!RefreshSecurities, MP!Refreshes, MP!NoRefresh
    <3>2. CASE MP!RefreshOne
      <4>1. PICK s \in v6.todo :
               \/ v6' = [v6 EXCEPT !.state = "failed"]
               \/ v6' = [v6 EXCEPT !.todo = @ \ {s}, !.updated = @ \cup {s}]
        BY <3>2 DEF MP!RefreshOne
      <4>2. s \in Profiles /\ v5' = v5
        BY <1>0, <3>2 DEF MP!RefreshOne, MP!Refreshes
      <4>3. v6.todo \ {s} \in SUBSET Profiles /\ v6.updated \cup {s} \in SUBSET Profiles
        BY <1>0, <4>2 DEF MP!Refreshes
      <4> QED
        BY <1>0, <4>1, <4>2, <4>3 DEF MP!Refreshes
    <3>3. CASE MP!OnRefreshFinished \/ MP!DeleteSecurity
      BY <1>0, <3>3 DEF MP!OnRefreshFinished, MP!DeleteSecurity, MP!Refreshes
    <3> QED
      BY <1>5, <3>1, <3>2, <3>3
  <2> QED
    BY <1>0, <2>1, <2>2 DEF MP!PageInv, MP!TypeOK, MP!ImportInv, MP!ImportRunning
<1> QED
  BY <1>1, <1>2, <1>3, <1>4, <1>5 DEF MP!Next

LEMMA ImportStutter == MP!PageInv /\ UNCHANGED <<v1, v2, v3, v4, v5, v6>> => MP!PageInv'
BY DEF MP!PageInv, MP!TypeOK, MP!ImportInv, MP!ImportRunning

-----------------------------------------------------------------------------
(* The run of an analysis.  Pages runs an instance of AnalysisRun, and what *)
(* is proved of a run is proved in an instance of AnalysisRunProofs: they   *)
(* have the same definitions.                                               *)
ARP == INSTANCE AnalysisRunProofs WITH
        request <- v1, op <- v2, step <- v3, work <- v4, session <- v5, stored <- v6, told <- v7

LEMMA RunNextIsNext == AR!Next <=> ARP!Next
<1>1. AR!PrepareRun <=> ARP!PrepareRun
  BY DEF AR!PrepareRun, ARP!PrepareRun, AR!Evaluate, ARP!Evaluate, AR!Prepared, ARP!Prepared
<1>2. AR!Reserve <=> ARP!Reserve
  BY DEF AR!Reserve, ARP!Reserve
<1>3. AR!Cancel <=> ARP!Cancel
  BY DEF AR!Cancel, ARP!Cancel
<1>4. AR!Freeze <=> ARP!Freeze
  BY DEF AR!Freeze, ARP!Freeze, AR!Canceled, ARP!Canceled, AR!Proposes, ARP!Proposes, AR!Frozen, ARP!Frozen, AR!FreezeRs, ARP!FreezeRs, AR!FreezeTurning, ARP!FreezeTurning, AR!FreezeDeviation, ARP!FreezeDeviation
<1>5. AR!Fetch <=> ARP!Fetch
  BY DEF AR!Fetch, ARP!Fetch, AR!Width, ARP!Width, AR!Tallies, ARP!Tallies, AR!Proposes, ARP!Proposes, AR!HasQuant, ARP!HasQuant, AR!MayAsk, ARP!MayAsk, AR!AsksRs, ARP!AsksRs, AR!AsksTurning, ARP!AsksTurning, AR!AsksDeviation, ARP!AsksDeviation, AR!Asks, ARP!Asks
<1>6. AR!Decline <=> ARP!Decline
  BY DEF AR!Decline, ARP!Decline, AR!Proposes, ARP!Proposes
<1>7. AR!Accept <=> ARP!Accept
  BY DEF AR!Accept, ARP!Accept, AR!Restart, ARP!Restart, AR!Fresh, ARP!Fresh, AR!Nothing, ARP!Nothing, AR!Proposes, ARP!Proposes
<1>8. AR!Digest <=> ARP!Digest
  BY DEF AR!Digest, ARP!Digest, AR!Canceled, ARP!Canceled, AR!Nothing, ARP!Nothing, AR!Plus, ARP!Plus, AR!Taken, ARP!Taken, AR!Following, ARP!Following, AR!Proposes, ARP!Proposes, AR!DigestRs, ARP!DigestRs, AR!DigestIntervals, ARP!DigestIntervals
<1>9. AR!ComputeRs <=> ARP!ComputeRs
  BY DEF AR!ComputeRs, ARP!ComputeRs, AR!Canceled, ARP!Canceled, AR!Proposes, ARP!Proposes, AR!Loses, ARP!Loses
<1>10. AR!ComputeIntervals <=> ARP!ComputeIntervals
  BY DEF AR!ComputeIntervals, ARP!ComputeIntervals, AR!Proposes, ARP!Proposes, AR!Loses, ARP!Loses
<1>11. AR!Summarize <=> ARP!Summarize
  BY DEF AR!Summarize, ARP!Summarize, AR!Canceled, ARP!Canceled, AR!Proposes, ARP!Proposes, AR!Rated, ARP!Rated, AR!Tasks, ARP!Tasks, AR!Terminal, ARP!Terminal, AR!ShouldSave, ARP!ShouldSave, AR!SummarizeRs, ARP!SummarizeRs, AR!SummarizeTurning, ARP!SummarizeTurning, AR!SummarizeDeviation, ARP!SummarizeDeviation
<1>12. AR!EnterCommit <=> ARP!EnterCommit
  BY DEF AR!EnterCommit, ARP!EnterCommit, AR!Canceled, ARP!Canceled, AR!Proposes, ARP!Proposes
<1>13. AR!Save <=> ARP!Save
  BY DEF AR!Save, ARP!Save, AR!Proposes, ARP!Proposes, AR!Rated, ARP!Rated, AR!Tasks, ARP!Tasks, AR!Terminal, ARP!Terminal, AR!Saved, ARP!Saved, AR!ReadyStatus, ARP!ReadyStatus
<1>14. AR!SaveRs <=> ARP!SaveRs
  BY DEF AR!SaveRs, ARP!SaveRs, AR!Canceled, ARP!Canceled, AR!Proposes, ARP!Proposes, AR!Rated, ARP!Rated, AR!Tasks, ARP!Tasks, AR!Terminal, ARP!Terminal, AR!Saved, ARP!Saved, AR!ReadyStatus, ARP!ReadyStatus
<1>15. AR!HandlerRaises <=> ARP!HandlerRaises
  BY DEF AR!HandlerRaises, ARP!HandlerRaises, AR!Proposes, ARP!Proposes
<1>16. AR!Finish <=> ARP!Finish
  BY DEF AR!Finish, ARP!Finish, AR!Canceled, ARP!Canceled, AR!Statuses, ARP!Statuses
<1> QED
  BY <1>1, <1>2, <1>3, <1>4, <1>5, <1>6, <1>7, <1>8, <1>9, <1>10, <1>11, <1>12, <1>13, <1>14, <1>15, <1>16 DEF AR!Next, ARP!Next

LEMMA RunInitIsInit == AR!Init <=> ARP!Init
BY DEF AR!Init, ARP!Init, AR!Requests, ARP!Requests, AR!Kinds, ARP!Kinds, AR!Batches, ARP!Batches,
       AR!Fresh, ARP!Fresh, AR!Nothing, ARP!Nothing

LEMMA RunWordIsWord == AR!RunKeepsItsWord <=> ARP!RunKeepsItsWord
<1>1. AR!Planned = ARP!Planned
  BY DEF AR!Planned, ARP!Planned
<1>2. AR!StoredIsWhole <=> ARP!StoredIsWhole
  <2>1. ASSUME NEW S PROVE AR!Cardinality(S) = ARP!Cardinality(S)
    BY DEF AR!Cardinality, ARP!Cardinality
  <2> QED
    BY <1>1, <2>1 DEF AR!StoredIsWhole, ARP!StoredIsWhole
<1>3. AR!AskedOnce <=> ARP!AskedOnce
  BY DEF AR!AskedOnce, ARP!AskedOnce
<1>4. AR!ToldTheTruth <=> ARP!ToldTheTruth
  BY DEF AR!ToldTheTruth, ARP!ToldTheTruth
<1> QED
  BY <1>2, <1>3, <1>4 DEF AR!RunKeepsItsWord, ARP!RunKeepsItsWord

LEMMA RunTypeIsType == AR!TypeOK <=> ARP!TypeOK
BY DEF AR!TypeOK, ARP!TypeOK, AR!Requests, ARP!Requests, AR!Kinds, ARP!Kinds, AR!Batches, ARP!Batches,
       AR!Steps, ARP!Steps, AR!Statuses, ARP!Statuses, AR!Works, ARP!Works, AR!Market, ARP!Market,
       AR!Counts, ARP!Counts, AR!Sessions, ARP!Sessions, AR!Tasks, ARP!Tasks

LEMMA RunVarsAreVars == UNCHANGED rest <=> UNCHANGED ARP!vars
BY DEF rest, ARP!vars

-----------------------------------------------------------------------------
(* All parts side by side.                                                  *)
PagesInv ==
    /\ StoreInv
    /\ part = "turning point" => TP!PageInv
    /\ part = "extreme deviation" => ED!PageInv
    /\ part = "rs history" => RS!PageInv
    /\ part = "master data page" => MP!PageInv
    /\ part = "run" => ARP!IInv /\ ARP!AnswerInv

LEMMA PagesStart == PagesInit => PagesInv
<1> SUFFICES ASSUME PagesInit PROVE PagesInv
  OBVIOUS
<1>1. StoreInv
  BY StoreInit DEF PagesInit
<1>2. CASE part = "turning point"
  BY <1>1, <1>2, TurningInit DEF PagesInit, PagesInv
<1>3. CASE part = "extreme deviation"
  BY <1>1, <1>3, DeviationInit DEF PagesInit, PagesInv
<1>4. CASE part = "rs history"
  BY <1>1, <1>4, HistoryInit DEF PagesInit, PagesInv
<1>5. CASE part = "master data page"
  BY <1>1, <1>5, ImportInit DEF PagesInit, PagesInv
<1>6. CASE part = "run"
  <2>1. ARP!Init
    BY <1>6, RunInitIsInit DEF PagesInit
  <2>2. ARP!IInv /\ ARP!AnswerInv
    BY <2>1, ARP!RunInit, ARP!RunAnswerInit, PagesAssumption
  <2> QED
    BY <1>1, <1>6, <2>2 DEF PagesInv
<1>7. CASE part = "master data"
  BY <1>1, <1>7 DEF PagesInv
<1> QED
  BY <1>2, <1>3, <1>4, <1>5, <1>6, <1>7 DEF PagesInit

LEMMA PagesStep == PagesInv /\ [PagesNext]_allVars => PagesInv'
<1> SUFFICES ASSUME PagesInv, [PagesNext]_allVars PROVE PagesInv'
  OBVIOUS
<1>1. part' = part
  BY DEF PagesNext, allVars
<1>2. StoreInv'
  <2>1. [Next]_vars
    BY DEF PagesNext, allVars
  <2> QED
    BY <2>1, StoreStep DEF PagesInv
<1>3. CASE part = "turning point"
  <2>1. TP!Next \/ UNCHANGED <<v1, v2, v3, v4, v5, v6>>
    BY <1>3 DEF PagesNext, allVars, rest
  <2>2. TP!PageInv'
    BY <1>3, <2>1, TurningStep, TurningStutter DEF PagesInv
  <2> QED
    BY <1>1, <1>2, <1>3, <2>2 DEF PagesInv
<1>4. CASE part = "extreme deviation"
  <2>1. ED!Next \/ UNCHANGED <<v1, v2, v3, v4, v5, v6>>
    BY <1>4 DEF PagesNext, allVars, rest
  <2>2. ED!PageInv'
    BY <1>4, <2>1, DeviationStep, DeviationStutter DEF PagesInv
  <2> QED
    BY <1>1, <1>2, <1>4, <2>2 DEF PagesInv
<1>5. CASE part = "rs history"
  <2>1. RS!Next \/ UNCHANGED <<v1, v2, v3>>
    BY <1>5 DEF PagesNext, allVars, rest
  <2>2. RS!PageInv'
    BY <1>5, <2>1, HistoryStep, HistoryStutter DEF PagesInv
  <2> QED
    BY <1>1, <1>2, <1>5, <2>2 DEF PagesInv
<1>6. CASE part = "master data page"
  <2>1. MP!Next \/ UNCHANGED <<v1, v2, v3, v4, v5, v6>>
    BY <1>6 DEF PagesNext, allVars, rest
  <2>2. MP!PageInv'
    BY <1>6, <2>1, ImportStep, ImportStutter DEF PagesInv
  <2> QED
    BY <1>1, <1>2, <1>6, <2>2 DEF PagesInv
<1>7. CASE part = "run"
  <2>1. AR!Next \/ UNCHANGED rest
    BY <1>7 DEF PagesNext, allVars
  <2>2. [ARP!Next]_ARP!vars
    BY <2>1, RunNextIsNext, RunVarsAreVars
  <2>3. ARP!IInv /\ ARP!AnswerInv
    BY <1>7 DEF PagesInv
  <2>4. ARP!IInv'
    BY <2>2, <2>3, ARP!RunStep, PagesAssumption
  <2>5. ARP!AnswerInv'
    BY <2>2, <2>3, ARP!RunAnswerStep, PagesAssumption DEF ARP!IInv
  <2> QED
    BY <1>1, <1>2, <1>7, <2>4, <2>5 DEF PagesInv
<1>8. CASE part \notin {"turning point", "extreme deviation", "rs history", "master data page", "run"}
  BY <1>1, <1>2, <1>8 DEF PagesInv
<1> QED
  BY <1>3, <1>4, <1>5, <1>6, <1>7, <1>8

LEMMA PagesAlways == PagesSpec => []PagesInv
<1>1. PagesInit => PagesInv
  BY PagesStart
<1>2. PagesInv /\ [PagesNext]_allVars => PagesInv'
  BY PagesStep
<1> QED
  BY <1>1, <1>2, PTL DEF PagesSpec

(* Type correctness of the store, of the four pages and of a run.           *)
THEOREM PagesTypeCorrect == PagesSpec => []PagesTypeOK
<1>1. ASSUME PagesInv PROVE PagesTypeOK
  <2>1. part = "run" => AR!TypeOK
    BY <1>1, RunTypeIsType, ARP!RunTypes, PagesAssumption DEF PagesInv
  <2> QED
    BY <1>1, <2>1 DEF PagesInv, PagesTypeOK, StoreInv, TP!PageInv, ED!PageInv, RS!PageInv, MP!PageInv
<1> QED
  BY <1>1, PagesAlways, PTL

(* The results and the report a page shows are those of the run it shows,   *)
(* whatever was selected, deleted or started while they were read or        *)
(* written, and a report that returns late moves the RS history nowhere; on *)
(* the turning point page a run deleted while no older list was being read  *)
(* or applied is not listed again (turning_point_bridge.py,                 *)
(* extreme_deviation_bridge.py, rs_history_bridge.py).                      *)
THEOREM PageAlwaysShowsOneRun == PagesSpec => PageShowsOneRun
<1> DEFINE Shows == CASE part = "turning point" -> TP!ShownTogether /\ TP!DeletedStaysGone
                      [] part = "extreme deviation" -> ED!ShownTogether
                      [] part = "rs history" -> RS!TextIsOfSnapshot
                      [] OTHER -> TRUE
           Keeps == part = "rs history" => RS!ReportKeepsPlace
<1>1. PagesInv => Shows
  BY DEF PagesInv, TP!PageInv, ED!PageInv, RS!PageInv
<1>2. PagesInv /\ [PagesNext]_allVars => [Keeps]_allVars
  <2> SUFFICES ASSUME PagesInv, PagesNext, part = "rs history" PROVE RS!ReportKeepsPlace
    OBVIOUS
  <2>1. RS!PageInv /\ RS!Next
    BY DEF PagesInv, PagesNext
  <2> QED
    BY <2>1, HistoryKeepsPlace
<1> QED
  BY <1>1, <1>2, PagesAlways, PTL DEF PagesSpec, PageShowsOneRun

(* The turning point page is busy while its job goes on and, but for a      *)
(* process the registry refused and a task that told no end, only then, and *)
(* its question about the fallback does not outlive the job; a request of   *)
(* the deviation page uses a date the calendar confirmed; an import whose   *)
(* end the master data page told is over in the registry                    *)
(* (turning_point_bridge.py, extreme_deviation_bridge.py,                   *)
(* master_data_bridge.py).                                                  *)
THEOREM PageAlwaysFollowsItsJob == PagesSpec => []PageFollowsItsJob
<1>1. ASSUME PagesInv PROVE PageFollowsItsJob
  <2>1. part = "turning point" => TP!BusyWithJob /\ TP!OfferHasJob
    BY <1>1 DEF PagesInv, TP!PageInv, TP!JobInv, TP!BusyWithJob, TP!OfferHasJob
  <2>2. part = "extreme deviation" => ED!FormIsConfirmed
    BY <1>1 DEF PagesInv, ED!PageInv, ED!DatesInv, ED!FormIsConfirmed
  <2>3. part = "master data page" => MP!ImportEndsInRegistry
    BY <1>1 DEF PagesInv, MP!PageInv, MP!ImportInv, MP!ImportEndsInRegistry, MP!ImportRunning
  <2> QED
    BY <2>1, <2>2, <2>3 DEF PageFollowsItsJob
<1> QED
  BY <1>1, PagesAlways, PTL

(* A run in the history is whole, of one source and saved with enough       *)
(* results; the user is asked about the fallback once; and the caller is    *)
(* told what the history and the registry say (composition.py run and the   *)
(* three services).                                                         *)
THEOREM RunAlwaysKeepsItsWord == PagesSpec => []RunKeepsItsWord
<1>1. PagesInv => RunKeepsItsWord
  BY ARP!RunKeeps, RunWordIsWord DEF PagesInv, RunKeepsItsWord
<1> QED
  BY <1>1, PagesAlways, PTL
=============================================================================
