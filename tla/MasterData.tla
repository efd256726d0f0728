----------------------------- MODULE MasterData -----------------------------
(***************************************************************************)
(* Labels, securities and stock pools                                       *)
(* (infrastructure/persistence/master_data_store.py): each operation of the *)
(* store is one immediate transaction.  An import and an AI reanalysis read *)
(* the labels, ask a model for minutes, and write what they resolved then.  *)
(*                                                                          *)
(* A binding is the pair of a security and a label, so repointing a binding *)
(* and moving the memberships that use it come to the same.  The schema's   *)
(* foreign keys are left out: MembersAreBound says that no operation counts *)
(* on them.  A pool's revision is read and checked inside one immediate     *)
(* transaction, where it cannot have moved.  A row stored again is another  *)
(* row: its identifier carries a number.                                    *)
(***************************************************************************)
EXTENDS Naturals, FiniteSets

CONSTANTS Names,      \* names and aliases of labels, case folded
          Symbols, Lists,
          MaxRows,    \* rows ever stored under one name or symbol
          MaxBound,   \* labels of one security: 3 in the code
          MaxMembers  \* members of one pool: 600 in the code

(* A row is told apart by its name or symbol and a number; no label has an  *)
(* empty name (create_classification, rename_classification).               *)
ASSUME MasterDataAssumption ==
    /\ IsFiniteSet(Names) /\ "" \notin Names /\ Names \cap Symbols = {}
    /\ MaxRows \in Nat /\ MaxBound \in Nat

VARIABLES
    classes,    \* label -> its name and aliases
    securities, \* the stored securities
    labels,     \* pairs of a security and a label bound to it
    lists,      \* pool -> the label each member takes part under
    issued,     \* rows stored so far under each name and symbol
    import,     \* the import under way
    reanalysis  \* the AI answer under way about one security

tables == <<classes, securities, labels, lists, issued>>
vars == <<classes, securities, labels, lists, issued, import, reanalysis>>

ClassIds == Names \X (1..MaxRows)
SecurityIds == Symbols \X (1..MaxRows)
NewId(n) == <<n, issued[n] + 1>>
Empty == [x \in {} |-> 0]
NoImport == [state |-> "none", batch |-> Empty]
NoReanalysis == [of |-> {}, proposals |-> {}]

Init ==
    /\ classes = Empty /\ securities = {} /\ labels = {} /\ lists = Empty
    /\ issued = [n \in Names \cup Symbols |-> 0]
    /\ import = NoImport /\ reanalysis = NoReanalysis

Without(f, x) == [y \in DOMAIN f \ {x} |-> f[y]]
With(f, x, v) == [y \in DOMAIN f \cup {x} |-> IF y = x THEN v ELSE f[y]]
LabelsOf(s) == {c \in DOMAIN classes : <<s, c>> \in labels}
Called(n) == {c \in DOMAIN classes : classes[c].name = n}
Known(n) == Called(n) \cup {c \in DOMAIN classes : n \in classes[c].aliases}
Stored(symbol) == \E s \in securities : s[1] = symbol
MaySpend(n) == issued[n] < MaxRows

Background == UNCHANGED <<import, reanalysis>>

-----------------------------------------------------------------------------
(* Labels.  A name is compared with names only, an alias with both.         *)

CreateClassification(n) ==
    /\ Called(n) = {} /\ MaySpend(n)
    /\ classes' = With(classes, NewId(n), [name |-> n, aliases |-> {}])
    /\ issued' = [issued EXCEPT ![n] = @ + 1]
    /\ UNCHANGED <<securities, labels, lists>> /\ Background

RenameClassification(c, n) ==
    /\ c \in DOMAIN classes /\ Called(n) \subseteq {c}
    /\ classes' = [classes EXCEPT ![c].name = n]
    /\ UNCHANGED <<securities, labels, lists, issued>> /\ Background

SetClassificationAliases(c, aliases) ==
    /\ c \in DOMAIN classes
    /\ \A n \in aliases : n # classes[c].name /\ Known(n) \subseteq {c}
    /\ classes' = [classes EXCEPT ![c].aliases = aliases]
    /\ UNCHANGED <<securities, labels, lists, issued>> /\ Background

DeleteClassification(c) ==
    /\ c \in DOMAIN classes /\ \A s \in securities : <<s, c>> \notin labels
    /\ classes' = Without(classes, c)
    /\ UNCHANGED <<securities, labels, lists, issued>> /\ Background

(* Members of every pool that take part under one of `old' move to `new'.   *)
Moved(members, s, old, new) ==
    [m \in DOMAIN members |-> IF m = s /\ members[m] \in old THEN new ELSE members[m]]

MergeClassification(c, d) ==
    /\ {c, d} \subseteq DOMAIN classes /\ c # d
    /\ labels' = {IF b[2] = c THEN <<b[1], d>> ELSE b : b \in labels}
    /\ lists' = [w \in DOMAIN lists |->
                    [m \in DOMAIN lists[w] |-> IF lists[w][m] = c THEN d ELSE lists[w][m]]]
    /\ classes' = Without(classes, c)
    /\ UNCHANGED <<securities, issued>> /\ Background

-----------------------------------------------------------------------------
(* Securities.                                                              *)

DeleteSecurity(s) ==
    /\ s \in securities
    /\ securities' = securities \ {s}
    /\ labels' = {b \in labels : b[1] # s}
    /\ lists' = [w \in DOMAIN lists |-> Without(lists[w], s)]
    /\ UNCHANGED <<classes, issued>> /\ Background

FaultySetSecurityClassifications(s, wanted) ==
    /\ s \in securities
    /\ wanted \subseteq DOMAIN classes /\ Cardinality(wanted) <= MaxBound
    /\ labels' = {b \in labels : b[1] # s} \cup {<<s, c>> : c \in wanted}
    /\ lists' = [w \in DOMAIN lists |->
                    IF s \in DOMAIN lists[w] /\ lists[w][s] \notin wanted
                    THEN Without(lists[w], s) ELSE lists[w]]
    /\ UNCHANGED <<classes, securities, issued>> /\ Background

(* The memberships of the removed labels move to the first wanted one the   *)
(* security had; if it had none of them, its first old binding lives on     *)
(* under the first wanted label; with no label left they are deleted.       *)
SetSecurityClassifications(s, wanted) ==
    LET old == LabelsOf(s)
        heirs == IF wanted \cap old # {} THEN wanted \cap old ELSE wanted
    IN  /\ s \in securities
        /\ wanted \subseteq DOMAIN classes /\ Cardinality(wanted) <= MaxBound
        /\ labels' = {b \in labels : b[1] # s} \cup {<<s, c>> : c \in wanted}
        /\ IF wanted = {}
           THEN lists' = [w \in DOMAIN lists |-> Without(lists[w], s)]
           ELSE \E heir \in heirs :
                   lists' = [w \in DOMAIN lists |-> Moved(lists[w], s, old \ wanted, heir)]
        /\ UNCHANGED <<classes, securities, issued>> /\ Background

-----------------------------------------------------------------------------
(* Stock pools.                                                             *)

Lists_(change) == lists' = change /\ UNCHANGED <<classes, securities, labels, issued>> /\ Background

CreateWatchlist(w) == w \notin DOMAIN lists /\ Lists_(With(lists, w, Empty))

DeleteWatchlist(w) == w \in DOMAIN lists /\ Lists_(Without(lists, w))

(* add_watchlist_members: members the pool already has stay as they are.    *)
AddWatchlistMembers(w, chosen) ==
    /\ w \in DOMAIN lists
    /\ \A s \in DOMAIN chosen \ DOMAIN lists[w] : <<s, chosen[s]>> \in labels
    /\ Cardinality(DOMAIN chosen \cup DOMAIN lists[w]) <= MaxMembers
    /\ LET members == lists[w]
       IN  Lists_([lists EXCEPT ![w] =
                      [s \in DOMAIN chosen \cup DOMAIN members |->
                          IF s \in DOMAIN members THEN members[s] ELSE chosen[s]]])

RemoveWatchlistMembers(w, gone) ==
    /\ w \in DOMAIN lists /\ gone \cap DOMAIN lists[w] # {}
    /\ LET members == lists[w]
       IN  Lists_([lists EXCEPT ![w] = [s \in DOMAIN members \ gone |-> members[s]]])

SetWatchlistMemberBinding(w, s, c) ==
    /\ w \in DOMAIN lists /\ s \in DOMAIN lists[w] /\ <<s, c>> \in labels
    /\ Lists_([lists EXCEPT ![w] = With(@, s, c)])

-----------------------------------------------------------------------------
(* What a proposed name is resolved to, by the labels of that moment: its   *)
(* label, and the name the batch looks it up under at the commit.  The AI   *)
(* adapter resolves names and aliases to the label, whose own name is used; *)
(* the provider's sector names are looked up there without the aliases, and *)
(* then by ImportService with them, keeping the proposed name.              *)
Resolved(n) ==
    IF Known(n) = {}
    THEN {[id |-> NewId(n), name |-> n, was |-> ""]}
    ELSE {[id |-> c, name |-> classes[c].name, was |-> classes[c].name] : c \in Known(n)}
         \cup {[id |-> c, name |-> n, was |-> classes[c].name] : c \in Known(n)}

Proposals ==
    UNION {{p \in SUBSET UNION {Resolved(n) : n \in N} :
               Cardinality(p) = Cardinality(N) /\ Cardinality({l.name : l \in p}) = Cardinality(p)} :
           N \in {M \in SUBSET Names : Cardinality(M) <= MaxBound
                                        /\ \A n \in M : Known(n) # {} \/ MaySpend(n)}}

IsNew(l) == l.was = ""

(* existing_symbols, the profiles, the labels and the answers about them,   *)
(* with the identifiers drawn for new labels.                               *)
ImportReads ==
    /\ import.state = "none"
    /\ \E S \in SUBSET {s \in Symbols : ~Stored(s) /\ MaySpend(s)} :
          /\ S # {}
          /\ \E batch \in [S -> Proposals] :
                /\ import' = [state |-> "asking", batch |-> batch]
                /\ issued' = [n \in DOMAIN issued |->
                                 IF \E s \in S : \E l \in batch[s] : IsNew(l) /\ l.name = n
                                 THEN issued[n] + 1 ELSE issued[n]]
    /\ UNCHANGED <<classes, securities, labels, lists, reanalysis>>

BatchLabels == UNION {import.batch[s] : s \in DOMAIN import.batch}

FaultyFits(l) == Called(l.name) = {} => l.id \notin DOMAIN classes

(* commit_batch: a name nobody has is added under the batch's identifier; a *)
(* name that another identifier has, or an identifier that has another      *)
(* name, fails the whole batch, and so does one label twice on a security.  *)
Fits(l) == IF Called(l.name) = {} THEN l.id \notin DOMAIN classes ELSE Called(l.name) = {l.id}
(* One record for each identifier: the first the batch has for it.          *)
Records ==
    LET ids == {l.id : l \in BatchLabels}
    IN  {R \in SUBSET BatchLabels : Cardinality(R) = Cardinality(ids) /\ {l.id : l \in R} = ids}

BatchFits(R) ==
    /\ \A l \in R : Fits(l)
    /\ \A s \in DOMAIN import.batch :
          ~Stored(s) => \A k, l \in import.batch[s] : k.id = l.id => k = l

(* A symbol that was stored meanwhile is skipped with its labels' bindings, *)
(* the labels of the batch are added all the same.                          *)
ImportCommits ==
    /\ import.state = "asking"
    /\ \A s \in DOMAIN import.batch : Stored(s) \/ MaySpend(s)
    /\ \E R \in Records :
          LET inserted == {s \in DOMAIN import.batch : ~Stored(s)}
              added == {l \in R : Called(l.name) = {}}
          IN  /\ BatchFits(R)
              /\ securities' = securities \cup {NewId(s) : s \in inserted}
              /\ labels' = labels \cup UNION {{<<NewId(s), l.id>> : l \in import.batch[s]} : s \in inserted}
              /\ classes' = [c \in DOMAIN classes \cup {l.id : l \in added} |->
                                IF c \in DOMAIN classes THEN classes[c]
                                ELSE [name |-> (CHOOSE l \in added : l.id = c).name, aliases |-> {}]]
              /\ issued' = [n \in DOMAIN issued |-> IF n \in inserted THEN issued[n] + 1 ELSE issued[n]]
    /\ import' = [import EXCEPT !.state = "committed"]
    /\ UNCHANGED <<lists, reanalysis>>

ImportFails ==
    /\ import.state = "asking" /\ \E R \in Records : ~BatchFits(R)
    /\ import' = [import EXCEPT !.state = "failed"]
    /\ UNCHANGED <<tables, reanalysis>>

(* A worker of another import commits a symbol beside this one: a canceled  *)
(* import's that is not killed yet, or another instance's of the            *)
(* application.  (Its reads, and an import alone, are ImportReads.)         *)
OtherImportCommits(s, bound) ==
    /\ import.state = "asking" /\ ~Stored(s) /\ MaySpend(s)
    /\ bound \subseteq DOMAIN classes /\ Cardinality(bound) <= MaxBound
    /\ securities' = securities \cup {NewId(s)}
    /\ labels' = labels \cup {<<NewId(s), c>> : c \in bound}
    /\ issued' = [issued EXCEPT ![s] = @ + 1]
    /\ UNCHANGED <<classes, lists>> /\ Background

(* Canceled in the registry before the commit, killed, or done.             *)
ImportEnds ==
    /\ import.state # "none"
    /\ import' = NoImport
    /\ UNCHANGED <<tables, reanalysis>>

-----------------------------------------------------------------------------
(* reanalyze_security reads the labels, asks, and adds what fits in the free*)
(* slots; an identifier that is gone is looked up by its name.              *)

ReanalysisReads(s) ==
    /\ s \in securities /\ reanalysis = NoReanalysis
    /\ \E p \in Proposals : 
             reanalysis' = [of |-> {s}, proposals |->
                               {[id |-> IF IsNew(l) THEN <<>> ELSE l.id, name |-> l.name] : l \in p}]
    /\ UNCHANGED <<tables, import>>

Target(l) ==
    IF l.id \in DOMAIN classes THEN {l.id}
    ELSE IF Known(l.name) # {} THEN Known(l.name) ELSE {NewId(l.name)}

FreeSlots(s) == MaxBound - Cardinality(LabelsOf(s))

(* The answers are looked at in their order until the free slots are full.  *)
AddAnswers(s, looked, target) ==
    LET new == {target[l] : l \in looked} \ LabelsOf(s)
        created == {l \in looked : target[l] \notin DOMAIN classes}
    IN  /\ s \in securities
        /\ \A l \in looked : target[l] \in Target(l)
        /\ \A l \in created : MaySpend(l.name)
        /\ new # {} /\ Cardinality(new) <= FreeSlots(s)
        /\ looked = reanalysis.proposals \/ Cardinality(new) = FreeSlots(s)
        /\ labels' = labels \cup {<<s, c>> : c \in new}
        /\ classes' = [c \in DOMAIN classes \cup new |->
                          IF c \in DOMAIN classes THEN classes[c]
                          ELSE [name |-> (CHOOSE l \in created : target[l] = c).name, aliases |-> {}]]
        /\ issued' = [n \in DOMAIN issued |->
                         IF \E l \in created : l.name = n THEN issued[n] + 1 ELSE issued[n]]

AddAiClassifications ==
    /\ \E s \in reanalysis.of, looked \in SUBSET reanalysis.proposals :
          \E target \in [looked -> UNION {Target(l) : l \in looked}] : AddAnswers(s, looked, target)
    /\ reanalysis' = NoReanalysis
    /\ UNCHANGED <<securities, lists, import>>

(* No answer, nothing to add, no free slot, or no such security any more.   *)
ReanalysisEnds ==
    /\ reanalysis # NoReanalysis
    /\ reanalysis' = NoReanalysis
    /\ UNCHANGED <<tables, import>>

-----------------------------------------------------------------------------
Next ==
    \/ \E n \in Names : CreateClassification(n) \/ \E c \in ClassIds : RenameClassification(c, n)
    \/ \E c \in ClassIds :
          \/ DeleteClassification(c)
          \/ \E aliases \in {{}} \cup {{n} : n \in Names} : SetClassificationAliases(c, aliases)
          \/ \E d \in ClassIds : MergeClassification(c, d)
    \/ \E s \in SecurityIds :
          \/ DeleteSecurity(s) \/ ReanalysisReads(s)
          \/ \E wanted \in SUBSET ClassIds : SetSecurityClassifications(s, wanted)
    \/ \E w \in Lists :
          \/ CreateWatchlist(w) \/ DeleteWatchlist(w)
          \/ \E s \in SecurityIds, c \in ClassIds :
                \/ AddWatchlistMembers(w, [m \in {s} |-> c])
                \/ SetWatchlistMemberBinding(w, s, c)
                \/ RemoveWatchlistMembers(w, {s})
    \/ \E s \in Symbols, bound \in {{}} \cup {{c} : c \in ClassIds} : OtherImportCommits(s, bound)
    \/ ImportReads \/ ImportCommits \/ ImportFails \/ ImportEnds
    \/ AddAiClassifications \/ ReanalysisEnds

Spec == Init /\ [][Next]_vars

-----------------------------------------------------------------------------
TypeOK ==
    /\ DOMAIN classes \subseteq ClassIds
    /\ \A c \in DOMAIN classes : classes[c] \in [name : Names, aliases : SUBSET Names]
    /\ securities \subseteq SecurityIds
    /\ \A s \in securities : Cardinality(LabelsOf(s)) <= MaxBound
    /\ DOMAIN lists \subseteq Lists
    /\ issued \in [Names \cup Symbols -> 0..MaxRows]
    /\ import.state \in {"none", "asking", "committed", "failed"}
    /\ reanalysis.of \subseteq SecurityIds

(* Every member of a pool takes part under a label bound to it, and every   *)
(* bound label and its security exist: what the page and every analysis     *)
(* assume when they read a pool (_watchlist_dto raises otherwise).          *)
MembersAreBound ==
    /\ \A b \in labels : b[1] \in securities /\ b[2] \in DOMAIN classes
    /\ \A w \in DOMAIN lists : \A s \in DOMAIN lists[w] : <<s, lists[w][s]>> \in labels

(* Relabeling or merging never takes a security that keeps a label out of a *)
(* pool.                                                                    *)
RelabelingKeepsMembers ==
    \A w \in DOMAIN lists : \A s \in DOMAIN lists[w] :
       labels' # labels /\ s \in securities' /\ (\E c \in DOMAIN classes' : <<s, c>> \in labels')
          => w \in DOMAIN lists' /\ s \in DOMAIN lists'[w]

(* A committed import binds each new security to labels that are called, in *)
(* the database of that moment, what the analysis resolved, whatever was    *)
(* renamed, merged, deleted or created while it asked.                      *)
ImportBindsWhatItResolved ==
    import.state = "asking" /\ import'.state = "committed"
      => \A l \in BatchLabels : /\ l.id \in DOMAIN classes'
                                /\ \E k \in BatchLabels : k.id = l.id /\ k.name = classes'[l.id].name

(* Relabeling takes no security that keeps a label out of a pool, and an    *)
(* import binds what it resolved, whatever changed while it asked           *)
(* (master_data_store.py).                                                  *)
WritesKeepMeaning == [][RelabelingKeepsMembers /\ ImportBindsWhatItResolved]_vars

-----------------------------------------------------------------------------
(* What does not hold.                                                      *)

(* A batch fails only if a label it resolved has changed since: with an AI  *)
(* that does not answer, an eligible stock is stored under the provider's   *)
(* sector (ARCHITECTURE.md:228).                                            *)
Stale(l) ==
    IF IsNew(l) THEN Known(l.name) # {}
    ELSE l.id \notin DOMAIN classes \/ classes[l.id].name # l.was

FallbackIsStored ==
    [][import.state = "asking" /\ import'.state = "failed" => \E l \in BatchLabels : Stale(l)]_vars

(* No name is another label's alias.                                        *)
AliasesAreDistinct == \A c \in DOMAIN classes : Known(classes[c].name) = {c}

(* An import stores what it resolved of every symbol it was about (and      *)
(* reports as imported): not of one stored meanwhile.                       *)
ImportStoresAll ==
    [][import.state = "asking" /\ import'.state = "committed"
         => \A s \in DOMAIN import.batch : NewId(s) \in securities']_vars
=============================================================================
