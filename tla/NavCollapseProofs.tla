-------------------------- MODULE NavCollapseProofs --------------------------
(***************************************************************************)
(* Proofs about NavCollapse for every number of navigation items, every    *)
(* navigation forest, every set of toggles and every set of links.         *)
(***************************************************************************)
EXTENDS NavCollapse, SequenceTheorems, WellFoundedInduction, TLAPS

(***************************************************************************)
(* The inductive invariant: the types, no list has received a change event *)
(* before the script attached its listeners, and the two properties.       *)
(***************************************************************************)
IInv ==
    /\ TypeOK
    /\ ~loaded => touched = {}
    /\ TouchedListsCollapsed

\* child.querySelector() on an item that has a toggle of its own returns
\* that toggle: its input comes before everything nested in its li.
LEMMA FirstToggleOwn ==
    ASSUME NEW c \in toggles,
           toggles \subseteq Items,
           anc \subseteq {p \in Items \X Items : p[1] < p[2]}
    PROVE  HasToggle(c) /\ FirstToggle(c) = c
<1> DEFINE S == Subtree(c) \cap toggles
<1>0. c \in Nat
    BY DEF Items
<1>1. c \in S
    BY DEF Subtree, S
<1>2. \A s \in S : c <= s
    <2> TAKE s \in S
    <2>1. s = c \/ <<c, s>> \in anc
        BY DEF Subtree, S
    <2>2. CASE s = c
        BY <1>0, <2>2
    <2>3. CASE <<c, s>> \in anc
        BY <2>3, <1>0 DEF Items
    <2>4. QED
        BY <2>1, <2>2, <2>3
<1>3. \A t \in S : (\A s \in S : t <= s) => t = c
    <2> TAKE t \in S
    <2>1. t \in Nat
        BY DEF S, Subtree, Items
    <2>2. QED
        BY <1>0, <1>1, <1>2, <2>1
<1>4. FirstToggle(c) = c
    BY <1>1, <1>2, <1>3 DEF FirstToggle, First, S
<1>5. QED
    BY <1>1, <1>4 DEF HasToggle, S

\* The listener unchecks every other toggle of the changed toggle's list.
LEMMA CollapsedSiblings ==
    ASSUME NEW t \in toggles, NEW c \in toggles,
           toggles \subseteq Items,
           anc \subseteq {p \in Items \X Items : p[1] < p[2]},
           ulOf[c] = ulOf[t], c # t
    PROVE  c \in Collapsed(t)
<1>1. HasToggle(c) /\ FirstToggle(c) = c
    BY FirstToggleOwn
<1>2. c \in Children(ulOf[t])
    BY DEF Children
<1>3. QED
    BY <1>1, <1>2 DEF Collapsed

LEMMA InitIInv == Init => IInv
<1> SUFFICES ASSUME Init PROVE IInv
    OBVIOUS
<1>1. IsForest(anc) /\ ulOf \in [Items -> Lists] /\ IsParent(anc, ulOf)
    BY DEF Init
<1>2. toggles \subseteq Items /\ checked \in [toggles -> BOOLEAN]
    <2>1. PICK page \in Lists : checked = [t \in toggles |-> page \in Subtree(t)]
        BY DEF Init
    <2>2. toggles \subseteq Items
        BY DEF Init
    <2>3. \A t \in toggles : (page \in Subtree(t)) \in BOOLEAN
        OBVIOUS
    <2>4. QED
        BY <2>1, <2>2, <2>3, Zenon
<1>3. href \in [Links -> Hrefs] /\ target \in [Links -> {"none", "_blank"}]
      /\ rel \in [Links -> {"none", "noopener"}]
    BY DEF Init
<1>4. search \in SearchParams /\ searchChecked \in BOOLEAN /\ loaded \in BOOLEAN
    BY DEF Init
<1>5. scripts \in Seq(ScriptRecs) /\ Len(scripts) <= MaxScripts
    <2>1. scripts = << >>
        BY DEF Init
    <2>2. QED
        BY <2>1, NavAssumption
<1>6. touched = {}
    BY DEF Init
<1>7. QED
    BY <1>1, <1>2, <1>3, <1>4, <1>5, <1>6
       DEF IInv, TypeOK, TouchedListsCollapsed, ScriptRecs

LEMMA NextIInv == IInv /\ [Next]_vars => IInv'
<1> SUFFICES ASSUME IInv, [Next]_vars PROVE IInv'
    OBVIOUS
<1> USE DEF IInv, TypeOK
<1>0. anc \subseteq {p \in Items \X Items : p[1] < p[2]}
    BY DEF IsForest
<1>1. ASSUME NEW t \in Items, ToggleEarly(t) PROVE IInv'
    <2>1. touched = {} /\ touched' = {}
        BY <1>1 DEF ToggleEarly
    <2>2. checked' \in [toggles' -> BOOLEAN]
        BY <1>1 DEF ToggleEarly
    <2>3. QED
        BY <1>1, <2>1, <2>2 DEF ToggleEarly, TouchedListsCollapsed
<1>2. CASE Load
    <2>1. target' \in [Links -> {"none", "_blank"}] /\ rel' \in [Links -> {"none", "noopener"}]
        BY <1>2 DEF Load, RewriteLinks
    <2>2. searchChecked' \in BOOLEAN
        BY <1>2 DEF Load, SearchToggle
    <2>3. QED
        BY <1>2, <2>1, <2>2 DEF Load, TouchedListsCollapsed, AtMostOneOpen, Children
<1>3. ASSUME NEW t \in Items, Change(t) PROVE IInv'
    <2>1. t \in toggles /\ loaded /\ loaded'
        BY <1>3 DEF Change
    <2>2. UNCHANGED <<anc, ulOf, toggles>> /\ touched' = touched \cup {ulOf[t]}
        BY <1>3 DEF Change
    <2>3. \A x \in toggles : checked'[x] = IF x \in Collapsed(t) THEN FALSE
                                           ELSE IF x = t THEN ~checked[t]
                                           ELSE checked[x]
        BY <1>3 DEF Change
    <2>4. checked' \in [toggles -> BOOLEAN]
        BY <1>3 DEF Change
    \* The changed toggle's list: every other toggle of it is unchecked.
    <2>5. AtMostOneOpen(ulOf[t])'
        <3> SUFFICES ASSUME NEW a \in Children(ulOf[t]) \cap toggles, NEW b \in Children(ulOf[t]) \cap toggles,
                            checked'[a], checked'[b]
                     PROVE  a = b
            BY <2>2 DEF AtMostOneOpen, Children
        <3>1. ASSUME NEW c \in Children(ulOf[t]) \cap toggles, c # t PROVE ~checked'[c]
            <4>1. c \in Collapsed(t)
                BY <3>1, <1>0, <2>1, CollapsedSiblings DEF Children
            <4>2. QED
                BY <4>1, <2>3, <3>1
        <3>2. QED
            BY <3>1
    \* Any other list: its toggles are unchanged or unchecked.
    <2>6. ASSUME NEW u \in touched, u # ulOf[t] PROVE AtMostOneOpen(u)'
        <3>1. \A c \in Children(u) \cap toggles : checked'[c] => checked[c]
            BY <2>3, <2>6 DEF Children, Collapsed
        <3>2. AtMostOneOpen(u)
            BY <2>6 DEF TouchedListsCollapsed
        <3>3. QED
            BY <2>2, <3>1, <3>2 DEF AtMostOneOpen, Children
    <2>7. TouchedListsCollapsed'
        BY <2>2, <2>5, <2>6 DEF TouchedListsCollapsed
    <2>8. ulOf[t] \in Lists
        BY DEF TypeOK
    <2>9. QED
        BY <1>3, <2>1, <2>2, <2>4, <2>7, <2>8 DEF Change
<1>4. ASSUME NEW g \in BOOLEAN, InjectScript(g) PROVE IInv'
    <2> DEFINE rec == [cb |-> g, state |-> "pending", called |-> FALSE]
    <2>1. rec \in ScriptRecs
        BY Zenon DEF ScriptRecs, ScriptStates
    <2>2. scripts' = Append(scripts, rec)
        BY <1>4 DEF InjectScript, rec
    <2>3. scripts' \in Seq(ScriptRecs) /\ Len(scripts') = Len(scripts) + 1
        BY <2>1, <2>2, AppendProperties
    <2>6. Len(scripts') <= MaxScripts
        <3>1. Len(scripts) < MaxScripts
            BY <1>4 DEF InjectScript
        <3>2. Len(scripts') = Len(scripts) + 1 /\ Len(scripts) \in Nat
            BY <2>3, LenProperties
        <3>3. QED
            BY <3>1, <3>2, NavAssumption
    <2>4. UNCHANGED <<anc, ulOf, toggles, checked, href, target, rel, search,
                      searchChecked, loaded, touched>>
        BY <1>4 DEF InjectScript
    <2>5. QED
        BY <2>3, <2>4, <2>6 DEF TouchedListsCollapsed, AtMostOneOpen, Children
<1>5. ASSUME NEW k \in 1..Len(scripts), ScriptLoad(k) \/ ScriptError(k) PROVE IInv'
    <2>1. scripts[k] \in ScriptRecs
        BY ElementOfSeq
    <2>2. CASE ScriptLoad(k)
        <3> DEFINE r == [scripts[k] EXCEPT !.state = "loaded", !.called = scripts[k].cb]
        <3>1. r \in ScriptRecs
            BY <2>1, Zenon DEF ScriptRecs, ScriptStates, r
        <3>2. scripts' = [scripts EXCEPT ![k] = r]
            BY <2>2, Zenon DEF ScriptLoad, r
        <3>3. scripts' \in Seq(ScriptRecs) /\ Len(scripts') = Len(scripts)
            BY <3>1, <3>2, ExceptSeq
        <3>4. QED
            BY <2>2, <3>3, <3>2 DEF ScriptLoad, TouchedListsCollapsed, AtMostOneOpen, Children
    <2>3. CASE ScriptError(k)
        <3> DEFINE r == [scripts[k] EXCEPT !.state = "failed"]
        <3>1. r \in ScriptRecs
            BY <2>1, Zenon DEF ScriptRecs, ScriptStates, r
        <3>2. scripts' = [scripts EXCEPT ![k] = r]
            BY <2>3, Zenon DEF ScriptError, r
        <3>3. scripts' \in Seq(ScriptRecs) /\ Len(scripts') = Len(scripts)
            BY <3>1, <3>2, ExceptSeq
        <3>4. QED
            BY <2>3, <3>3, <3>2 DEF ScriptError, TouchedListsCollapsed, AtMostOneOpen, Children
    <2>4. QED
        BY <1>5, <2>2, <2>3
<1>6. CASE UNCHANGED vars
    BY <1>6 DEF vars, TouchedListsCollapsed, AtMostOneOpen, Children
<1>7. QED
    <2>1. CASE \E t \in Items : ToggleEarly(t) \/ Change(t)
        BY <2>1, <1>1, <1>3
    <2>2. CASE \E g \in BOOLEAN : InjectScript(g)
        BY <2>2, <1>4
    <2>3. CASE \E k \in 1..Len(scripts) : ScriptLoad(k) \/ ScriptError(k)
        BY <2>3, <1>5
    <2>4. QED
        BY <1>2, <1>6, <2>1, <2>2, <2>3 DEF Next

(***************************************************************************)
(* Every reachable state of a page running extra.js is well typed, for     *)
(* every navigation forest, set of toggles and set of links.               *)
(***************************************************************************)
THEOREM NavTypeCorrect == Spec => []TypeOK
<1>1. Spec => []IInv
    BY InitIInv, NextIInv, PTL DEF Spec
<1>2. QED
    BY <1>1, PTL DEF IInv

(***************************************************************************)
(* For every page: once a navigation list has received a change event, the *)
(* listener of extra.js (getAllNavigationElements) keeps at most one of    *)
(* its items expanded, whatever toggles are clicked afterwards.            *)
(***************************************************************************)
THEOREM TouchedListsCollapsedThm == Spec => []TouchedListsCollapsed
<1>1. IInv => TouchedListsCollapsed
    BY DEF IInv
<1>2. QED
    BY <1>1, InitIInv, NextIInv, PTL DEF Spec

-----------------------------------------------------------------------------
(***************************************************************************)
(* The shape of the navigation: the first toggle below an item exists, and *)
(* two different items of one list are never nested in each other.        *)
(***************************************************************************)

\* A nonempty set of naturals has a least element (< is well founded).
LEMMA MinExists ==
    ASSUME NEW S \in SUBSET Nat, S # {}
    PROVE  \E m \in S : \A s \in S : m <= s
<1>1. \E x \in S : \A y \in S : ~(<<y, x>> \in OpToRel(<, Nat))
    BY NatLessThanWellFounded, WFMin
<1>2. PICK x \in S : \A y \in S : ~(<<y, x>> \in OpToRel(<, Nat))
    BY <1>1
<1>3. \A y \in S : ~(y < x)
    BY <1>2 DEF OpToRel
<1>4. QED
    BY <1>3

\* child.querySelector() finds a toggle at or below the item it searches.
LEMMA FirstToggleIn ==
    ASSUME NEW c \in Items, HasToggle(c), toggles \subseteq Items
    PROVE  FirstToggle(c) \in Subtree(c) \cap toggles
<1> DEFINE S == Subtree(c) \cap toggles
<1>1. S \in SUBSET Nat /\ S # {}
    BY DEF HasToggle, S, Subtree, Items
<1>2. \E m \in S : \A s \in S : m <= s
    BY <1>1, MinExists
<1>3. QED
    BY <1>2 DEF FirstToggle, First, S

\* An item of a list is never an ancestor of another item of the same list:
\* the list of the lower one is held by its nearest ancestor, which comes
\* after the upper one.
LEMMA NoNestedSiblings ==
    ASSUME IsForest(anc), ulOf \in [Items -> Lists], IsParent(anc, ulOf),
           NEW a \in Items, NEW b \in Items, <<a, b>> \in anc, ulOf[a] = ulOf[b]
    PROVE  FALSE
<1>1. <<ulOf[b], b>> \in anc /\ a <= ulOf[b]
    BY DEF IsParent
<1>2. ulOf[b] \in Items
    BY <1>1 DEF IsForest
<1>3. \E x \in Items : <<x, a>> \in anc
    \* Otherwise a's list would be the top-level one.
    <2>1. ulOf[a] # Root
        BY <1>2 DEF Items, Root
    <2>2. QED
        BY <2>1 DEF IsParent
<1>4. <<ulOf[a], a>> \in anc
    BY <1>3 DEF IsParent
<1>5. ulOf[a] < a
    BY <1>4 DEF IsForest
<1>6. QED
    BY <1>1, <1>2, <1>5 DEF Items

\* Two different items of one list have subtrees with nothing nested in
\* each other.
LEMMA SiblingsApart ==
    ASSUME IsForest(anc), ulOf \in [Items -> Lists], IsParent(anc, ulOf),
           NEW c1 \in Items, NEW c2 \in Items, c1 # c2, ulOf[c1] = ulOf[c2],
           NEW x1 \in Subtree(c1), NEW x2 \in Subtree(c2)
    PROVE  <<x1, x2>> \notin anc
<1> SUFFICES ASSUME <<x1, x2>> \in anc PROVE FALSE
    OBVIOUS
<1>0. anc \subseteq {p \in Items \X Items : p[1] < p[2]}
    BY DEF IsForest
<1>1. x2 \in Items /\ x1 \in Items
    BY <1>0
<1>2. c1 = x2 \/ <<c1, x2>> \in anc
    <2>1. c1 = x1 \/ <<c1, x1>> \in anc
        BY DEF Subtree
    <2>2. QED
        BY <2>1, <1>1 DEF IsForest
<1>3. c2 = x2 \/ <<c2, x2>> \in anc
    BY DEF Subtree
<1>4. <<c1, c2>> \in anc \/ <<c2, c1>> \in anc
    <2>1. CASE c1 = x2
        BY <2>1, <1>3
    <2>2. CASE c2 = x2
        BY <2>2, <1>2
    <2>3. CASE <<c1, x2>> \in anc /\ <<c2, x2>> \in anc
        <3>1. c1 < c2 \/ c2 < c1
            BY DEF Items
        <3>2. QED
            BY <2>3, <3>1, <1>1 DEF IsForest
    <2>4. QED
        BY <1>2, <1>3, <2>1, <2>2, <2>3
<1>5. QED
    BY <1>4, NoNestedSiblings

-----------------------------------------------------------------------------
\* The step predicate of ClicksKeepNesting.
KeepNesting ==
    \A a, d \in toggles :
       checked'[a] # checked[a] /\ checked'[d] # checked[d] => <<a, d>> \notin anc

\* Each toggle the listener unchecks is the first toggle below another item
\* of the clicked toggle's list.
LEMMA CollapsedOwner ==
    ASSUME TypeOK, NEW t \in toggles, NEW x \in Collapsed(t)
    PROVE  \E c \in Children(ulOf[t]) : c # t /\ x = FirstToggle(c) /\ x \in Subtree(c)
<1>0. anc \subseteq {p \in Items \X Items : p[1] < p[2]} /\ toggles \subseteq Items
    BY DEF TypeOK, IsForest
<1>1. PICK c \in Children(ulOf[t]) : HasToggle(c) /\ x = FirstToggle(c) /\ x # t
    BY DEF Collapsed
<1>2. c # t
    BY <1>0, <1>1, FirstToggleOwn
<1>3. x \in Subtree(c)
    BY <1>0, <1>1, FirstToggleIn DEF Children
<1>4. QED
    BY <1>1, <1>2, <1>3

\* A click after the script ran changes the clicked toggle and one toggle
\* below each other item of its list, and none of them is nested in another.
LEMMA ChangeKeepsNesting ==
    ASSUME TypeOK, NEW t \in Items, Change(t)
    PROVE  KeepNesting
<1> SUFFICES ASSUME NEW a \in toggles, NEW d \in toggles,
                    checked'[a] # checked[a], checked'[d] # checked[d],
                    <<a, d>> \in anc
             PROVE  FALSE
    BY DEF KeepNesting
<1>0. IsForest(anc) /\ ulOf \in [Items -> Lists] /\ IsParent(anc, ulOf)
      /\ toggles \subseteq Items /\ t \in toggles
    BY DEF TypeOK, Change
<1>1. \A x \in toggles : checked'[x] # checked[x] => x = t \/ x \in Collapsed(t)
    BY DEF Change
<1>2. t \in Subtree(t)
    BY DEF Subtree
<1>3. a # d
    <2>1. anc \subseteq {p \in Items \X Items : p[1] < p[2]}
        BY <1>0 DEF IsForest
    <2>2. QED
        BY <2>1 DEF Items
<1>4. CASE a = t /\ d = t
    BY <1>3, <1>4
<1>5. CASE a = t /\ d \in Collapsed(t)
    <2>1. PICK c \in Children(ulOf[t]) : c # t /\ d \in Subtree(c)
        BY <1>0, <1>5, CollapsedOwner
    <2>2. QED
        BY <1>0, <1>2, <1>5, <2>1, SiblingsApart DEF Children
<1>6. CASE a \in Collapsed(t) /\ d = t
    <2>1. PICK c \in Children(ulOf[t]) : c # t /\ a \in Subtree(c)
        BY <1>0, <1>6, CollapsedOwner
    <2>2. QED
        BY <1>0, <1>2, <1>6, <2>1, SiblingsApart DEF Children
<1>7. CASE a \in Collapsed(t) /\ d \in Collapsed(t)
    <2>1. PICK ca \in Children(ulOf[t]) : ca # t /\ a = FirstToggle(ca) /\ a \in Subtree(ca)
        BY <1>0, <1>7, CollapsedOwner
    <2>2. PICK cd \in Children(ulOf[t]) : cd # t /\ d = FirstToggle(cd) /\ d \in Subtree(cd)
        BY <1>0, <1>7, CollapsedOwner
    <2>3. ca # cd
        BY <1>3, <2>1, <2>2
    <2>4. QED
        BY <1>0, <2>1, <2>2, <2>3, SiblingsApart DEF Children
<1>8. QED
    BY <1>1, <1>4, <1>5, <1>6, <1>7

LEMMA NextKeepsNesting == IInv /\ [Next]_vars => [KeepNesting]_vars
<1> SUFFICES ASSUME IInv, [Next]_vars PROVE [KeepNesting]_vars
    OBVIOUS
<1>1. ASSUME NEW t \in Items, ToggleEarly(t) PROVE KeepNesting
    <2>1. \A x \in toggles : checked'[x] # checked[x] => x = t
        BY <1>1 DEF ToggleEarly
    <2>2. <<t, t>> \notin anc
        <3>1. anc \subseteq {p \in Items \X Items : p[1] < p[2]}
            BY DEF IInv, TypeOK, IsForest
        <3>2. QED
            BY <3>1 DEF Items
    <2>3. QED
        BY <2>1, <2>2 DEF KeepNesting
<1>2. ASSUME NEW t \in Items, Change(t) PROVE KeepNesting
    BY <1>2, ChangeKeepsNesting DEF IInv
<1>3. CASE Load \/ (\E g \in BOOLEAN : InjectScript(g))
           \/ (\E k \in 1..Len(scripts) : ScriptLoad(k) \/ ScriptError(k))
    <2>1. checked' = checked
        BY <1>3 DEF Load, InjectScript, ScriptLoad, ScriptError
    <2>2. QED
        BY <2>1 DEF KeepNesting
<1>4. CASE UNCHANGED vars
    BY <1>4
<1>5. QED
    BY <1>1, <1>2, <1>3, <1>4 DEF Next

(***************************************************************************)
(* For every navigation forest and set of toggles: no step of the page     *)
(* expands or collapses both a section and a section nested in it.  The    *)
(* change listener of extra.js flips the clicked toggle and unchecks the   *)
(* first toggle below each other item of its list, and those items'        *)
(* subtrees are apart from each other and from the clicked one.            *)
(***************************************************************************)
THEOREM ClicksKeepNestingThm == Spec => ClicksKeepNesting
<1>1. Spec => []IInv
    BY InitIInv, NextIInv, PTL DEF Spec
<1>2. QED
    BY <1>1, NextKeepsNesting, PTL DEF Spec, ClicksKeepNesting, KeepNesting

=============================================================================
