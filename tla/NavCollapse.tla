----------------------------- MODULE NavCollapse -----------------------------
(***************************************************************************)
(* The documentation site's src/stylesheets-docs/extra.js, loaded at the   *)
(* end of a rendered page.  Its top level runs once: it gives external     *)
(* links target=_blank and rel=noopener, takes a static list of the        *)
(* navigation toggles (the .md-nav__toggle checkboxes) and gives each a    *)
(* change listener, and checks the search toggle when the URL carries a    *)
(* search parameter.  It also defines injectScript() for other page code.  *)
(*                                                                         *)
(* The navigation is a forest of list items (li), numbered 1..N in         *)
(* document order.  An item's toggle is the first element of its li, so    *)
(* item numbers also give the document order of the toggles.  A toggle is  *)
(* named by its item.  The ul that holds an item is named by the item      *)
(* whose nested nav contains it, or Root for the top-level list.  The user *)
(* may flip any toggle (a click on its label) before and after the script  *)
(* ran; setting .checked from script fires no change event.                *)
(***************************************************************************)
EXTENDS Naturals, Sequences, FiniteSets

CONSTANTS
    N,            \* number of navigation items on the page
    Links,        \* the page's links (document.links)
    MaxScripts    \* bound on injectScript() calls

ASSUME NavAssumption ==
    /\ N \in Nat
    /\ MaxScripts \in Nat

Items == 1..N
Root == 0
Lists == {Root} \cup Items

(***************************************************************************)
(* The ancestor relations of a forest whose preorder is 1..N: an ancestor  *)
(* comes first, the ancestors of an item form a chain, and an item's       *)
(* subtree is a contiguous range.                                          *)
(***************************************************************************)
IsForest(r) ==
    /\ r \subseteq {p \in Items \X Items : p[1] < p[2]}
    /\ \A a, b, d \in Items :
          /\ <<a, b>> \in r /\ <<b, d>> \in r => <<a, d>> \in r
          /\ <<a, d>> \in r /\ <<b, d>> \in r /\ a < b => <<a, b>> \in r
    /\ \A a, x, d \in Items :
          <<a, d>> \in r /\ a < x /\ x < d => <<a, x>> \in r

\* element.parentElement.parentElement: p[d] is the ul holding item d, the
\* nearest ancestor item, or Root when d has none.
IsParent(r, p) ==
    \A d \in Items :
       IF \E a \in Items : <<a, d>> \in r
       THEN /\ <<p[d], d>> \in r
            /\ \A b \in Items : <<b, d>> \in r => b <= p[d]
       ELSE p[d] = Root

\* A link's href, abstracted to how it relates to the page's location.
Hrefs == {"samePage", "otherPort", "otherHost", "mailto"}

\* The hostname property of a link: empty for mailto:, the page's own
\* hostname for a same-origin link and for another port of the same host.
PageHost == "docs"
Hostname(h) ==
    CASE h \in {"samePage", "otherPort"} -> PageHost
      [] h = "otherHost"                 -> "elsewhere"
      [] h = "mailto"                    -> "noHost"

\* window.location.search: no search parameter, ?search= or ?search=text.
SearchParams == {"absent", "empty", "text"}

ScriptStates == {"pending", "loaded", "failed"}

\* A script element: whether onload runs a callback, its load state, and
\* whether the callback ran.
ScriptRecs == [cb : BOOLEAN, state : ScriptStates, called : BOOLEAN]

VARIABLES
    anc,            \* the page's navigation forest: <<ancestor, item>>
    ulOf,           \* the list holding each item
    toggles,        \* the items whose li has a .md-nav__toggle
    checked,        \* checked property of each toggle
    href,           \* each link's href
    target, rel,    \* each link's target and rel attributes ("none": unset)
    search,         \* the URL's search parameter
    searchChecked,  \* checked property of the #__search toggle
    loaded,         \* extra.js has run
    scripts,        \* the script elements injectScript() appended
    touched         \* history: lists that received a change event

vars == <<anc, ulOf, toggles, checked, href, target, rel, search, searchChecked,
          loaded, scripts, touched>>

-----------------------------------------------------------------------------
\* element.parentElement.parentElement.children: the items of list u.
Children(u) == {c \in Items : ulOf[c] = u}

Subtree(c) == {c} \cup {d \in Items : <<c, d>> \in anc}

\* child.querySelector(selector): the first toggle, in document order, at
\* or below item c; only defined when there is one.
HasToggle(c) == Subtree(c) \cap toggles # {}
First(S) == CHOOSE t \in S : \A s \in S : t <= s
FirstToggle(c) == First(Subtree(c) \cap toggles)

\* links[i].hostname != window.location.hostname
ExternalLink(l) == Hostname(href[l]) # PageHost

\* Mutant: the handler climbs one level only (element.parentElement), so
\* it searches the children of el's own li: the input and label hold no
\* toggle, and the nested nav yields the first toggle below el.
CollapsedShallow(t) ==
    IF (Subtree(t) \ {t}) \cap toggles # {}
    THEN {First((Subtree(t) \ {t}) \cap toggles)} ELSE {}

\* Mutant: the listener walks the static navigationElements list and
\* unchecks every toggle but el, wherever it sits in the navigation.
CollapsedAllToggles(t) == toggles \ {t}

\* The toggles getAllNavigationElements(el, ...) unchecks: the first
\* toggle below each item of el's list, except el itself.
Collapsed(t) ==
    {FirstToggle(c) : c \in {c \in Children(ulOf[t]) : HasToggle(c)}} \ {t}

-----------------------------------------------------------------------------
Init ==
    /\ anc \in {r \in SUBSET {p \in Items \X Items : p[1] < p[2]} : IsForest(r)}
    /\ ulOf \in [Items -> Lists]
    /\ IsParent(anc, ulOf)
    /\ toggles \in SUBSET Items
    \* The theme renders the toggles on the current page's path checked;
    \* Root stands for a page outside the navigation.
    /\ \E page \in Lists :
          checked = [t \in toggles |-> page \in Subtree(t)]
    /\ href \in [Links -> Hrefs]
    /\ target = [l \in Links |-> "none"]
    /\ rel = [l \in Links |-> "none"]
    /\ search \in SearchParams
    /\ searchChecked = FALSE
    /\ loaded = FALSE
    /\ scripts = << >>
    /\ touched = {}

\* A click on a toggle's label before extra.js ran: the browser flips the
\* checkbox and no listener is attached yet.
ToggleEarly(t) ==
    /\ ~loaded
    /\ t \in toggles
    /\ checked' = [checked EXCEPT ![t] = ~@]
    /\ UNCHANGED <<anc, ulOf, toggles, href, target, rel, search, searchChecked,
                   loaded, scripts, touched>>

\* Mutant: "blank" for "_blank", a window name instead of a new tab.
RewriteLinksBlank ==
    /\ target' = [l \in Links |-> IF ExternalLink(l) THEN "blank" ELSE target[l]]
    /\ rel' = [l \in Links |-> IF ExternalLink(l) THEN "noopener" ELSE rel[l]]

\* Lines 2-9: every link whose hostname is not the page's opens in a new
\* tab without an opener.
RewriteLinks ==
    /\ target' = [l \in Links |-> IF ExternalLink(l) THEN "_blank" ELSE target[l]]
    /\ rel' = [l \in Links |-> IF ExternalLink(l) THEN "noopener" ELSE rel[l]]

\* Lines 44-50: URLSearchParams.get('search') is null only when the
\* parameter is absent; "" (?search=) counts as present.
SearchToggle(s) == IF s # "absent" THEN TRUE ELSE searchChecked

\* The top level of extra.js, run once when the page reaches the script.
Load ==
    /\ ~loaded
    /\ RewriteLinks
    /\ loaded' = TRUE
    /\ searchChecked' = SearchToggle(search)
    /\ UNCHANGED <<anc, ulOf, toggles, checked, href, search, scripts, touched>>

\* A click on a toggle's label after extra.js ran: the browser flips the
\* checkbox, then the change listener calls getAllNavigationElements(this).
Change(t) ==
    /\ loaded
    /\ t \in toggles
    /\ checked' = [x \in toggles |-> IF x \in Collapsed(t) THEN FALSE
                                     ELSE IF x = t THEN ~checked[t]
                                     ELSE checked[x]]
    /\ touched' = touched \cup {ulOf[t]}
    /\ UNCHANGED <<anc, ulOf, toggles, href, target, rel, search, searchChecked,
                   loaded, scripts>>

\* injectScript(src, cb) called by other page code: a script element is
\* appended to the body, with onload = cb when cb is given.
InjectScript(cb) ==
    /\ loaded
    /\ Len(scripts) < MaxScripts
    /\ scripts' = Append(scripts, [cb |-> cb, state |-> "pending", called |-> FALSE])
    /\ UNCHANGED <<anc, ulOf, toggles, checked, href, target, rel, search,
                   searchChecked, loaded, touched>>

\* The browser loads an injected script: onload, if set, runs cb.
ScriptLoad(k) ==
    /\ scripts[k].state = "pending"
    /\ scripts' = [scripts EXCEPT ![k].state = "loaded", ![k].called = scripts[k].cb]
    /\ UNCHANGED <<anc, ulOf, toggles, checked, href, target, rel, search,
                   searchChecked, loaded, touched>>

\* The load fails: no onerror handler is set, so cb never runs.
ScriptError(k) ==
    /\ scripts[k].state = "pending"
    /\ scripts' = [scripts EXCEPT ![k].state = "failed"]
    /\ UNCHANGED <<anc, ulOf, toggles, checked, href, target, rel, search,
                   searchChecked, loaded, touched>>

Next ==
    \/ \E t \in Items : ToggleEarly(t) \/ Change(t)
    \/ Load
    \/ \E cb \in BOOLEAN : InjectScript(cb)
    \/ \E k \in 1..Len(scripts) : ScriptLoad(k) \/ ScriptError(k)

Spec == Init /\ [][Next]_vars

-----------------------------------------------------------------------------
TypeOK ==
    /\ IsForest(anc)
    /\ ulOf \in [Items -> Lists] /\ IsParent(anc, ulOf)
    /\ toggles \subseteq Items
    /\ checked \in [toggles -> BOOLEAN]
    /\ href \in [Links -> Hrefs]
    /\ target \in [Links -> {"none", "_blank"}]
    /\ rel \in [Links -> {"none", "noopener"}]
    /\ search \in SearchParams
    /\ searchChecked \in BOOLEAN
    /\ loaded \in BOOLEAN
    /\ scripts \in Seq(ScriptRecs)
    /\ Len(scripts) <= MaxScripts
    /\ touched \subseteq Lists

\* At most one toggle of the items of list u is checked.
AtMostOneOpen(u) ==
    \A a, b \in Children(u) \cap toggles : checked[a] /\ checked[b] => a = b

(***************************************************************************)
(* The intent of extra.js (line 19): expanding a menu item collapses the   *)
(* other expanded items, so every list of the navigation has at most one   *)
(* expanded item.  Once a list has received a change event, the listener  *)
(* keeps it so, whatever the user clicks afterwards, in that list or in    *)
(* any other, and however the page's items and toggles are arranged.       *)
(***************************************************************************)
TouchedListsCollapsed == \A u \in touched : AtMostOneOpen(u)

(***************************************************************************)
(* Line 19 and the nesting of the menu: no step expands or collapses both  *)
(* a section and a section nested in it.  A click flips its own toggle,    *)
(* and getAllNavigationElements climbs parentElement.parentElement to el's *)
(* list and unchecks one toggle below each other item of it: the sections  *)
(* containing the clicked item, and those nested in it, stay as they were. *)
(***************************************************************************)
ClicksKeepNesting ==
    [][\A a, d \in toggles :
          checked'[a] # checked[a] /\ checked'[d] # checked[d] => <<a, d>> \notin anc]_vars

(***************************************************************************)
(* Line 19 for the whole page: every list has at most one expanded item.   *)
(***************************************************************************)
AtMostOneExpanded == \A u \in Lists : AtMostOneOpen(u)

(***************************************************************************)
(* Line 1, "Open external links in new tab": after the script ran, a link  *)
(* opens in a new tab exactly when it leads away from the page's origin.   *)
(***************************************************************************)
ExternalLinksNewTab ==
    loaded => \A l \in Links : (target[l] = "_blank") <=> (href[l] # "samePage")

=============================================================================
