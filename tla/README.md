# TLA+ models of the API-firewall conformance suites

The repository's executable code consists of:

- k6 load and conformance scripts under `src/resources/test/`. Each script
  fires HTTP requests at the API firewall (in front of a stub service) and
  checks whether each request was let through to the stub (status 200 and the
  stub body `{summary:[{schema_id, status_code:200}]}`) or rejected.
- A small piece of DOM glue for the documentation site,
  `src/stylesheets-docs/extra.js`.

This directory models the scripts' control flow, including what the target
may answer. It checks with TLC and proves with TLAPS what the checks of each
suite conclude about a correct target. It also models `extra.js` as a whole:
the navigation toggles that collapse their siblings, the link rewriting, the
search toggle and `injectScript`.

## Inventory of the code

| Part | Source | State and operations | Interactions |
|---|---|---|---|
| Case-list runner | `k6/30.js`, `k6/33.js` | `default()` has two `group`s. Each walks a literal list: `makePositiveCases()` / `makeNegativeCases()`. Per case it chooses headers (`H` for GET/DELETE, `H_JSON` otherwise; for negatives `n.headers ?? H`), calls `doRequest()`, parses the body with `j()` (try/catch, `null` on failure), and makes two `check()` calls (status, `eq(body, EXPECTED)`). | target service; k6 metrics `checks`, `http_req_failed` and the thresholds in `options` |
| Straight-line suites | `k6/58.js` (and `k6/32.js`, not instantiated) | The same loop body, written out once per request. 58.js sends a `SESSIONID` cookie with every valid request. | same |
| Conditional suite | `k6/34.js` | Required `rl-tenant-id`/`rl-user-id` headers; checks that accept 200 or 404; a `WRONG_SCHEMA_H` map. | same |
| Widget chain | `k6/59.js` | create → get → update → delete. The id comes from the create answer, or is a fresh uuid when the answer is the stub. | same; state is shared in the target |
| Account suite | `k6/doe_v2_account_authorization_validations.test.js` | A POST then a GET, with `safeJson()`. | same |
| Specification groups | `specification/script.js` | 31 groups (32 requests) whose checks call `r.json("summary.0.status_code")` without try/catch; `checks: rate==1`. | same |
| uuidv4 | `k6/30.js:27`, `k6/33.js:30` | A random v4 uuid; the variant nibble is `r & 0x3 \| 0x8`. | path parts and bodies |
| Docs navigation | `src/stylesheets-docs/extra.js` | Run once at the end of the page: external links get `target=_blank` and `rel=noopener`; every `.md-nav__toggle` gets a change listener that unchecks the other toggles of its list (`getAllNavigationElements`); `#__search` is checked when the URL has `?search`. `injectScript(src, cb)` appends a script element with `onload = cb`. | browser DOM, the user's clicks |

The k6 runtime and the target service are not repository code. They are the
environment of the models:

- A k6 virtual user (VU) runs one iteration at a time and single-threaded.
  Each `http.*` call is synchronous.
- An uncaught exception ends the iteration.
- A request returns or times out (60 s by default). A transport error yields
  status 0.

## Modules

- **`CaseRunner.tla`**: one VU iteration of the case-list runner. Its
  constants are:
  - the two case lists `Pos`, `Neg`;
  - the header maps `H`, `H_JSON`;
  - the target's configuration: served schema `Sid`, whether the
    auxiliary identification is required (`NeedAux`), the encodings of the
    stub it emits (`StubForms`), and whether it may answer anything
    (`ArbitraryTarget`).

  The variables:
  - `phase`: which group runs ("pos", "neg" or "done");
  - `idx`: the for-of position;
  - `pc`: "send", "wait" or "recv" within one loop body;
  - `req`, `res`: the request in flight and its response;
  - `last`: the two check results of the latest case;
  - `httpReqFailed`: k6's failed-request counter;
  - `allFaithful`: a history variable, true while every answer was a correct
    one.

  The actions:
  - `Send`: url, headers, `doRequest()` up to the wire;
  - `Respond`: the HTTP call returns;
  - `Check`: `j()`, both `check()` calls, next case;
  - `NextGroup`: the for-loop ends.

  Data is abstracted to what the checks tell apart:
  - a header map is `[sid, ct, aux]`;
  - a body is "none" / "empty" / "min" / "bad";
  - a path or query is "ok" / "bad" / "missing";
  - a response body is "stub", "stubReordered" (the same JSON with other key
    order), "error", "garbage" or "none".

  `Accept` and `CorrectResponses` are the target model. A correct target
  accepts a request exactly when all of these hold:
  - it names the served schema;
  - it carries the auxiliary identification when that is required;
  - its path and query are valid;
  - it carries the body kind the operation admits;
  - it declares a JSON content type whenever it has a body.

  It answers an accepted request with 200 and the stub, and any other request
  with 400 and a JSON error. `Faults(r)` names the conditions a request
  breaks; `SingleFault` asks that a negative request break exactly one.
- **`Fixtures.tla`**: the literal case lists and header maps of 30.js, 33.js
  and 58.js, as `CaseRunner` records. 32.js is not instantiated: it has
  seven positive requests and no negative group, so every question this
  model asks of it is settled by its case list alone. A payload builder that returns
  `{}` gives "empty"; one that returns a minimal valid object gives "min". An
  endpoint's `want` is the kind of its positive payload.
- **`MC_CaseRunner.tla`**: the model-checking root. It extends both modules
  and defines the stub-encoding sets.
- **`CaseRunnerProofs.tla`**: the TLAPS proofs for `CaseRunner`.
- **`ScriptRunner.tla`**: one iteration of `specification/script.js`. The
  constant `Reqs` is the request list. The variables:
  - `i`: the current request;
  - `pc`: "send", "recv" or "end";
  - `res`: the current response;
  - `nPass`, `nFail`: the samples of k6's `checks` rate;
  - `aborted`: the iteration ended by an exception;
  - `allFaithful`: the history flag.

  The actions, in the order the code runs them:
  - `Request`: the group's `http.*` call;
  - `Check`: the `check()` call with its entries, then the next request;
  - `CheckThrows`: the status entry is recorded, then
    `r.json("summary.0.status_code")` throws on a null body. k6's `check()`
    records the throwing entry as failed, then rethrows, and the exception
    ends the iteration.

  About k6's `Response.json(selector)`:
  - it returns `undefined` on a body that is not JSON;
  - it throws when the body is null, which happens only on a transport error.
- **`ScriptFixtures.tla`**: one definition per `group` of script.js (31
  groups, 32 requests). Each request is recorded as (group, method, whether
  the check has the body entry); only the HEAD group lacks the body entry.
  `Script` concatenates the groups in program order.
- **`ScriptRunnerProofs.tla`**: the TLAPS proofs for `ScriptRunner`.
- **`NavCollapse.tla`**: one page of the documentation site running
  `extra.js`. The constants are `N` (navigation items), `Links` and
  `MaxScripts` (a bound on `injectScript()` calls). The page's structure
  is state fixed by `Init`, so one run covers every structure:
  - `anc`: the navigation forest as an ancestor relation over items
    numbered 1..N in document order. `IsForest` says what makes such a
    relation a preorder-numbered forest.
  - `ulOf`: the list holding each item. This is
    `element.parentElement.parentElement`: the nearest ancestor item, or
    `Root` for the top-level list.
  - `toggles`: the items whose li has a toggle. Any subset is allowed,
    because the code does not rely on the theme's layout.
  - `checked`: the toggles' state. `Init` checks the toggles on the path to
    the current page, as the theme renders it.
  - `href`, `target`, `rel`: the links. An href is abstracted to how it
    relates to the page: same origin, another port, another host, or
    `mailto:`.
  - `search`, `searchChecked`: the URL's search parameter and the search
    toggle.
  - `loaded`: the script has run.
  - `scripts`: the injected script elements.
  - `touched`: a history variable, the lists that received a change event.

  The actions:
  - `ToggleEarly`: a click before the script ran. The browser flips the
    checkbox and no listener runs.
  - `Load`: the top level of the script, run once. It is `RewriteLinks`
    (lines 2-9), the listeners (20-21, 36-40) and `SearchToggle` (44-50).
  - `Change`: a click after the script ran. The browser flips the checkbox,
    then the listener unchecks `Collapsed(t)`: for each item of the clicked
    toggle's list, `child.querySelector()` gives the first toggle at or
    below it (`FirstToggle`), and the clicked toggle itself is excluded.
    Setting `.checked` from script fires no event, so nothing cascades.
  - `InjectScript`, `ScriptLoad`, `ScriptError`: `injectScript()` and the
    browser's load or failure of the script. Only a load runs `cb`.
    Nothing in the repository calls `injectScript()`. The model lets any
    page code call it, up to `MaxScripts` times, and checks that this never
    disturbs the navigation.
- **`MC_NavCollapse.tla`**: the model-checking root, with the links as model
  values.
- **`NavCollapseProofs.tla`**: the TLAPS proofs for `NavCollapse`.

## Runs

| Run | cfg | Result | What it shows |
|---|---|---|---|
| MC30_pass | MC30.cfg | pass, ~400k states | With 30.js's 41+12 cases, `CorrectTargetAllPass` holds: every case answered correctly passes both checks. `Termination` holds: however the target answers (correctly, transport error, or anything), the iteration reaches its end. `TypeOK` holds. |
| MC58_pass | MC58.cfg | pass | `CorrectTargetAllPass` for 58.js, against a target that also requires the session cookie. Passing does not show that the cookie is enforced; see MC58_single_fault. |
| MC58_single_fault | MC58_single_fault.cfg | violation | `SingleFault` (spec §3, §4.2: one fault per negative case): 58.js's missing-cookie negative also sends schema id 999, so the schema id alone explains its rejection. The same invariant fails on 30.js's lists: its POST negatives at lines 138 and 142 also send an empty body `{}` where the operation needs one. |
| MCScript_pass | MCScript.cfg | pass, ~12k states | `ThresholdSound`: whatever the target answers, an iteration that ends with no failed check sent and checked every request. The exception that aborts an iteration is raised inside `check()`, which records it as a failure; the mutant that reads the selector before `check()` aborts with nothing recorded. `ChecksThresholdMet`: when every answer was a correct one, script.js meets `checks: rate==1`. This includes HEAD, whose empty body is never parsed. `TypeOK` holds. |
| MCScript_isolation | MCScript_isolation.cfg | violation | `FailureIsolation` (spec §4.5/§7): one transport error ends the iteration, and the later groups never run. |
| MC33_wrong_id | MC33_wrong_id.cfg | violation | 33.js's "wrong schema header" negatives send id 33 (`H_WRONG` equals `H`). A correct target accepts them, so their negative checks fail. The "empty body" negative at line 138 is a second valid request: it is the positive case of line 102. |
| MC30_key_order | MC30_key_order.cfg | violation | `eq()` compares `JSON.stringify` strings, so a stub with reordered keys fails a positive check. Spec §4.4 asks for deep equality. |
| MC30_neg_verdict | MC30_neg_verdict.cfg | violation | Spec §4.4 passes a negative case when the status is not 200 **or** the body is not the stub. The code needs both checks, so a 200 with another body fails. |
| MC30_threshold | MC30_threshold.cfg | violation | 30.js's `http_req_failed: ['rate==0']` fails exactly when the target is correct, because the negatives get 4xx. |
| MCNav_pass | MCNav.cfg | pass, ~390k states | `TouchedListsCollapsed`: on every forest of 4 items, with every set of toggles and every current page, a list that received a change event keeps at most one expanded item, whatever is clicked afterwards. `ClicksKeepNesting` (an action property): no step expands or collapses both a section and a section nested in it. `TypeOK` holds. |
| MCNav_early | MCNav_early.cfg | violation | `AtMostOneExpanded` (the comment at line 19): the theme expands the sections on the current page's path; one click on a sibling of one of them before the script attached its listeners leaves both expanded until another click in that list. |
| MCNav_links | MCNav_links.cfg | violation | `ExternalLinksNewTab` (the comment at line 1): the loop compares hostnames, so a link to another port of the docs host stays in the same tab. |

Bounds: the case lists are the scripts' own full lists, so there is no
sampling. The target's nondeterminism is the whole answer domain of the
abstraction. The `Responses` set has 3 statuses × 5 bodies × a faithful flag,
so every mismatch the checks can see occurs. Each mutant listed in
PROJECT.json is killed under its run's cfg.

For `NavCollapse`, 4 items give all 14 forests. These include:
- a list of three items;
- a section with two sub-items next to a sibling section;
- three levels of nesting;
- an item without a toggle above one with a toggle, where `querySelector`
  reaches a nested list.

Combined with every set of toggles and every current page, that is every
shape the listener's two-level climb and its sibling loop can meet. The
listener's work depends only on the clicked toggle's list, so larger
navigations repeat these cases. The theorem covers every `N`. One link
takes each of the four href kinds, and links are rewritten independently
of each other.

Fairness: `WF_vars(Next)` on the whole iteration. The justification:

- A k6 iteration is straight-line code run by one VU.
- Each HTTP call returns or times out, so `Respond` cannot be postponed
  forever.
- Nothing else competes for the VU.

`CHECK_DEADLOCK FALSE` is set because the iteration really stops, at
phase "done".

`NavCollapse` has no fairness and no liveness property. Its steps are the
user's clicks and the browser's loading of injected scripts, and neither
has to happen. A page with no toggles whose scripts have settled is idle,
so that model also sets `CHECK_DEADLOCK FALSE`.

## Proofs (checked by tlapm)

The CaseRunner theorems hold for all case lists, header maps and target configurations
that `ConstantsAssumption` admits.

- `TypeCorrect: Spec => []TypeOK`. `TypeOK` alone is not inductive: `Check`
  reads `CurList[idx]`-derived state and increments `idx`. The proof
  strengthens it to `TypeInv == TypeOK /\ InFlight`. `InFlight` says that
  while a request is out, the group is running, `idx` points into its list,
  and `req` is the request the loop built for `CurList[idx]`.
- `CorrectTargetAllPassThm`. Assume `FixturesSound` (every positive request
  is accepted and every negative one rejected) and `StubForms = {"stub"}`.
  Then `Spec => []CorrectTargetAllPass`. The inductive invariant is
  `TypeInv /\ FaithfulRes /\ CorrectTargetAllPass`. `FaithfulRes` says a
  response marked faithful is one of `CorrectResponses(req)`. The lemma
  `ChecksPassOnCorrectAnswer` carries the step of `Check`. TLC also checked
  the inductive invariant and `FixturesSound` on the 30.js instance.

- `ScriptTypeCorrect` and `ThresholdSoundThm` (ScriptRunnerProofs): both
  hold for every request list and both target modes. The inductive invariant
  `IInv` adds these to `TypeOK`:
  - a null body comes only with status 0;
  - while a request is out the iteration has not aborted;
  - an aborted iteration has ended with `nFail >= 1`;
  - an iteration that ended without an exception is past the last request.

  `ThresholdSound` is not inductive alone, because it speaks only of the
  final state. The third conjunct carries it: `CheckThrows` adds at least
  one failure, because k6 records the throwing body entry as failed (and a
  transport error's status 0 fails the status entry too). The lemmas
  `CountNat` and `EntriesType` carry the counting, which uses
  FiniteSetTheorems.

- `ChecksThresholdMetThm` (ScriptRunnerProofs). Assume `HeadChecksStatusOnly`:
  only a request whose answer has a body gets the body entry. script.js's
  fixtures satisfy it, because the HEAD group's check has the status entry
  only. Then `Spec => []ChecksThresholdMet`. The invariant `FaithfulSoFar`
  says that while every answer was correct, `nFail = 0` and the answer
  being checked is `CorrectResponse(Reqs[i])`. The lemma
  `CorrectAnswerPasses` shows that every entry passes on that answer. A
  correct answer is never null, so `CheckThrows` cannot follow it. The
  mutant `CheckAlwaysBody` breaks the hypothesis, and TLC then finds the
  violation.

- `NavTypeCorrect` and `TouchedListsCollapsedThm` (NavCollapseProofs). They
  hold for every `N`, every forest, every set of toggles and every set of
  links. The inductive invariant `IInv` adds to `TypeOK` and
  `TouchedListsCollapsed` that no list is touched before the script ran.
  That conjunct is what makes `ToggleEarly` harmless to the property. The
  step of `Change` has two parts:
  - In the clicked toggle's list, every other toggle is in `Collapsed(t)`.
    The lemma `CollapsedSiblings` shows this, and rests on
    `FirstToggleOwn`: `querySelector` on an item that has a toggle returns
    that toggle, because an ancestor precedes its descendants in document
    order.
  - In any other list nothing is checked anew.

  The sequence facts come from SequenceTheorems (`ElementOfSeq`,
  `AppendProperties`, `ExceptSeq`).

- `ClicksKeepNestingThm` (NavCollapseProofs): `Spec => ClicksKeepNesting`
  for every forest and set of toggles. The proof uses `[]IInv` and shows
  `NextKeepsNesting: IInv /\ [Next]_vars => [KeepNesting]_vars`. It rests
  on lemmas about the navigation's shape:
  - `MinExists`: a nonempty set of naturals has a least element. This comes
    from `WFMin` and `NatLessThanWellFounded` of WellFoundedInduction, with
    no induction of our own.
  - `FirstToggleIn`: hence the `CHOOSE` in `FirstToggle` picks a toggle at
    or below the searched item.
  - `NoNestedSiblings`: an item is never an ancestor of another item of its
    list. The lower item's list is held by its nearest ancestor, which
    comes after the upper item.
  - `SiblingsApart`: the subtrees of two items of one list have nothing
    nested in each other. This uses the forest's chain property.
  - `CollapsedOwner`: each toggle the listener unchecks lies below an item
    of the clicked toggle's list other than the clicked one.

  `ChangeKeepsNesting` combines these: the toggles a click changes come
  from distinct items of one list.

The two hypotheses of `CorrectTargetAllPassThm` are exactly what two of the
violation runs break:

- MC33_wrong_id breaks `FixturesSound`.
- MC30_key_order breaks the single stub encoding.

Only model-checked:

- `Termination`: liveness is outside TLAPS's reach here.
- `ThresholdMet`, which has a violation run (MC30_threshold) and so no
  theorem.
- `NegVerdictPerSpec` and `SingleFault`, which have violation runs and so
  no theorems.
- The concrete fact that 30.js's and 58.js's lists satisfy `FixturesSound`.

## Not modelled (yet)

- The formatting of URLs and of check names, `console.log`, and the Trend
  metrics: these are output only.
- The uuids: a path id is "ok" or "bad", which is all the target tells apart.
- `http_req_duration` thresholds: timing.
- Repeated iterations and several VUs: the case-list suites share no state
  between iterations, and the stub target is stateless.
- In `extra.js`:
  - the `src` of an injected script and the unused `searchBar` lookup
    (line 46), which change no state;
  - a sidebar the theme re-renders after load. The static `querySelectorAll`
    list would leave its toggles without listeners, but the repository
    configures no instant navigation;
  - a page without `#__search`. There `getElementById` returns null and
    line 49 throws, but it is the last statement, so nothing is skipped.

## Plan for later sittings

1. script.js is done (ScriptRunner). What is left there: which payloads a
   real firewall rejects (the FIXME groups), which needs the OpenAPI
   document, and that is not in the repository.
2. `ConditionalSuite` for 34.js: checks that accept 200/404, required `rl-*`
   headers, and the `WRONG_SCHEMA_H` same-id bug.
3. `WidgetChain` for 59.js: the id taken from create or a fresh uuid, with
   several VUs against a stateful target. Show the stale-id hazard.
4. `Uuid` (TLC only): `r & 0x3 | 0x8` against the reference `8 + r % 4`.
5. `NavCollapse` is done. The nested-list collapse through `querySelector`
   (hazard at line 28) could get a property if the theme's intended
   behaviour is settled.
6. Done: `SingleFault` (MC58_single_fault).
7. An abstract specification worth refining to is one about verdicts, not
   loop order: for instance, that each case's recorded verdict is a
   function of the target's answer to that case alone. Still open, along
   with the concrete fixture fact `FixturesSound` for 30.js as a
   TLC-checked assumption of its run.
