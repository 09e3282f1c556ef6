# TLA+ models of gec-conformance

gec-conformance is the instrument of a conformance study: a clean-room canonicalizer,
a verifier of decision receipts, a harness that scores a substrate against preregistered
cases, a locator of the first divergence between two implementations, and the capability
(a decoder of syndrome records) the substrate governs. The models here say what these
programs do, what makes them right, and where the code and its documents disagree.

Run a model with `tlc -config X.cfg M.tla` in this directory; check the proofs with
`tlapm MProofs.tla`. `PROJECT.json` lists the runs, the theorems, the lines each
definition stands for, and for every property a fault of the code that would break it.

## 1. Inventory

| Component | State | Operations | Interacts with |
|---|---|---|---|
| Receipt verifier, `verifier/receipt.py` | the receipt store it was built over (shared with its caller or private), the ruleset | `verify`: eight checks in order, the first may stop it | canonicalizer (digests); caller, who owns and fills the store; harness |
| First-divergence locator, `harness/divergence.py` | per comparison: the verdicts so far, whether it has halted | `compare_runs`, `run_from_local`, `locate_across_cases`, `summarize` | canonicalizer; receipts of two implementations |
| Conformance harness, `harness/runner.py` | adapter, verifier, results, bridging ledger | `run`, `_run_one`, scoring, aliasing matrix, report | fixtures, substrate adapter (which may answer nothing or raise), verifier |
| Phase-1 fixtures, `harness/fixtures.py` | none | `build_phase1`, `write_fixtures` | collected sessions on disk |
| Mock substrates, `harness/mocks.py` | none beyond the parent's start | `submit` | harness |
| Decode capability, `capability/decode.py` | per run: position, count, defects per round | `run`: load, check, decode, emit | decode table |
| Decode table, `capability/table.py` | per search: best matching so far | `_min_weight_matching`, `build_table` | decode |
| Canonicalizer, `canon/engine.py`, `numbers.py`, `ruleset.py` | none | `emit`, `digest`, `load_json` | all of the above |
| Rulesets and corpus, `canon/rulesets`, `canon/corpus.py` | none | seven registered rulesets, 33 cases | canonicalizer, differ, locator |
| Differential runner, `canon/differ.py` | per comparison: the outcomes so far | `compare`, `summarize` | canonicalizer under two rulesets |
| Session extraction, `harness/extract_qecp1.py` | none | `syndrome_records`, `build_artifact` | published files; the capability reads what it makes |
| Freeze tool, `protocol/freeze.py` | the manifest on disk | stage A, stage B, `--write` | documents and sources; fixtures, whose sessions it looks up |
| Command line, `cli.py` | none | printing | canonicalizer, differ |

Nothing in the repository runs concurrently: there is no thread, no task and no live
adapter. What is hard here is of other kinds:

- **long sequences of legal calls**: the verifier looks one step back in a store that its
  caller fills with what the verifier let pass, and overwrites; properties of whole
  lineages rest on that;
- **a partner under test**: the substrate may return any receipt, none, or raise, at any
  submission, between the two submissions of one case as well, and `run` may be called
  again after it was cut short;
- **state fixed too early**: which dict a verifier reads is decided when it is built; the
  digests of a manifest are of documents that are edited afterwards, some from that manifest;
- **order**: stages that one side did not produce, predicate lists in any order and with
  repeated identifiers, a tie-break that must not depend on the order of a search;
- **boundaries**: exactly twelve hours, the first round of a record, the cap of the table,
  a digest that is `None` on both sides, the powers of ten at which a numeral changes its
  layout, integers past 2^53, names past U+FFFF.

What makes each component right, in one sentence each:

- verifier: it accepts exactly the sessions the contract admits, a receipt it accepts is
  coherent, no result reads as verified, and the store built from accepted receipts is a
  set of lineages that are spaced and long enough;
- locator: it names the least stage that both runs produced and that differs, and nothing
  else;
- harness: every case has its result in order, a defect of a substrate has its own
  scorecard, agreement is not reached by a wrong decision, and a double finds nothing;
- decoder: the output counts every record once or there is none, the table has an entry for
  every pattern, and it corrects what a code of its distance corrects; of an extracted session it counts what was published;
- locator over many cases: no difference of compared runs is lost, and the boundary to close
  first is the least there is;
- canonicalizer: two values have one canonical text exactly if the ruleset means them to, and
  a canonical text reads back to itself;
- differ: two readings of a specification are told apart exactly where it is open;
- freeze: a recorded digest goes stale only by an edit of what it is taken of, and a stage B
  that says FROZEN is of collected data and stays.

## 2. Modules

| Module | Models | Shape |
|---|---|---|
| `FirstDivergence` | what the locator promises | one step from the two runs to the report |
| `StageValues` | `StageRecord`, `_predicate_signature`, equality of two values of a stage | operators |
| `Divergence` | `compare_runs` | one step per iteration of its loop; extends `StageValues`, implements `FirstDivergence` |
| `Survey` | `locate_across_cases`, `summarize` | one step per run on the left, then the summary; composes the locator through `FirstDivergence`, which `Divergence` implements |
| `LocalRun` | `run_from_local` | operators |
| `CanonSurvey` | the locator and the differential runner over the runs `run_from_local` makes of the same cases | operators; extends `Survey`, composes `LocalRun` and `Differ`; what canonicalizes is a constant operator |
| `PredicateMap` | `_predicate_map` and the failing predicates | operators, read by the verifier's checks, the harness and a property of the locator |
| `ReceiptChecks` | the verifier's checks, `verify`, `VerificationResult` | operators: each check is the set of (name, status) pairs it adds; extends `PredicateMap` |
| `LineageAudit` | a verifier, its store and the caller who fills it | actions `Seed`, `Build`, `CallVerify` (which is `Examine` or `Fail`), `File`, `SetAside`; extends `ReceiptChecks` |
| `Phase1` | the cases and the mock substrates | operators; extends `ReceiptChecks` for the shape of receipts |
| `Harness` | `run`, `_run_one` and the scoring | one action per way a case can go; extends `ReceiptChecks` and calls `Verify` |
| `DecodeTable` | costs, parity, matchings, the patterns `build_table` goes through | operators |
| `MatchingSearch` | `_min_weight_matching` | one step per call of the inner `search`; extends `DecodeTable` |
| `Decode` | `run`, `load_input`, `decode` | one step per check before the records, per entry of the table and per record; extends `DecodeTable` |
| `Numbers` | `canon/numbers.py` | operators over decimal digits and a place of the point |
| `Canon` | `canon/engine.py` under any `Ruleset` | operators, recursive over values; extends `Numbers` |
| `Corpus` | the registered rulesets, the corpus | constants; extends `Canon` |
| `Differ` | `compare`, `summarize` | one step per case; what canonicalizes is a constant operator |
| `Extraction` | `extract_qecp1.py` | operators |
| `DecodeSession` | an extracted artifact given to the capability | extends `Decode` and `Extraction`: what is built of published histograms is among the inputs |
| `Freeze` | `freeze.py` and those who keep its documents | one action per run of the tool and per thing that happens between two |
| `MC*` | instances for TLC | constants, and properties that speak of particular constants |
| `*Proofs`, `ReceiptLemmas` | theorems | section 5 |

How state and actions correspond to the code:

- **Divergence**: `comparisons` is the list of the same name (of verdicts), `halted` the flag
  of the same name; `status` says whether the function has returned or raised. The loop's
  position is the length of `comparisons`. `SkipUnreached`, `SkipUnavailable`, `Agree` and
  `Diverge` are the four ways through the loop's body. A run is a case and a value or `Absent`
  for every stage.
- **ReceiptChecks**: a receipt is a record of what the checks look at. Instants are integers, a
  text that is not in the pinned format is `Nil`. A digest is an injective function of a value;
  a value the canonicalizer refuses has none. `Raises` says when `verify` raises instead of
  returning: of an artifact whose encoding raises something that is no refusal (`Unencodable`), when the
  declared input digest it would slice for a message is null, or when the predicates are null. Fields of
  other types than the receipt's schema gives them (a parent digest that is a list, a session index that is a
  text), on which it would raise as well, are not modelled, nor is a declared state that cannot be
  encoded. Predicates in the form of a dict are the list of its entries, with its keys for their identifiers.
- **LineageAudit**: `ledger` is the caller's dict, `verifier` says whether `self.store` is that dict
  or a private empty one, `inHand` is the last receipt with its result. `Build` is the constructor,
  `CallVerify` a call of `verify`, which returns (`Examine`) or raises (`Fail`). `Seed`, `File` and `SetAside` are the caller's, who is not in the
  repository except in the tests: they file a receipt under the digest of its declared state, and
  the caller files only what failed no check. `FileHeld` says whether it files held receipts too.
- **Harness**: `results`, `adapter` are the attributes; `position` is the loop's, `pending` the first
  receipt of C05 while the second submission is out. An adapter is the set of answers it may give
  to a submission. `Abort` is an exception that nothing catches.
- **MatchingSearch**: `stack` holds the calls the recursion has still to make, in order; `best` is the
  variable of the same name.
- **Decode**: `table` and `pattern` are the variables of `build_table`'s loop, the pattern being a tuple of
  `itertools.product`, which counts upwards; `index`, `count`, `defects` are the variables of the loop over the records; `outcome` is the artifact, or what was
  raised instead of one.
- **Survey**: `taken` is the position in the list on the left, `reports` the list of the same name,
  `summary` what `summarize` prints. `Locate` and `Skip` are the two branches of the loop, `right_by_case`
  is `Counterpart`: the last run of a case. One comparison is the report the abstract locator
  promises.
- **Canon**: a value is a tree of records, an object its members in insertion order, a string its code
  points, a number its digits and the place of its point. `Emit` is `emit`: a form, a refusal
  (`CanonicalizationError`), or what any other exception is (`Uncaught`). A form is the tree of the tokens of
  the text; two texts are equal exactly if their forms are, because every token but a bracket, a separator
  or a numeral is written as it is and no numeral is a prefix of what may follow another. NFC and `float(n)` are
  constants, given in `Corpus` for the characters and integers that occur. The ceiling of `max_bytes` is
  compared with the number of leaves of the form instead of the number of bytes (`Size`): what happens beyond it is
  modelled, where exactly it lies is not.
- **Differ**: `results` is the list of the same name; an exception that is no refusal takes it away (`status`
  is `raised`).
- **Extraction**: a histogram is the sequence of its entries as parsed; `NoArtifact` is an error of
  `build_artifact`. Sorted order is given by each entry's `Place`, one after the entries whose text is less.
  In `DecodeSession` an input that was extracted keeps the files it was built from (`source`).
- **Freeze**: a document is its text (the number of its edits), the lines of its header and its layout; a digest
  is the material it is taken of. A collected session's file is put there, edited and taken out by somebody else
  (`WireSession`, `EditSession`, `RemoveSession`; `wired`, `collected`). `touched` is not in the code: it says what was edited since the manifest was
  written. `Write` is `freeze.py --write` from the root or from elsewhere.

## 3. Runs

Passing runs:

| Run | Shows | Bounds, and why they are enough |
|---|---|---|
| `divergence` | `LocatesTheBoundary`: the loop implements the one-step locator; `EvidenceIsCompared`: predicate lists agree exactly if they say the same, in any order; `FailuresAgree`: runs that agree there have the same failing predicates as the verifier reads them, repeated entries included; `Terminates` | all six stages; every pair of local runs over four canonicalizations, twenty-four receipts, two that lack fields and none, and of runs with every subset of the stages missing, of the same and of another case; predicate lists that say nothing of a predicate, speak of one that does not exist, or say two things of one |
| `lineage_admitted` | only admitted receipts are filed: `EntriesJustified`, `StudySpan`, `AncestorsSpaced`, and `AdmissionExact`: exactly the contract's sessions are admitted | three sessions (two links, the first at which a property of a lineage is more than one of a link), instants 0 to 4 with a minimum separation of 2, so that a link is shorter, exact, longer or negative; a start that does not parse; a state without index; three entries |
| `lineage_held` | held receipts are filed too: `ReachesGenesis` through any overwriting | as above with three instants, so that links are shorter than the minimum, exact and negative, and a state without index |
| `verdicts` | `AcceptedIsCoherent`, `InputDescribed`, `NeverVerified` | four regular receipts, each spoilt in sixteen ways, with artifacts that are missing, the right one, another, one without canonical form and one whose encoding raises |
| `scorecards` | `Discriminates`: the table of the mocks in the repository's README, and the rows of the aliasing matrix; `AliasesShown`; `DoublesFindNothing`; `CasesInOrder`; `RunsEnd` | all eleven cases, all eight doubles; the correct one behind a connection that answers, gives nothing or raises at six of the cases (a control, the one with two encodings, two violations, both that need a live substrate), as a double and as live, and whose receipts there may be such that `verify` raises; `run` called twice |
| `any_substrate` | `AgreementIsAdmission` | four cases, every decision with every choice of failing predicates among none, the predicted and another, and spoilt receipts |
| `matching_search` | `NothingLost`: the search has every matching still before it or behind a better one, at every step, and returns the least; `CorrectsFewFaults`: the table corrects all sets of at most (distance - 1)/2 faults | every pattern of every code of at most eight detectors up to distance 9 and four rounds; the published sessions are of the code (3, 3) with six |
| `decode` | `TableIsComplete`: the enumeration ends with every pattern of the code and the right entry for it, so that no lookup fails; `OutputIsTheTally`, `NothingPartial`; of extracted sessions `ExtractedIsDecoded`, `ExtractionIsCanonical` | lists of up to three records, good, of the wrong length, not binary and not strings, one and two rounds; tables of two, four and six detectors, built one entry after another; codes without a table; inputs that do not load; histograms of up to two entries of three rounds with every kind of bad outcome, ages on either side of a day, declared rounds that are not those of the records, places with and without a parent |
| `differ` | `TextIsMeaning`: one text exactly if one meaning; `RereadsToItself`; `GapsExplainAll`: the readings of the specification differ exactly where its three open questions are asked and answered differently; `NineCasesDiverge`: the count of FINDINGS-CANON-01; `LostToEncoding` | all pairs of the seven registered rulesets over the 33 cases; each of them and three more (for the policies no registered one has) over grids: 29 numbers, one on each side of every boundary of `numbers.py`, alone and as a member; 27 values; all pairs of seven names in both orders, two of which NFC makes one and two of which the orders of UTF-16 and of code points exchange; a case that cannot be encoded after one that can, in every place it can be |
| `survey` | `DivergencesPreserved`, `EarliestIsRoot`, `ConvergedIsNoDifference`; `ToolsAgree`: over the corpus the locator and the differential runner tell the same | every pair of lists of up to two of nine runs of two cases, so that a case is on one side only or twice on a side; every pair of registered rulesets over the corpus and a case that is refused for two reasons |
| `freeze` | `StaleOnlyByEdit`, `FrozenMeansCollected`, `FrozenFixturesStable` | two groups of sources, two header lines, present or not, either layout; one edit of each text, group and session (a second would not be told from the first by an equality); both sessions wired and removed in any order; any number of freezes from either directory |

One run ends in a violation and shows a disagreement; the finding in `PROJECT.json`
quotes the text it contradicts.

| Run | Disagreement |
|---|---|
| `held_parent` | a held session may be the parent of an admitted one, and two admitted sessions of a lineage are then closer than twelve hours |

The models follow the code in the other places where it departs from its documents. No run is
spent on them, because each is visible in one definition:

- `Get` (`LocalRun`): a field a receipt lacks is stored with value None, so two runs that both lack it
  are EQUAL there, although "a stage that was not produced is not a stage that produced
  nothing" (`harness/divergence.py:84`).
- `Follows`: without an index on one side the order of two sessions is not checked; the
  contract (5.1.3) requires it. A held receipt of a state without index may even name itself as its
  parent and be filed over the one it names: `ReachesGenesis` is about stores of indexed entries.
- no check reads `backend_id`, which the same section requires to be the parent's, and none recomputes
  `state_digest`.
- `Build`: a store that is still empty when the verifier is built is replaced by a private one,
  and receipts filed later "do not resolve".
- `CheckSeparation` fails every HOLD of a session whose separation is compliant, also the one the
  preregistration predicts for C13 for another reason (I6).
- `Abort`: an exception of the adapter leaves `run` before the case is recorded; the preregistration
  (8.3) has infrastructure failures recorded.
- `DecisionAgrees`: C18 is predicted DETECTED, which no receipt can say, so the HOLD the preregistration
  asks for does not agree.
- `AliasedPredicates` and `MisattributingGate` (`Phase1`) look at ancestry and separation only and permit
  C13, although their docstrings speak of right decisions; `Signature` in `MCHarness` has 8 of 9.
- `Raise` (`Decode`): `json.loads` refuses an integer of too many digits and too deep a nesting with errors that
  are not caught, so that a run may end with neither artifact (contract 3.3).
- `CheckOutput`: an output without canonical form matches a missing digest, both being None, and passes as
  "recomputed digest matches" (`receipt.py:247`); `CheckInput` has the test the other lacks. No
  property is about the output's digest for that reason.
- `NoReceipt` (`Harness`): C05 agrees although its second encoding got no receipt, which the fixture excludes
  (`fixtures.py:206`).
- `Uncaught` (`Numbers`, `Canon`): a surrogate that is not paired, or an integer that is too large for a float, raises
  another exception than a refusal, and `compare` loses all its outcomes, although "Errors are results, not
  crashes" (`differ.py:8`). `LostToEncoding` says exactly when.
- NaN and the infinities are refused under ES6_SHORTEST and INT_ONLY; under DECIMAL_PRESERVE they are written, and the reading
  that has it claims finite numbers (`rulesets/scqos.py:38`). `RereadsToItself` leaves them out.
- An int and a float of one value have two texts from 10^21 on under EXACT with ES6_SHORTEST
  (`IntAndFloatDiffer` in `MCDiffer`), and one text below.
- `jcs` and `jcs_base64url` have one text and two digests for every value; so each case of that pair diverges,
  and the test that some case of high value does shows nothing about the canonicalization.
- `ToolsAgree` has an exception: two refusals with different messages are no divergence for the differ and one
  at the first stage for the locator.
- `Counterpart` (`Survey`): of two runs of one case on the right the earlier is not compared, although
  `locate_across_cases` speaks of every divergence.
- `ConvergedCases`: a pair with no stage in common is counted converged, where the property `converged` is false.
- `Extraction`: the declared rounds are those of the published job while records are cut for three; the widths of
  the groups are not compared, only their sum; a first session with a parent is written. The
  decoder refuses the first and the third, and nothing the second.
- `Write` (`Freeze`) replaces the manifest, and a DOI recorded in it by hand is gone. `RecordDoi` and `EditPrereg` make the
  preregistration's own digest stale: its header and its log of deviations are hashed, unlike the
  contract's blanked lines. `AddLine`: a line added to the contract's header changes its digest, although its
  value is blanked.
- `StatusB` says FROZEN of the collected parent alone; C01 may still be derived from it. `FrozenFixturesStable` has
  to except the wiring of the successor, and any change of a session's file: no digest but those of the fixtures is taken of it.
- `Found`: sessions are looked up from the working directory (`fixtures.py:51`).
- `StageB` leaves out what the fixture set's digest leaves out, the second encoding of C05 and the declared
  override of C13; `Groups` leaves out what no group names, `extract_qecp1.py` and `cli.py`.

All runs have `CHECK_DEADLOCK FALSE`, because everything modelled here stops: a comparison
or a survey returns, an audit's store is full, a harness has made its last run, a decode ends, and
a repository may be left alone.

`AncestorsSpaced` and `AdmissionExact` depend on who fills the store. They hold if held receipts are
kept out of it (and, for the second, within one backend, because no check compares backends);
`held_parent` shows what is left of the first otherwise.

**Fairness.** `compare_runs` is a loop in one thread: `FairSpec` of `Divergence` has `WF(Next)`. For
`Harness` it is `WF(Step)`, everything but the call of `run`, which nobody has to make; it
includes that every `submit` returns or raises. A substrate that never answers makes `run`
wait for ever: the code has no timeout.

## 4. Digests

Digests are taken as injective: two values have the same one if and only if they are the same
value. Where the verifier, the harness and the locator are modelled the canonicalizer is this
abstraction; `TextIsMeaning` is what it stands on: a digest of a ruleset tells apart exactly what the ruleset
means to tell apart. Rulesets that identify values (null and absent, an integer and the double nearest to it)
make a digest a function of the canonical value, and `ReceiptChecks` speaks of canonical values only.

The canonicalizer's model was compared with the program itself on 2080 pairs of a ruleset and a value,
the corpus and the grids of `MCDiffer`, without a mismatch.

## 5. Proofs

| Theorem | States | Argument |
|---|---|---|
| `DivergenceProofs!TypeCorrect`, `OneFinding` | `TypeOK`, `HaltOnFirst` (which the runs check as part of the refinement) | `halted` is true exactly when some verdict is DIVERGED; then what is appended is NOT_REACHED |
| `DivergenceProofs!Implements` | `Spec => LocatesTheBoundary` | the inductive invariant says every verdict already in `comparisons` is the one the abstract specification gives that stage; `Return` is then the abstract step and all others stutter |
| `DivergenceProofs!EvidenceCompared` | `EvidenceIsCompared` | the signature of a list that says something of each predicate once has an entry per predicate, and that entry is a result and evidence exactly if the list has that statement: whatever the order and the length of the lists |
| `DivergenceProofs!FailuresAgreed` | `FailuresAgree` | an entry that the verifier reads as failed is the one the signature is taken of, so the signatures of the two lists differ where only one fails |
| `LineageAuditProofs!TypeCorrect` | `TypeOK` | |
| `LineageAuditProofs!LedgerJustified` | `EntriesJustified` | the receipt in hand was checked against the store of an earlier moment, so the invariant also says that a passed receipt in hand is justified by the present store; an entry may be overwritten, but only by one with the same key, so the same state, and a child looks at nothing else of its parent |
| `LineageAuditProofs!NoShortStudy` | `StudySpan`, if held receipts are not filed | by the same invariant, with the witness of the parent carried over to the child |
| `LineageAuditProofs!NothingVerified`, `CoherentAcceptance` | `NeverVerified`, `AcceptedIsCoherent` | every result contains a schema failure or a signature check that is not a pass; the checks of an accepted receipt have all passed, which the lemmas of `ReceiptLemmas` turn into what they test |
| `LineageAuditProofs!InputIsDescribed` | `InputDescribed` | the same lemmas, of the check of the input's digest |
| `LineageAuditProofs!ExactAdmission` | `AdmissionExact`, for states of one backend | what passes is admitted by the lemma on successors; nothing stops what is admitted, check by check: the list of predicates exists (a bijection from the library) and the last entry of each is a pass |
| `LineageAuditProofs!LineagesAreSpaced` | `AncestorsSpaced`, if held receipts are not filed | the recursion of `Ancestry` defines something, and a transitive relation that holds of every entry and its parent holds of all ancestors: both because of the levels where it fails there would be a least. The relation is to be a separation or more behind; that a first session names no parent is one more part of the invariant |
| `LineageAuditProofs!LineagesAreRooted` | `ReachesGenesis` | the relation is to have the lower index, so no entry is its own ancestor; and of n levels either one is a first session or there are n ancestors, which for n = `MaxFiled` are more than there are entries beside the first |
| `HarnessProofs!ResultsInOrder` | `CasesInOrder` | every action that moves the position appends the result of the case at it; a new run starts from position 1 whatever was there |
| `HarnessProofs!AgreementAdmits` | `AgreementIsAdmission` | what is recorded of a coherent receipt satisfies the derivation of its decision; agreement then fixes whether some predicate fails, and with it the decision; that controls are the cases without prediction is an assumption on the constants |
| `HarnessProofs!NothingFoundByDoubles` | `DoublesFindNothing` | the results and what is pending were recorded with an adapter that is a double, and a record over one that finds something would be of a case that is withheld from it; for `null`, which is given every case, of a receipt it never sends (`DryRunAssumption`) |
| `SurveyProofs!TypeCorrect`, `NoReportLost` | `TypeOK`, and that each report is among the converged or in the list of exactly one stage | the groups are a function of the boundary of a report |
| `SurveyProofs!NothingHidden` | `DivergencesPreserved` | the inductive invariant says that every report is the comparison of a run handled (`Sound`), that every matched run handled has its report (`Complete`), and that the summary is that of the reports (`Grouped`); the boundary of a comparison is the least unequal stage, by the least-number principle of the library's well-founded orders |
| `SurveyProofs!EarliestIsTheRoot`, `ConvergedWithoutADifference` | `EarliestIsRoot`, `ConvergedIsNoDifference` | by the same invariant: least over reports and least over stages commute; a report without a boundary is of runs that differ nowhere |
| `SurveyProofs!ToolsTellTheSame` | `ToolsAgree` | `InStep` adds to the invariant that over the runs of two rulesets every run has been compared with that of its own case; without receipts a report is determined by the first two values, and it falls under the same four heads as the outcome: neither, one or both refused, or neither with a difference |
| `FreezeProofs!ManifestStaysCurrent` | `StaleOnlyByEdit` | every action that changes the material of a digest adds it to `touched`; filling a line and another layout leave the material |
| `FreezeProofs!FrozenIsCollected`, `FrozenFixturesAreStable` | `FrozenMeansCollected`, `FrozenFixturesStable` | the invariant also says that stage B of a FROZEN manifest was written from the root and is today's but for what was touched; a step other than a run of the tool leaves what stage B reads or touches it |
| `DecodeProofs!NeverPartial` | `NothingPartial` | the records before `index` are well formed once there is a table |
| `DecodeProofs!TableIsTotal` | `TableIsComplete` | the invariant says that the keys so far are those of the patterns before the present one in the order of the enumeration. Nothing is before the pattern of 0s; nothing lies between a pattern and the next, and all others are before the pattern of 1s, because two patterns that differ first differ somewhere (least numbers). A record of the code's width and of 0s and 1s is such a key |
| `DecodeProofs!TallyIsComplete` | `OutputIsTheTally` | the invariant says that `count` and `defects` are the numbers of flipped records and of events of each round before `index`; one more record adds itself and its rows, which are disjoint from what was there, and a row is an interval of detectors because the numbering is row-major |
| `DecodeProofs!HistogramIsCounted` | `ExtractedIsDecoded` | `EndsForAReason`, inductive beside the invariant above: the capability ends with the output artifact unless something is wrong with the input. There is a bijection between the shots of the histogram and the records: an entry's place is its own because the order of texts is strict, transitive and total, places are therefore injective on a finite set and so fill it, and flattening puts every element of every list in one place and fills all places (by least counterexample along its recursion). The tally of the records carries over it, the events along its product with the detectors |
| `DecodeProofs!ExtractionForgetsOrder` | `ExtractionIsCanonical` | a permutation of the entries matches what is before an entry with what is before its image, so places and hence the sorted list are the same |
| `MatchingSearchProofs!SearchIsExact` | `NothingLost`, with the result: what is returned is `BestMatching` | the invariant says that every matching, with its cost, may still be arrived at by a call on the stack or is settled, that is, is `best` or worse than it, and that no call arrives at anything else. The recursion of `Candidates` defines something (of the sizes up to which it defines nothing there is no least); costs are natural, so what is cut is settled; the calls of one call arrive together at what it may arrive at, because its list of the other detectors leaves none out; and candidates are strictly and linearly ordered, by one lemma on lexicographic orders applied to groups, to matchings and to their costs |
| `MatchingSearchProofs!TableCorrects` | `CorrectsFewFaults` | of a set of detectors: the least cost of matching it may be reached beginning with any group (an exchange along the triangle inequality of the costs, of which going to the nearer boundary is part), so one group more changes it by at most what the group costs; a fault is a group of cost 1, and k faults have a pattern of weight at most k. Of a cut between two columns: whether a set of groups crosses it an odd number of times is told by the detectors on its left and the observable, and groups cross no more cuts in that sense than they cost. A correction that was wrong would differ from the faults at every cut, of which there are as many as the distance; but the two together cross at most 2k |

The assumptions are those the modules name: the separation is a positive number and the blamed
predicates are among the invariants (`ReceiptChecks`), states have an index and an instant
or `Nil` (`LineageAudit`), the cases are a sequence whose negative controls are those without a
predicted predicate (`Harness`), a run has a value or `Absent` for every stage (`Divergence`), a record is not a string or has a
length, is of 0s and 1s or not, and its 1s are within its length, and the other fields are integers (`Decode`), the codes are those a table is built for and no candidate is
taken for the absence of one (`MatchingSearch`), identifiers of cases are unique, C18 is withheld from doubles and `null` answers
nothing (`Harness`), predicate lists are lists (`Divergence`), the runs of a survey are lists of runs of known cases (`Survey`), identifiers of
its cases are unique and there are six stages, canonicalization raises nothing but refusals and yields nothing that is the mark of a missing stage (`CanonSurvey`), a histogram has integers
for counts and no text twice, the code of the study has a table, lineage indices are positive, an extracted record is a string and None is no output
artifact (`DecodeSession`), the harness is
one of the groups of sources and the digest one of the lines of the header (`Freeze`). TLC evaluates all of them in the runs.

The theorems on admission and on ancestors assume that Python's None is neither a digest nor a receipt and that a
declared state has a canonical form (`NilIsNone`), the first also that there is one backend and that the
invariants are finitely many; the one on failing predicates that None is not the result FAIL. Induction, where it is needed, is taken from the library's theorem on
minimal elements of sets, since one over formulas is beyond the installed provers.

Only model-checked: the properties of the canonicalizer, which is recursive over values (what a recursive
definition computes for every input is beyond the prover): `TextIsMeaning`, `RereadsToItself`, `GapsExplainAll`,
`LostToEncoding`. `NineCasesDiverge`, `Discriminates` and `AliasesShown` are about particular constants. Liveness is
TLC's in any case.

## 6. Not modelled

- Command line: arguments and printing.
- The text of reports and the format of fixture files: conversions whose results nothing modelled
  depends on. Bridging entries and the pin table are copied unread into them.
- The normalization forms NFD, NFKC and NFKD: no registered ruleset has them; they would be other
  values of the constant `Compose`.
- C09 (two concurrent submissions): there is a case for it and no code that could make it.
- The running time of the table near its cap, and of the search.
- The code of the tests; they were read as documentation of what callers do.

## 7. What could follow

All of the plan's modules are written, and every invariant that is not about particular constants or the canonicalizer
is proved. What is left is a canonicalizer written as a recursive function over the depth of values, about
which something could be proved by the least counterexample, as is done for the search and for flattening.
