# TLA+ specifications of open-cypher

`open-cypher` is a Rust parser for openCypher 2024.3. It lexes a query, shapes
the tokens, parses them with a generated LALRPOP machine, and, when that fails,
reports diagnostics and builds a partial syntax tree. These modules specify the
control that the crate writes by hand around the generated machine, in
`src/src/parser.rs`, `lexer.rs` and `diagnostic.rs` for the most part, and the
maintenance tool `xtask`, which generates and verifies two checked-in files. Paths
below are relative to the repository; line numbers are those of the commit
modelled.

The library is sequential. What is hard there is not concurrency but **loops whose
outcome depends on a search**: an error-recovery loop with one budget shared by
three kinds of work, a retry loop that rewrites its own input, searches that are
cut short on the strength of a property of LR parsers, decisions about a token
that are taken twice in different places, and lists that are ordered and capped
twice. The maintenance tool adds files: processes that run at once, operations
that fail half-way, crashes and loss of power.

## Inventory

| Component | Where | State it keeps | Operations | What makes it correct |
|---|---|---|---|---|
| Lexer | `lexer.rs` | position; escape and comment depth | `lex`, `consume_quoted`, `lex_block_comment` | spans tile the source; every refused region has one diagnostic; a literal ends where its decoder thinks it ends |
| Token shaping | `parser.rs:717-1405` | index into the significant tokens | `parser_tokens` and six look-ahead scanners | the shaped tokens cover the significant ones, in order, without overlap; contexts are read right |
| Contextual names | `parser.rs:117-300` | `contextual`, `resolved`, two errors | `parse_tokens_with_contextual_names` | equal contexts are read alike; it ends; the farthest error is reported |
| Strict parsing | `parser.rs:302-537` | cursor, candidate ends, best error | `parse_program`, `parse_regular_query`, `parse_single_query` | same answer as an exhaustive search; no token left out; RETURN last |
| Clause recovery | `parser.rs:2674-2856` | cursor, open branch, pending error region, budget | `recover_clauses`, `recovered_branch` | no token lost or claimed twice; source order; the budget bounds the work; it ends |
| Operand recovery | `parser.rs:2858-2943` | repaired tokens, insertions | `recover_expression_operands` | pays from the same budget; never displaces a valid clause |
| Diagnostics | `parser.rs:59-115, 539-715`, `diagnostic.rs` | list, delimiter stack | `parse`, `parse_recovering`, `normalize_diagnostics`, `collect_delimiter_diagnostics`, `ParseErrors::new` | delimiters judged right, once each; ordered; capped with the earliest kept |
| Rendering | `diagnostic.rs:361-519` | none | `render_one`, `snippet` | slices on character boundaries; the marker covers the span |
| Nested fragments | `parser.rs:2067-2520` | candidate pipe, best error | `pattern_comprehension`, label and pattern fragments | first pipe that parses; farthest error; the split loses nothing |
| AST builders | `parser.rs:1857-2065, 2526-2672` | none | literal decoding, `fold_*` | associativity, spans |
| AST, visitor, spans | `ast.rs`, `ast/visit.rs`, `span.rs`, `token.rs` | none | accessors, walk | `Span::new`: start <= end |
| Grammar | `grammar/`, `src/generated/` | LR stack | generated | precedence; otherwise external here |
| Generated files | `xtask/src/grammar.rs`, `tck.rs` | two checked-in files, temporary ones | `grammar generate`, `grammar verify`, `tck generate`, `tck verify` | files whole and current, verdicts right, nothing left behind |
| TCK projection and gate | `xtask/src/tck.rs` | occurrences, queries, ledgers, counts | `build_projection`, `finish_projection`, `evaluate`, `split_cypher_script` | ids unique and ordered; expectations agree; the gate opens only when deserved |
| Specification audit | `xtask/src/spec.rs` | memo and path of the alias search | `validate_aliases` and other ledger checks | the verdict is that of reachability |

How they interact: `parse_recovering` calls the lexer, `parser_tokens`, then
`parse_tokens_with_contextual_names` around `parse_program`. When that fails, or
the lexer complained, the delimiter scan adds its diagnostics and the list is
normalized; without a program `recover_clauses` builds one, calling
`parse_tokens_with_contextual_names` around the generated clause parser for each
candidate. `parse` is `parse_recovering` with every diagnostic turned into a
refusal. The grammar's actions call back into the nested-fragment functions,
which lex, shape and parse a slice of the source again, and into the builders.
There are no threads, no asynchronous calls and, in the library, no persistent
state. The maintenance tool's commands are processes of their own that meet in
the checked-in files and in the temporary directory.

## Modules

| Module | Models | Instance |
|---|---|---|
| `ClauseRecovery` | `recover_clauses`, `recovered_branch`, the control of `recover_expression_operands` | `MCClauseRecovery` |
| `TokenPartition` | abstract: what recovery promises about each token | refined by `ClauseRecovery` |
| `ContextualNames` | `parse_tokens_with_contextual_names` and its classifiers | `MCContextualNames` |
| `StrictParse` | `parse_program`, `parse_regular_query`, `parse_single_query` | `MCStrictParse` |
| `Diagnostics` | diagnostics of `parse_recovering` and `parse` | itself |
| `TokenScans` | the look-ahead scanners and context tests, as operators | through `TokenShaping` |
| `TokenShaping` | `parser_tokens`, `nested_parser_tokens` | `MCTokenShaping` |
| `NestedFragments` | `pattern_comprehension`, `pattern_expression`; runs `TokenShaping` anew for each split | `MCTokenShaping` |
| `Lexer` | `lex`, `consume_quoted`, `lex_block_comment`, `decode_delimited` | `MCScriptSplit` |
| `ScriptSplit` | `split_cypher_script`, after `Lexer` over the same text | `MCScriptSplit` |
| `ExpressionTrees` | the expression rules of the grammar and the folds they call | `MCExpressionTrees` |
| `Snippet` | `snippet`, `floor_char_boundary`, `display_width`, `expand_tabs` | itself |
| `Artefacts` | the life of the two generated files | `MCArtefacts` |
| `TckProjection` | `build_projection`, `finish_projection`, `evaluate` | `MCTckProjection` |
| `AliasAudit` | `validate_aliases`, `alias_reaches_direct` | `MCAliasAudit` |
| `ClauseRecoveryProofs` | `ClauseRecovery`: typing, branches, choice of clauses, its tree against the source, the refinement of `TokenPartition`, a bound on its steps | proof |
| `ContextualNamesProofs` | safety of `ContextualNames` | proof |
| `StrictParseProofs` | safety of `StrictParse` and of `ExpressionTrees` | proof |
| `DiagnosticsProofs` | safety of `Diagnostics`; `Snippet` | proof |
| `ShapingProofs` | `TokenScans`, `TokenShaping` and `NestedFragments` | proof |
| `LexingProofs` | safety of `Lexer` and `ScriptSplit` | proof |
| `TckProjectionProofs` | safety of `TckProjection` | proof |
| `MaintenanceProofs` | safety of `Artefacts` and of `AliasAudit` | proof |

Some definitions have a sibling marked *faulty* just before them. It is what the
code would do with a plausible bug, and is used by no specification; put in the
place of the definition it must break a stated property (the `mutants` of
`PROJECT.json`), which shows that the property has teeth.

### ClauseRecovery

Variables carry the names of the function's locals: `cursor`, `clauses`,
`branches`, `operators`, `branchStart`, `skipped`, `retained`, `returned`,
`attempts`. Indices are one-based and the end of the input is `Size + 1`. `pc`
tells the head of the loop (`Scan`) from the search for a clause (`Try`,
`Repair`) and its outcome (`Settle`). `spent` is history: the cursor and what the
tree kept when the head of the loop was first reached without budget.

| Action | Code |
|---|---|
| `RejectInput`, `Prepare` | the early returns and bindings, 2678-2715 |
| `SplitUnion` | the UNION branch of the loop, 2722-2755 |
| `BeginClause`, `TryCandidate`, `EndCandidates` | the candidate loop, 2756-2778 |
| `InsertOperand`, `AbandonRepair` | one insertion, and giving up, of `recover_expression_operands` |
| `RetainClause` | 2791-2801 |
| `SkipToBoundary`, `SkipAfterReturn` | 2802-2815, without and after a RETURN |
| `Finish`, `FinishEmpty` | 2817-2848 |

A clause is kept as its kind (`Return`, `Other`, `Error`), its span and whether
it was repaired. Token classes are those the function tells apart. The grammar is
external: `BeginClause` picks any set of acceptable candidate ends, a repair may
succeed or not. Since a slice is parsed at most once per call, a free choice per
slice stands for every deterministic grammar; the only fact assumed is that a
clause begins with a clause keyword. `StartOf` and `EndOf` place the tokens in
the source; the instance lets some touch and leaves gaps between others.

`TokenPartition` is the promise: each token gets one role (clause, operator,
error), left to right, in runs, for good, and no clause follows a RETURN before
the next operator. The refinement mapping reads the role off the tree with
`Covers`, so that a tree edit that moved a token between nodes, or dropped it,
would be a step `TokenPartition` does not have.

### ContextualNames

`Classify` is the first pass over the tokens, `Accept`, `FailFirst`,
`FailFarther` and `FailWithoutProgress` the outcomes of a parser call,
`Reclassify` the choice of the nearest undecided keyword and of all its peers,
`GiveUp` the exit without a candidate. A parser call may succeed or fail at any
offset a token or the end of input has. Each call sees other tokens than the one
before, so that too covers every parser.

### StrictParse

Here the point is a claim about the grammar, made in two comments (370-374,
453-455): an LR machine that rejected a token rejects it whatever follows. So the
clause parser is not free: from each token it either rejects one fixed token or
accepts some slice ends before it (`Grammars`). The functions are translated as
operators with a switch for their pruning; `ParseProgram`
has it on, and `PruningPreservesResult` compares with it off.

### Diagnostics

One action per stage of `parse_recovering`, one per token of the delimiter scan.
Offsets count tokens, trivia included, so spans tile as the lexer's do. The
parser is external: it accepts, or fails anywhere in any of its four ways.
Sorting is by places: which report comes where follows from how many come before
it. `WellNested` asks for a pairing of the delimiters in which no two pairs cross,
`Meets` for the closer each opener meets by position alone; neither knows of a stack. `Strict` is `parse`: it sorts the normalized list
again as `ParseErrors::new` does.

### TokenScans and TokenShaping

Tokens are their kinds; the kinds no scanner looks for are one, `Keyword` or
`Word`. `Merge(r)` tries the six rules in the order of the code, `PushToken`
copies a token. A scan is an operator that returns the set of the end it finds,
empty for `None`; loops with a saturating depth are written with `Depth` and
`StaysOpen`, so that overlapping delimiters behave as in the code. The label
functions call each other: `LabelEnd` holds at each index what `label_or_end` and
`label_and_end` answer there. The loop of `pattern_expression_end` is
`PathEnd`, one hop over a relationship and a node at a time.
`spaced` holds the tokens not adjacent to the one before, `boundary` the pipe
reserved by the caller: the forward scans see an end of input there, the backward
ones look past it, as the code's two slices do. `SourcesAssumption` says what an
input is: a sequence of token kinds, and a reserved pipe only in a fragment.

### NestedFragments

Composes with `TokenShaping`: `Reserve` picks the next pipe, `Shape` takes the
shaper's steps, `Split` and `Unsplit` are `parse_comprehension_tokens` up to its
first parser call, `ParsePart` the calls, in the order of the code. The fragment
parsers are external and may fail at any token of their part or at its end.
`failures` and `splits` are history.

### Lexer and ScriptSplit

A text is a sequence of character classes: those that end, escape or nest
something, and one letter. `u` escapes have `Digits` digits (4, or 6 after `U`,
in the code); `Surrogate` stands for a run of digits that is no scalar value. What the
generated logos lexer does is its regular expressions: the longest run of letters
or spaces, line comments, single characters. `LexFragment` restarts the lexer on
a range of tokens, as `pattern_comprehension` does with the text of a merged
token. `ScriptSplit` then reads the same text with the maintenance tool's
scanner; one action per state of its `match`. Line ends are normalized before
(`tck.rs:1298`), so `Newline` is the only one. The adjustment of `start_line` in
1380-1382 is left out: `start` never exceeds the index, so its condition fails.

### ExpressionTrees

The parser keeps a stack. Here it is cut into `frames`, one for each construct
that is open, with its tokens and its finished operands; `operand` is the node
that has just been completed. The rules `OrExpr` to `PostfixExpr` of
`cypher.lalrpop` are levels, and `Level` and `Rank` say to which a token and a
node belong; a rule that only hands an operand on takes no step.

| Action | Code |
|---|---|
| `Operator`, `MoreOperands`, `EndOperands` | the head, the tail and the end of a level of binary operators |
| `Fold` | one turn of the loop of `fold_binary` or `fold_comparison` |
| `NullTest`, `Property`, `Subscript` | `IS [NOT] NULL`, and the suffixes `fold_postfix` folds |
| `Open`, `Separate`, `Close` | parentheses, lists, comprehensions, subscripts |
| `Name`, `Prefix`, `EndPrefix` | atoms, NOT and signs |

`Closed` is the decision of `split_comprehension_source`. Spans are made as the
code makes them, with `Span::cover` or from the first to the last token. A node
keeps, as history, the tokens of its own (`own`) and all those read for it
(`reads`). A sentence is refused where no step is possible. Left out: map
projections, label predicates and pattern expressions in an operand, which have
modules or parsers of their own, and of each level the operators that differ in
their spelling only.

### Snippet

A source is a sequence of bytes: ASCII letters, tabs, both line ends, and
two-byte characters. `Clamped`, `LineStart`, `LineEnd`, `VisibleEnd` and
`SnippetOf` are the bindings of `snippet` in order. `ExpandTabs` gives the printed
line as its cells, each with the byte whose character it shows: a tab has several,
the second byte of a character none.

### Artefacts

A content is the set of source versions it was made from and its form. `file.now`
is what a reader sees, `file.after` what may be there after a loss of power.
`run` is each process's record: its command, the step it is at, what it has
built, the temporary names it holds, its verdict, and whether anybody else wrote
the sources or the file since it began (`alone`). The steps are those of
`generate_into` and `verify` (`Stage` to `Leave`) and of `tck generate` and
`tck verify` (`ReadReviews` to `Compare`). `Fail` is the error return of any
operation: `AfterFailure` gives the clean-up that follows. `fs::write` is two
steps, truncation and write. A temporary name is a role and a number, standing
for process id and nonce. External: `Kill`, `PowerLoss`, `WriteBack`, `Edit`.

### TckProjection

One action per scenario (`Project`), then `FinishProjection`, then one per
occurrence judged (`Match`, `Mismatch`), with the refusals beside them. Query
texts and reviews are small sets; the parser's verdict on each text is free. What
the Gherkin parser hands over is `Scenarios`, well formed: the refusals
of `expand_examples` (`tck.rs:953-1000`) for an outline without Examples, a table
without rows or columns and bad headers are left out. The sort is by places, and stable. The
counts pinned in `corpus.toml` are left out: they compare two numbers.

### AliasAudit

The recursion of `alias_reaches_direct` is a stack of frames; `resolved` is the
memo that outlives a search, `visiting` the set of names on the path.

## Runs

| Run | Bounds | Question |
|---|---|---|
| `clause_recovery` | 10 classes up to 4 tokens, 5 classes up to 5, budget 4, 2 insertions | Is the tree a partition of the tokens in source order, are UNION and RETURN respected, which clause wins, what if the budget runs out in the middle, is the promise kept (refinement), and does it return? |
| `recovery_repairs` | 2 classes, up to 3 tokens | Violation: expressions *are* repaired |
| `contextual_names` | 6 kinds, up to 4 tokens | Which keywords become names, which error is reported, how often is the parser called? |
| `strict_parse` | 5 classes, up to 4 tokens, every LR clause parser | Does pruning change a result or a diagnostic? |
| `diagnostics` | 6 classes, up to 5 tokens, cap 3 | Is what is reported sound, ordered, capped, and the same for both entry points? |
| `token_shaping` | inputs built from pieces: contexts with every string of 4 label or name tokens, every comprehension and path from a list of heads, relationships and tails, up to some 25 tokens | What is merged, is it whole, does the reserved pipe get through, and is the split of a comprehension the right one with the right error? |
| `source_texts` | texts of up to 5 or 6 characters over ten alphabets, some between fixed characters | Do lexer, decoder and script splitter agree on quotes, escapes, comments, semicolons and lines? |
| `snippet` | up to 5 bytes, offsets up to 2 beyond | Can slicing panic, is the line whole, is the marker right? |
| `artefacts` | one process with 1 edit, 2 failures, 2 crashes; two with 1 edit; two with 1 failure and 1 crash (projection) | Are the files whole, verdicts right, temporaries removed, and does generating again repair? |
| `tck_projection` | one or two scenarios, three texts, every parser verdict, one exclusion | Is the projection consistent and the gate honest? |
| `alias_audit` | every map of 4 productions, aliases with up to 2 targets | Does the search end, and is its verdict that of reachability? |
| `expression_trees` | every string of up to 4 tokens; every two operators in a chain; every pair of 18 forms under 11 operators, and in brackets | One tree per sentence, grouped right, spans exact |

Why these bounds. *Recovery*: four tokens make two branches with a qualified
operator, a clause that spans a boundary, or a RETURN with a tail and a UNION
behind it; five add a third branch or a region on each side of a clause. A budget
of four outlasts the search over two or three tokens, and over five is spent
before, during and after each kind of work. *Strict parsing*: four tokens hold
two UNIONs, or a UNION with a qualifier and a branch on both sides; the set of
machines grows too fast for more. *Diagnostics*: the cap of three (32 in the
code) is passed by lexer errors alone, by delimiter errors alone and by both. The
code's constants 128, 4 and 32 are the parameters `Budget`, `MaxInsertions` and
`MaxDiagnostics`, and no definition uses their value. *Shaping*: a label of four
tokens has an operator between two names, a legacy `|:`, or a parenthesis;
comprehensions have up to three pipes, one of them in a relationship or a nested
list, which is one for each role a pipe can have. *Texts*: five characters after
a delimiter hold an escape, a doubled delimiter, the end and a character behind
it; six hold two nested comments, opened and closed. *Artefacts*: `MaxEdits` and
the `left` counters bound what the world does to the tool; a second crash hits
the recovery from the first, and a failure meets the clean-up after another.
`MaxNames` exceeds the names that crashes and failed removals can leave. *Alias
audit*: four names make a cycle reached through a name already resolved, and two
paths to one endpoint.

Deadlock is checked except in `tck_projection`, `alias_audit` and
`expression_trees`, whose functions return and then really stop; the others
stutter explicitly once they have returned.

### What the properties say

A property that answers one question about a component may be a conjunction of
named parts.

*Recovery.* `TypeOK` includes `start <= end` for every span, which `Span::new`
asserts. `TreeFollowsSource`: each token read has exactly one owner
(`TokensPartitioned`) and clauses, branches and operators lie as in the source
(`SourceOrder`). `ReturnClosesBranch`, `ErrorRegionsMaximal`: shape of a branch.
`NothingKeptIsLost`: a top-level UNION is lost in an error region only with the
budget spent (`UnionsKept`), and neither zip nor an early return drops what was
kept (`ResultComplete`). `LongestValidClauseWins`: priorities. `ExhaustedSuffix` is
the comment at `parser.rs:2712-2714`, over the whole call: once the head of the loop
is reached with the budget spent, no clause, parsed or repaired, and no operator is
added any more, and the last node of the result is an error that holds all tokens
then unread. `ImplementsPartition`: the refinement. `Terminates`.

*Contextual names.* `NamesFollowContext`: tokens in one lexical context are read
alike (`SignatureUniform`) and only decided keywords become names
(`NamesAreDecidedKeywords`). `PassesBounded`: parser calls are bounded by distinct
contexts, not by length. `BestErrorAdvances`, `ReportsLastProgress`, `Terminates`.

*Strict parsing.* `PruningPreservesResult`; `AcceptedInWhole`: branches tile the
tokens (`BranchesTileTokens`) and a RETURN ends its branch (`ReturnEndsBranch`).

*Diagnostics.* `DelimiterErrorsRight` compares the stack with the pairings of the
delimiters in which no two pairs cross: something is reported exactly if there is none
(`DelimitersSound`). It says which delimiters are reported (`FaultsReported`): every
closer that meets an opener of another kind or none, with that opener, every opener
that meets no closer, and no other; and none is told twice (`DelimitersReportedOnce`). `EntryPointsAgree`: `parse` refuses with exactly the
list of `parse_recovering` (`StrictAgrees`), and only for cause
(`RefusedOnlyForCause`). `ReportOrderedAndCapped`, `EarliestKept`.

*Token shaping.* `RunsAreSound`: runs tile the tokens, none is the whole fragment
(so the parsing of fragments in fragments ends), and in well-nested input a merged
run is balanced. `ReservedPipeSurvives`. `LegacyLabelsConsistent`: what the scan
merges the check on the fragment admits. `ContextsRespected`: the dotted name
after CALL stays as it is however long, and completed brackets hide their
contents from the context tests.

*Nested fragments.* `ReportsFarthestSplit`; `SplitsAreSound`: every split finds a
separator at the top, no later than the reserved pipe, and its parts are all of
the fragment but brackets, binding, WHERE and separator. That speaks of input
whose delimiters nest: in `[->|(][)->|x]` the scan for the first pipe merges the
rest of the fragment from the second bracket on into one run, no closing bracket
is left, and the fragment is refused at its start. The instance contains such
fragments.

*Lexer and splitter.* `LexesFaithfully`: tokens tile the text, diagnostics are the
invalid ones, and a fragment lexes as it did in place. `DecoderAgrees`: the decoder
reads an accepted literal unit by unit as the lexer did. `StatementsAsLexed`:
statements are cut at the lexer's semicolon tokens and nowhere else, what the
lexer finds open is refused (`SplitsAtSemicolonTokens`), and the lines are right
(`LinesCounted`), in scripts that have no backslash in a backtick name (see below).

*Snippet.* `ShowsTheSpan`: slices in order and on boundaries, one whole line, and the
marker under the cells of the printed line that show the span, or one cell if there
are none (`MarkerCoversSpan`). It begins where these begin, whatever stands before,
and ends where they end; for a span that covers a tab and begins between tab stops the
end is off by less than a tab (see below).

*Artefacts.* `FilesKept`: the parser is whole at every moment and after any loss
of power (`AlwaysWhole`), a `grammar generate` that fails has changed nothing
(`FailureChangesNothing`), and a projection is torn only by a writer that was cut
short or had a rival (`TornExplained`). `VerdictsHold`: when nothing came in
between, success means that the file is the sources'. `LeavesNothing`: no
temporary outlives its command except through a crash or a failed removal, and no
name is used twice. `Recovers`: generating again brings the parser up to date for
good, and a torn projection back.

*Projection.* `ReviewsTellTheSame`: ledger, error steps and tags say the same.
`ProjectionConsistent`: ids are unique and ordered, and all occurrences of a text
agree. `ReportIsHonest`: the gate opens exactly if every occurrence behaves or is
excluded in the right direction and no exclusion is stale, and no count underflows.

*Alias audit.* `SearchIsRight`: the stack is a simple path, the memo is true, and
the verdict is that of reachability.

*Expression trees.* `TreesCoverTokens`: each node spans exactly the tokens read for
it, its parts in their order, no token is used twice, and an accepted sentence is
spanned whole. `GroupedAsRead`: operators group by level and to the left, chained
comparison suffixes do not nest, and brackets become a comprehension exactly if
`x IN list` stands in them without parentheses.

### Finding and divergences

`src/src/lib.rs:163` lists expression-level recovery as out of scope: "Malformed
expressions are not locally repaired." `recover_clauses` keeps clauses that
`recover_expression_operands` repaired (`parser.rs:2778`), as `lib.rs:87` says
further up. The run `recovery_repairs` shows it; the exclusion is stale.

Met while modelling, and stated here because the properties are worded around them:

* `is_pattern_expression_context` (`parser.rs:1000`) skips completed brackets and
  braces on its way back, and parentheses only where it counts them; a WHERE in a
  completed node pattern still announces an expression to what follows.
  `tests/parser_token_context_contract.rs:604` tests the CASE inside braces only.
* `split_cypher_script` (`tck.rs:1348`) has no escapes in backtick names, the
  lexer does (`lexer.rs:164`); after a name with a backslash before its closing
  backtick the script is cut differently from how it is lexed, and where both cut
  alike the line of the next statement may be wrong: the splitter takes a line end
  that it believes escaped in a string for none, and the lexer sees it in a
  comment. The test at `tck.rs:2221` has no backslash.
* The width of a tab depends on its column, and `snippet` measures the marked text
  from column zero of its own (`diagnostic.rs:465`), while lines 194-195 describe
  tabs as expanding to stops: a marker over a tab may end elsewhere than the text,
  by less than a tab.
* `split_comprehension_source` (`parser.rs:2018`, 2039) takes as the list of a
  comprehension only what binds tighter than IN. The grammar of the standard
  (`openCypher.bnf:852-853`) allows any expression there, and
  `PRODUCTION_MAP.toml:2153-2159` records the production as direct.

### Fairness

`ClauseRecovery` and `ContextualNames` state `WF_vars(Next)`: the functions are
synchronous and nothing can suspend them, so one that can take a step takes it.
No particular action is assumed to be taken. In particular `AbandonRepair` needs
no fairness of its own: insertions are bounded by the code. The generated parser
is assumed to return from each call.

`Artefacts` states weak fairness of each process's own step: a command that was
started goes on unless it is killed. It states strong fairness of starting the
generating command: every error message of `verify` says to run it, and `Recovers`
is about a developer who does. It says nothing of failures, crashes or edits, which
the counters in `left` make finitely many; a world that fails for ever recovers
never. For the parser `Recovers` is "eventually always", with two processes too.
For the projection, which each generate truncates first, it is "again and again",
and for one process: two that truncate each other's work for ever need not.

## Proofs

TLAPS proves every theorem below for all values of the constants: inputs of any
length over any alphabet, any budget and cap, any placement of tokens, any answer
of an external parser, any number of processes, productions and scenarios.

What is assumed is stated by name in the modules: bounds are natural numbers
(`BoundAssumption`); tokens follow each other in the source (`OffsetAssumption`);
an input is a sequence of token kinds and a reserved pipe is a pipe of a fragment
(`SourcesAssumption`); a setting of `Artefacts` names one of the two files and says
how much goes wrong (`SettingsAssumption`); what a map of productions may say
(`ProductionAssumption`); a sentence of `ExpressionTrees` is a sequence of terminals
(`SentencesAssumption`); scenarios start on lines of their own and a query text has a form
(`CorporaAssumption`). TLC evaluates each of them on the instances.

| Module | Theorems |
|---|---|
| `ClauseRecoveryProofs` | `TypeCorrect`, `NothingFollowsReturn`, `RegionsAreMaximal`, `LongestClauseKept`, `TreeAccountsForSource`, `NothingIsLost`, `SpentBudgetKeepsNothing`, `RecoveryImplementsPartition`, `RecoveryIsBounded` |
| `ContextualNamesProofs` | `NamesAreContextual`, `ErrorsAdvance`, `ReportsFarthest`, `ParserCallsBounded`, `LoopIsBounded` |
| `StrictParseProofs` | `PruningIsSound`, `AcceptedQueriesAreWhole`, `TreesAreSound`, `TreesStandForTokens`, `TreesAreGrouped` |
| `DiagnosticsProofs` | `DelimitersReportedRight`, `ReportsInOrder`, `EntryPointsReportAlike`, `EarliestAreKept`, `SnippetsShowTheSpan` |
| `ShapingProofs` | `ScansStayInside`, `RunsAreWhole`, `ReservedPipeComesThrough`, `ContextsAreRespected`, `LabelsReadAlike`, `FarthestIsReported`, `SplitsAreWhole` |
| `LexingProofs` | `LexerInvariant`, `TokensAreFaithful`, `DecoderFollowsLexer`, `SplitterInvariant`, `StatementsAreAsLexed` |
| `TckProjectionProofs` | `ReviewsAgree`, `ProjectionCanBeJudged`, `ReportsAreHonest` |
| `MaintenanceProofs` | `FilesAreKept`, `VerdictsAreTrue`, `NothingIsLeft`, `SearchCorrect`, `SearchEnds` |

Along which argument:

* **Recovery.** `TypeOK` is not inductive: that a span has `start <= end` depends
  on where the open branch and the pending region began. `TypeInv` adds it: the
  branch starts at the cursor and holds nothing, or starts no later than the token
  before the cursor ends; a pending region starts strictly before that; candidate
  ends lie past the cursor. `ShapeInv` says that a RETURN is the last node of the
  open branch and an error region never is. `LongestSoFar`: at each point of a
  search the clause found is the longest valid candidate tried. The ownership of
  tokens is stated as a relation between tokens and nodes, so that counting owners
  becomes that no two nodes of the tree, the open branch and the pending region
  hold the same token and that together they hold all before the cursor. From that
  a step gives a role to the tokens between two cursors and changes no earlier
  one, which is the step `TokenPartition` takes. `SpentInv`: once the head of the
  loop has been reached with the budget spent, the tokens unread then are all still
  ahead and no search finds a clause, or are all in the pending region with the
  loop at its end, or are in the last node of the result.
* **Contextual names.** The invariant couples the two arrays with the errors of
  the loop; the bound on parser calls injects passes into the signatures decided.
* **Strict parsing.** A clause parser is one relation: the token it rejects and
  the slices it accepts. `Reading` is what one branch yields from a cursor,
  `Query` what the search over splits yields; both searches, pruned or not,
  compute them. When every candidate end fails, the farthest error is that of the
  whole branch, and beyond a rejected token no split parses: so what pruning does
  not try could neither succeed nor say anything new.
* **Expression trees.** `TreesSound` says that every node is a tree over what it
  spans, and that the open constructs and the completed operand lie side by side
  from the first token to the last one read: what a frame holds, tokens and
  operands, is where it is going to be in its node. Each operand is of a level its
  rule asks for. The first one of a tail may, once a turn of the loop has folded
  it, be of the operator's own level; with IN it may not, because that rule takes
  one operand on its right. A step opens, extends or closes the innermost frame or
  completes an operand, and there is one lemma for each of these shapes
  (`PushStep`, `ReplaceStep`, `PopStep`, `OperandStep`); `Fold` and `Close`, which
  build from several operands at once, have lemmas about what they build
  (`FoldSound`, `EnclosedSound`, `ComprehensionSound`).
* **Diagnostics.** The stack holds the delimiters that are open in what was read,
  innermost last, and every delimiter read has its partner, is on the stack or is
  reported. Hence nothing is reported exactly when a pairing exists in which no
  two pairs cross. Which closer meets which opener is carried along the same way
  (`MeetingInv`): among the tokens read an opener has met its closer unless it is on
  the stack, so that a closer meets the innermost opener there or none, and what is
  still there at the end meets none. That sorting orders is proved through ranks: how many elements
  do not come after one is its place, and every place is taken once.
* **Shaping.** The scanners are recursive functions that look ahead only; that
  they have values at all is shown by a least counterexample (`LookAhead`), and
  then, backwards, that they stay inside the input. That a merged run is balanced
  takes one argument for each scanner, since each counts delimiters in a way of
  its own; in well-nested input they agree. For a split, the surplus of opening
  delimiters over the runs equals that over the tokens, so that a separator at the
  top of the runs is at the top of the text. Dropping the extra colons of a label
  in the old form numbers the tokens that stay; the scanner is followed through
  the run and through its normal form at once, by that numbering.
* **Lexing.** No scanner sees beyond the token it returns: cut the text anywhere
  after that token, and the same token comes out. That is shown of each scan from
  its end backwards (`QuotedCut`, `CommentCut`, `RunCut`). So what a token is
  depends on where it starts only, and a fragment has the tokens it had in place;
  the decoder, which is handed a literal without its closing delimiter, meets the
  units the lexer met. The k-th diagnostic is found by counting invalid tokens.
* **Splitting.** The splitter's state says where it is in the lexer's tokens
  (`Placed`): at a boundary or inside a word, or in a string, name or comment such
  that what the lexer's scan returns from here on is that token. In a string with
  a doubled delimiter the splitter has closed it and opens it again one character
  later (`Reopened`). Hence it meets a semicolon outside of a delimiter exactly at
  the lexer's semicolon tokens; what it has cut are the pieces between these that
  end before the statement it reads, and at the end it is inside something exactly
  if the lexer's last token is unterminated.
* **Snippets.** Every end of a slice is a boundary because a line feed is a byte of
  its own. The cells that show the bytes up to an offset are as many as the columns
  counted up to there (`TextFills`), which places the marker's start. Its end: counted
  from the start of the line and from the start of the span, columns grow alike until
  the first tab, which takes both to a stop, and alike again behind it, so that they
  differ by what that one tab makes, or not at all from a stop (`SlipIsSmall`).
* **Artefacts.** `ArtefactInv` states what each process may hold at each of its
  steps, that a temporary name has one owner or none, and what a file may contain
  now and after a loss of power; one lemma for each action, and two for the steps
  that disturb other processes and those that do not.
* **Projection.** While projecting, the ids are unique because an id carries the
  line of its scenario, the number of its instance and its own number within it;
  that `FlattenSeq` loses and repeats nothing is proved first. While judging,
  failures and stale exclusions are images of the sets of occurrences that mismatch
  and that are excluded but match; sizes are carried along by one at a time.
* **Alias audit.** The memo is closed and acyclic at every moment: what it says of
  a name follows from what it says of the name's targets, and nothing in it leads
  back into the path on the stack. So it stays true when a search that met a cycle
  ends.
* **Ends.** That a function returns is liveness. What makes it return is a measure
  that every step lowers, and that is safety: `RecoveryIsBounded` counts attempts,
  tokens ahead of the cursor and failed candidates, and bounds the steps of
  recovery by twice the budget and five times the tokens; `LoopIsBounded` counts
  the contexts not decided; `SearchEnds` orders what is left of the audit
  lexicographically: productions, names without an answer, names not called for,
  targets not looked at. Left to TLC is that a step is always possible and, being
  possible, is taken.

The proofs changed the models where these were wrong or not fit to be reasoned
about: two cases of `Artefacts` overlapped; an input of `TokenShaping` was not a
record; `StrictParse` described the clause parser by a recursive construction and
now by the relation it constructs; `Diagnostics` and `TckProjection` sort by
places; the scans of `Lexer` are functions of one position. One property of
`NestedFragments` had to be stated for well-nested input, as described there.
`LinesCounted` was stated for every script the lexer accepts, and is false of one
of fourteen characters, beyond the bounds of the run: a name with an escaped
backtick, and behind it a comment the splitter takes for a string. It now asks, as
its neighbour does, that names have no backslash in them, which in turn is less
than the neighbour used to ask. `ExpressionTrees` was a set of recursive operators
from the top down and is now a stack of open constructs. The first form of that
let a suffix follow `x IS NULL`, which the grammar does not; the invariant was not
inductive there, the guards of `Property` and `Subscript` now say so, and the run
has these sentences.

Only model-checked: `Terminates` (recovery, names) and `Recovers`, which are
liveness under fairness; for the first, the measure is proved. Every safety
property of a run is a theorem, except the one that `recovery_repairs` refutes.

## Not modelled, and the plan

Next, in this order:

1. A module that composes the stages of `parse_recovering`: `StrictParse` inside
   `ContextualNames`, `ClauseRecovery` on refusal, one outcome.
2. Where `recover_expression_operands` puts the error operand, on token kinds.

Left out for good: the generated tables, 133 198 of the 144 469 lines of the
repository's implementation, since a claim about them is a claim about LALRPOP;
the share of the code these modules stand for is therefore small by lines, and
large of what is written by hand in `parser.rs`. Wording and layout of rendering.
The visitor and the AST's types: one line per field, without state. Of the lexer:
the regular expressions of numbers and keywords, `token_kind`. Of the tool:
`postprocess_contextual_names`, which rewrites text line by line and is verified by
the byte comparison of `grammar verify`; pinned counts, `table_row_lines`,
`gherkin_compatible_source`; the audits that compare TOML ledgers with the
repository field by field, without any state between steps.
