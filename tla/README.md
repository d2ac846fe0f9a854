# TLA+ models of the "Essentials of interpretation" evaluator

This directory holds TLA+ models of the Lisp interpreter in `src/`. They are
checked with TLC. The core is the lesson-7 interpreter
(`src/CS-61A/src/misc/jison/infix/grammar.y`, lines 23-720). It is:

- modelled as a small-step machine;
- checked for well-formedness and termination;
- shown to refine an abstract semantics written from `spec.md`, on the programs
  that `spec.md` gives a meaning to.

On the programs where the code does something else, a violation run shows the
disagreement.

## 1. Inventory

### Parts of the system

| Part | Source | State | Operations |
|---|---|---|---|
| Expression model, cond desugaring | grammar.y 170-477 | none (pure) | isSelfEvaluating, isVariable, isTaggedList, the getters, makeFunction, makeLambda, makeBegin, makeIf, sequenceExpression, expandCondClauses, condToIf |
| Environments | grammar.y 485-530 | JS objects chained by prototype: TheGlobalEnvironment → Object.prototype | lookupVariableValue, defineVariable, setVariableValue, extendEnvironment |
| Built-ins | grammar.y 632-676 | the bindings of TheGlobalEnvironment | `> = null? + - print`, `null`, the global `toString` |
| Evaluator / applier | grammar.y 102-167, 533-627 | the JS call stack of the recursive evaluate/apply | evaluate (9 cases and a fall-through), apply, evalDefinition, evalAssignment, evalIf, evalSequence, applyBuiltInFunction, applyUserDefinedFunction |
| Test script | grammar.y 684-707 | — | top-level `evaluate(parse(...))` calls |
| Lesson 4 evaluator | grammar.y 723-1204 | global object | evaluate, apply, define, built-ins (no user functions) |
| Lesson 5 evaluator | lesson-5.js | as lesson 7 | user functions without closures |
| Lesson 6 evaluator | unnamed/part_002 | as lesson 7 | lambdas, closures, begin (no if/cond) |
| Pairs and lists | notes/note-3.js 35-247 | closures (linked) or flat arrays (efficient) | pair, first, rest, list, in two implementations |
| Prefix calculator | notes/note-3.js 315-354 | operand stack | evaluate |
| Postfix calculator | unnamed/part_000 | operand stack | postfixEval |
| S-expression parser | notes/note-2.js 44-99 | none (pure) | parse: lesson 5's isVariable/isSelfEvaluating, four regex rewrites, JS `eval` |
| Jison grammars | grammar.y 1-22, unnamed/part_001 | — | parser-generator input |

### How the parts interact

- A top-level `evaluate` classifies its expression (the predicates) and
  dispatches on it.
- For an application, `evaluate` evaluates the operator, then each operand left
  to right, then calls `apply`.
- `apply` runs a native through `procedure.apply(null, args)`. For a function
  object it calls `extendEnvironment`, which does `Object.create` of the
  closure's environment, and then runs `evalSequence` on the body.
- `cond` is rewritten by `condToIf` on every evaluation, and the result is
  re-evaluated.
- The test scripts pass `parse(string)` (note-2.js) to `evaluate`. `parse`
  rewrites the s-expression into JavaScript array syntax and `eval`s it.
- An exception (a `ReferenceError`, the string thrown on a count mismatch, a
  `TypeError` from the host) unwinds everything. No code catches it.

### Hard behaviours

- Closures write into the frames of calls that have returned.
- `set!` walks the chain calling `hasOwnProperty`. That method is itself
  resolved on the scope chain.
- Several JS conversions steer the control flow:
  - `String(array)` in the `isVariable` regex;
  - `isNaN`;
  - `==` in `isTaggedList`;
  - `|| false` in `getIfAlternative`.
- A throw in the middle of a statement leaves the side effects made so far.
- Recursion must reach its base case.
- Lessons 4, 5 and 6 are earlier versions of the same interpreter. Each one
  differs from lesson 7 in a few cases, and each must still implement the
  language of `spec.md` on its own test script.
- The two calculators depend on the order in which a stack pops its
  operands, and they return whatever is left on the stack.
- The efficient lists of note-3 store a list as one flat array. Every
  function must agree with the linked version on every list a client can
  build.

PROJECT.json lists each hazard at its source line.

## 2. Modules

### Lesson 7 (the core)

| Module | Models | Correspondence |
|---|---|---|
| `JSValues` | JS values and conversions | Each value is a record tagged by its JS type. `JSToString` is `String()` (arrays joined with `,`). `JSIsNaN` is `isNaN`. `JSTruthy` is `ToBoolean`. `JSLooseEqStr` is `x == "tag"`. TLC strings are atomic, so the regex and the numeric-string tests are decided by membership in the constants `RegexNames` and `NumericStrs`. |
| `Builtins` | grammar.y 551-553, 632-676, 1106-1125 | `applyBuiltInFunction(procedure, args)` returns `[val, printed]` or `[thrown]`. `+` and `-` are `[].reduce.call`, which throws a TypeError on no arguments. `Lesson4Math` gives lesson 4's `/ min max abs`. A string concatenation or NaN result is one untracked value. |
| `Environment` | grammar.y 485-530 | `frames` is a heap of `[vars, parent]`. Frame 1 is Object.prototype (constructor, hasOwnProperty, valueOf, toString) and frame 2 is TheGlobalEnvironment. `Object.create` appends a frame. `setVariableValue` follows the do-while loop, including the `hasOwnProperty` it looks up on the chain, and the `null[variable] = value` TypeError when the loop runs off the chain. |
| `Syntax` | grammar.y 170-477, 579-598 | The predicates, getters and constructors, kept faithfully: the one-element `isVariable` case, `makeBegin`'s nesting, `|| false`. `expandCondClauses` is RECURSIVE. |
| `Evaluator` | grammar.y 102-167, 533-627, 684-707 | The recursive evaluate/apply as a machine (see below). Parameterised by `SpecialForms`, `GlobalBindings`, `Program` and `MaxTopLevel`, so that the earlier lessons reuse it. |
| `MCEvaluator` | — | The program pool (ASTs as note-2's parser produces them) and the constants. `Busy` and `Termination` are defined here. |
| `LispSemantics` | spec.md 3, 4, 7 | The abstract specification. `Ev`, `EvSeq`, `EvArgs`, `ApplyProc` and `Expand` are RECURSIVE operators. One `Step` evaluates a whole top-level expression. The error kinds are UnboundName, ArityMismatch, NotCallable, MisplacedElse, MalformedExpression, plus NativeError for errors a native throws. |
| `HostMapping` | — | The part of the refinement mapping that every lesson shares: `Visible` drops the host's own properties, `ErrorKind` renames exceptions, `LanguageBindings` is the global frame without `toString`. |
| `MCLispRefinement` | — | The history variable `snap`, the refinement mapping, `Refinement`, and the pools of the violation runs. |

### Lessons 4, 5 and 6

Each earlier lesson is a module that EXTENDS `Evaluator`. It redefines only
the actions its code does differently and gives its own next-state relation.
Its constants (globals, special forms, names) come from the MC module.

| Module | Source | What differs from lesson 7 |
|---|---|---|
| `Lesson4` | grammar.y 723-1204 | TheGlobalEnvironment is `Object.create(null)` (`InitialFrames4`). `define` has no function sugar (`evalDefinition4`). Every non-native `apply` throws "User-defined functions are not implemented yet." (`applyUserDefinedFunction4`). No set!, lambda, begin, if or cond. |
| `Lesson5` | lesson-5.js | Only define and set! are special forms. A function object saves no environment, and `apply` always extends TheGlobalEnvironment. `evalDefinition5` evaluates a variable's value with `evaluate(value)`, in TheGlobalEnvironment. |
| `MCLesson5`, `MCLesson5Refinement` | lesson-5.js 619-646 | Lesson 5's test script: each program is `parse` (module `Parser`) of the string the script passes it, and equals the hand-written AST of earlier versions, its constants, and its own refinement to `LispSemantics`. |
| `Lesson6` | unnamed/part_002 98-172 | `Next6` is lesson 7's relation without `evalIf`, `EvalCond` and `EvalIfBranch`. Closures, `set!`, `lambda` and `begin` are lesson 7's code. |
| `MCLessons` | — | The test scripts of lessons 4 and 6 (plus the lesson-5 pool from the cfg). A variable `lesson`, chosen at Init, selects the interpreter. `LessonsRefinement` states, for each lesson, the refinement to its own instance of `LispSemantics`. |

### The notes: calculators and lists

| Module | Source | Correspondence |
|---|---|---|
| `JSNumbers` | unnamed/part_000 23-40 | JS numbers as exact rationals plus ±Infinity and NaN (`-0` is not told apart from `0`). `ToNumber` is unary `+`; `Operate` is the four operators, division by zero included. |
| `Postfix` | unnamed/part_000 23-64 | `postfixEval` as a loop: `string`, the loop index `k`, `stack`, `result`. `Iteration` is one pass of the for loop. `ReturnResult` is the check after it, and `Done` is the stutter after the return. A digit is pushed as its string and converted when it is popped. The reference semantics (`Tree`, `Forest`) reads `E ::= digit | E E op` from the right. |
| `Prefix` | note-3.js 315-354 | `evaluate` scans from the last character to the first (`cursor`). An operator pops its left operand first, then its right one. `ReturnResult` returns `stack[0]` with no check. The reference reads `E ::= digit | op E E` from the left. |
| `PairValues` | note-3.js | The values a client holds: numbers, null, undefined, arrays, and a thrown marker. `Calls` enumerates the calls a client can make. |
| `ListsV1` | note-3.js 35-100 | The linked implementation: `pair` is a two-element array, `list` builds pairs from the right ending in null. |
| `ListsV2` | note-3.js 176-247 | The efficient implementation: `pair` concatenates onto an array, `rest` slices (or returns the second element of a two-element array), `list` is the arguments followed by null. `Linked` is the data refinement to the linked form. |
| `Parser` | note-2.js 44-77, lesson-5.js 160-168 | `parse` as an operator on a sequence of glyphs. A glyph is one character or a run of letters (`define`, `set-x`): every regex of `parse` sees characters by class only, so a run of letters acts as one glyph. `trim`, `Brackets`, `Commas` and `Quote` are the four rewrites. `Quote` puts a maximal run of `[^,\[\]0-9]` in quotes exactly when `,` or `]` follows it (the lazy match with a lookahead). `eval` is a lexer (`Lex`), a recursive-descent parser (`Expression`, `Element`, `ArrayRest`, `Accessors`) and an evaluator (`Evaluate`, `GetProperty`) for the JavaScript the rewrites can produce: array literals with elisions, string and number literals, identifiers (a ReferenceError), property access and the comma operator. |
| `ParseCall` | note-2.js 44-77 | One call of `parse` on an input string (`Call`, then `Done`). The reference reading of s-expressions (`SExprTokens`, `Datum`, `DatumList`): an all-digit atom is a number, any other atom a string, a list an array. `Canonical` is the layout the notes write (one space between tokens, none inside parentheses); `PlainAtoms` excludes atoms mixing digits with other characters. |
| `SExprTexts` | note-2.js 80-99, lesson-5.js 619-646 | The strings the two scripts pass to `parse`, as glyph sequences. |
| `MCNotes` | note-3.js 60-114, 215-261, 364-374 | The four programs in one model. A variable `note`, chosen at Init, selects which runs. `V1` is `ListsV1` instanced with `heap <- Linked(heap)`, so the lists refinement is checked call by call. The client of the lists starts from the literals 1, 2, null, or from `p`, `foo` and `bar` as each implementation's test script builds them (`ScriptHeapV1`, `ScriptHeapV2`). `PrefixTests` are the strings of note-3's prefix tests. |

In both list modules, `heap` is the sequence of values the client holds.
`Call` picks one function and arguments from `heap` and appends the result.
`call` records the last call, so that V1 and V2 take the same call in one
step.

### The Evaluator machine

`ctl` is the innermost call. It is one of:

- `eval(exp, env)`;
- `ret(val)`;
- `apply(proc, args)`;
- `idle`, between top-level calls;
- `threw`.

`stack` holds the callers waiting for its value, innermost first. Each caller
is one of: `sequence` (the rest of an evalSequence), `definition`,
`assignment`, `if`, `operator` (operands not started), `arguments` (the values
so far and the operands left).

Each evaluate case is one action (`EvalSelfEvaluating` … `EvalUnrecognized`).
Each point where a caller resumes is one action (`DefineVariable`,
`SetVariableValue`, `EvalIfBranch`, `EvalOperands`, `EvalArgument`,
`EvalSequenceNext`). Each apply case is one action (`ApplyBuiltInFunction`,
`applyUserDefinedFunction`, `ApplyOther`).

Each action has the guards and results of its code:

- `evalDefinition` evaluates the value first, then `defineVariable`.
- `setVariableValue` prints whatever a native `hasOwnProperty` replacement
  prints.
- `apply` of null or undefined throws when it reads `procedure[0]`. Any other
  non-procedure returns undefined.

A throw (`Raise`) empties the stack and ends the script. `Terminating` is the
stutter at the end of a script.

## 3. Runs

| Run | Module / cfg | Expect | Checks | Distinct states |
|---|---|---|---|---|
| `evaluator_types_termination` | MCEvaluator / MCEvaluator.cfg | pass | `TypeOK`, `Termination`: all 24 programs, scripts of up to 4 | 74,411 |
| `refines_semantics` | MCLispRefinement / MCLispRefinement.cfg | pass | `Refinement`: the programs of `SpecPool`, scripts of up to 5 | 65,587 |
| `lessons_refine_semantics` | MCLessons / MCLessons.cfg | pass | `LessonsRefinement`, `Termination`: lessons 4 and 6 on scripts of up to 4, lesson 5 up to 5 | 37,917 |
| `notes_match_reference` | MCNotes / MCNotes.cfg | pass | `PostfixTypeOK`, `PrefixTypeOK`, `ParseTypeOK`, `PostfixStackInvariant`, `PostfixCorrect`, `PostfixMultiDigitRejected`, `PrefixResult`, `ParseCorrect`, `ParseMisreadsVisibly`, `ParseMixedAtomsFail`, `ParseSeveralGivesLast`, `ListsRefinement` | 820,620 |
| `zero_operand_call` | MCLispRefinement / MCLispZeroArg.cfg | violation | `(define (tick) ...)`, `(tick)` | |
| `cond_clause_actions` | MCLispRefinement / MCLispCondActions.cfg | violation | a cond clause of two actions | |
| `falsy_alternative` | MCLispRefinement / MCLispFalsyAlt.cfg | violation | `(if (null? x) 1 0)` | |
| `falls_off_end` | MCLispRefinement / MCLispFallsOffEnd.cfg | violation | `(print #t)` and `(x 1)` with x a number: evaluate and apply end with no final case | |
| `host_name_breaks_set` | MCLispRefinement / MCLispHostName.cfg | violation | `(define hasOwnProperty 0)` then a `set!` | |
| `host_binding_visible` | MCLispRefinement / MCLispHostBinding.cfg | violation | `(print constructor)` | |
| `lesson5_local_define` | MCLesson5Refinement / MCLesson5LocalDefine.cfg | violation | `(define (twice x) (define m (+ x x)) m)`, `(twice 3)` | |
| `postfix_rejects_malformed` | Postfix / MCPostfixMalformed.cfg | violation | `RejectsMalformed` | |

Each pass run finishes in under 35 seconds, except `notes_match_reference` (about 90 seconds).

### The properties

- **`TypeOK`** (Evaluator) covers the types and four structural facts:
  - every environment that a frame, a call or a waiting caller refers to is an
    existing frame;
  - a frame's parent was created before the frame, so every prototype chain is
    finite;
  - the top level returns, and a throw unwinds, only with no caller left;
  - `thrown` is set exactly when the machine has thrown.
- **`Termination`** (MCEvaluator, and inherited by MCLessons):
  `[](Busy => <>~Busy)`. Every top-level evaluate returns or throws. In the
  lessons run it holds for lessons 4, 5 and 6 on their own scripts.
- **`Refinement`** (MCLispRefinement): `Abs!SafetySpec`. Every step of the
  interpreter is a step of `LispSemantics` or a stutter of it. It checks:
  - values, closure scoping and `set!` on the nearest binding;
  - `define` in the current frame;
  - the order of operands and their output;
  - arity errors, unbound names and misplaced else;
  - the store at the point of an error.
- **`LessonsRefinement`** (MCLessons): the same refinement for each of
  lessons 4, 5 and 6, each against an instance of `LispSemantics` with its
  own globals and programs. It shows that:
  - lesson 4's missing Object.prototype and missing functions;
  - lesson 5's global-only function frames;
  - lesson 6's missing conditionals

  make no difference on the programs of their own scripts. Lesson 6's pool
  has a closure counter `(make-counter 0)` and `(tick 1)`, whose `set!`
  writes the frame of a finished call.
- **`PostfixStackInvariant`** (Postfix) is the loop invariant of
  `postfixEval`. Whenever the characters read so far form a sequence of
  complete expressions, the stack holds their values, bottom first.
- **`PostfixCorrect`**: a well-formed input returns its reference value,
  after conversion, and is never rejected.
- **`PrefixResult`**: for every input that is a sequence of one or more
  complete prefix expressions, `evaluate` returns the value of the last one.
  For a single expression, this is its value. For more than one, it is what
  `return stack[0]` gives with no check: the bottom of the stack, which holds
  the rightmost expression. So `"+ 15 2"` returns 2.
- **`PostfixMultiDigitRejected`**: an input that would be well formed if
  each number were read whole, but that has a number of two or more digits,
  is always rejected with ParseError. `postfixEval` pushes each digit as an
  operand, so the extra operands stay on the stack and the check after the
  loop throws. `"12 3 +"` leaves 1 and 5 on the stack. It is never
  misread as some other value. The run takes the script's three test strings
  as inputs too.
- **`PostfixTypeOK`** and **`PrefixTypeOK`**: the stack holds only digit
  strings and numbers.
- **`ParseTypeOK`**: `parse` returns a number, a string, undefined, NaN or an
  array of these, or throws one of eval's errors. The rewritten text is always
  JavaScript that the modelled subset of `eval` covers.
- **`ParseCorrect`**: every canonically written s-expression whose atoms are
  numerals or digit-free names parses to its reading.
- **`ParseMisreadsVisibly`**: a well-formed s-expression with such atoms, in
  any layout, parses to its reading, throws, or gives an array holding
  undefined. It never parses silently to some other plausible value.
- **`ParseMixedAtomsFail`**: a well-formed s-expression with an atom mixing
  digits and other characters, such as `x1`, never parses to a value. On its
  own, the atom passes `isVariable` and `Number` gives NaN. Inside a list, the
  quoting run stops at the digit. `eval` then meets an unbound identifier
  (`(x1)`) or a literal next to a literal (`(1x)`) and throws.
- **`ParseSeveralGivesLast`**: `parse` is written for one s-expression.
  Given several in a row, written the notes' way, it returns the reading of
  the last one and gives no sign of the others. The spaces between them
  become commas, and `eval` reads a comma expression: `"x 1"` is 1 and
  `"(x) (1)"` is `[1]`. The one exception is a last s-expression that is a
  bare name. Nothing follows it, so the quoting lookahead leaves it unquoted
  and `eval` throws a ReferenceError (`"1 x"`).
- **`ListsRefinement`** (MCNotes): on every sequence of calls a client can
  make, each result of the efficient pair/first/rest/list, mapped by
  `Linked`, is the result of the linked version.
- **`RejectsMalformed`** (Postfix, violation run): every malformed input
  throws.

### The refinement mapping

`snap` records `frames` and `out` when a top-level evaluate starts. It also
records the expression being evaluated (`exp`) and the one before it
(`prev`). While the evaluate runs, the abstract state is:

- `snap`;
- `count - 1`;
- the previous result;
- `prev` as the last expression evaluated.

`LispSemantics` keeps the expression of its last step in `evaluated`. The
mapping sends `evaluated` to `snap.exp` once the evaluate has ended. So each
abstract step evaluates the expression the interpreter actually evaluated,
not just some program of the pool that happens to give the same result.

The step that returns or throws is the abstract `Step`. The mapping then:

- drops the host's own properties: the Object.prototype frame, and the global
  `toString` while it is still the native;
- gives the global frame no parent;
- renames the exceptions:
  - ReferenceError → UnboundName;
  - the count-mismatch string → ArityMismatch;
  - the cond error → MisplacedElse;
  - the TypeError of reading `null[0]` in apply → NotCallable;
  - lesson 4's "not implemented" error → NotCallable;
  - a native's TypeError → NativeError.

`Refinement` checks safety only. The liveness half of `Abs!Spec` is
`Termination` in the other run. TLC cannot evaluate `ENABLED` of the abstract
step through the mapping.

### What the runs show

- The four pass runs hold.
  - On `SpecPool`, lesson 7 implements `spec.md`'s semantics. The pool
    includes closures that update a finished call's frame, shadowing
    `define` in a body, recursion, cond with else, `begin`, print order,
    arity errors, `set!` of an unbound name, and applying null.
  - Lessons 4, 5 and 6 implement it on their own scripts.
  - Both calculators compute the reference value of every well-formed input
    of up to 5 characters, and of the prefix note's four tests.
  - `parse` reads the strings of both scripts, and every canonical
    s-expression of up to 7 glyphs, exactly. Lesson 5's script programs are
    the ASTs `parse` produces, so the lesson 5 runs check `parse` and lesson 5
    together.
  - Other layouts go wrong, but only visibly:
    - `"( x)"` gives `[undefined, "x"]`;
    - `"(x(1))"` throws a ReferenceError;
    - `"(1(1))"` gives `[undefined]`.
  - The efficient lists agree with the linked ones on lists of one or two
    elements, and on `p`, `foo` and `bar` of the test script (`bar` is
    `list(1, 2, 3, 4)`) with any three calls on them.
- The eight violation runs are disagreements between the code and `spec.md`,
  a comment or a test. The findings in PROJECT.json describe them. The plain
  code bugs are:
  - `makeBegin` nests the action array. The file's own test has a two-action
    cond clause but never takes it.
  - A program binding of `hasOwnProperty` breaks every later `set!`.
  - Lesson 5 evaluates a local definition's value in TheGlobalEnvironment, so
    `(twice 3)` reads the global `x` instead of the parameter.
  - `postfixEval` accepts the empty string (returns undefined) and an
    operator without operands (returns NaN).
- **Empty list.** With `list()` allowed (arity 0), TLC finds
  `ListsRefinement` violated: the efficient `list()` is `[null]`, the linked
  one is `null`, and `first` of them differ. This is recorded as a hazard
  (note-3.js:245), not as a run. The `notes_match_reference` run uses
  arities 1 and 2.
- Each property of a pass run has a mutant that TLC kills:
  - the top level returning with callers still waiting (`TypeOK`);
  - `evalSequence` not advancing (`Termination`);
  - `apply` extending TheGlobalEnvironment, as lesson 5 does (`Refinement`);
  - lesson 5's definition evaluated in the global environment
    (`LessonsRefinement`);
  - a calculator pushing operators as operands (`*TypeOK`);
  - swapped operand order (`PostfixStackInvariant`);
  - the top of the stack returned instead of `stack[0]` (`PrefixResult`);
  - `)` left unreplaced (`ParseTypeOK`);
  - the quoting lookahead without `]` (`ParseCorrect`);
  - `isVariable`'s regex without its anchors, which takes `" x"` for a
    variable (`ParseMisreadsVisibly`);
  - the check after the loop testing `>= 1`, which rejects a stack of one
    value (`PostfixCorrect`);
  - the check after the loop testing `> 2` instead of `> 1`
    (`PostfixMultiDigitRejected`);
  - the quoting regex's class without `0-9` (`ParseMixedAtomsFail`);
  - the quoting lookahead without `]` (`ParseSeveralGivesLast`);
  - `evalSequence` not advancing, in the lessons run (`Termination`);
  - `rest` slicing already at length 2 (`ListsRefinement`).

## 4. Bounds, and why they are enough

- **Evaluator.** The pool has each control path of the evaluator at least
  once, and the scripts combine them in every order up to the bound. For
  example: `(c 1)` before and after `(define c (make 10))`, `set! y` before
  and after the `begin` that defines `y`, and cond with x unbound, 1 or
  larger.
  - **4 top-level expressions** for the 24-program pool.
  - **5 top-level expressions** for `SpecPool`.
  - Every action of `Evaluator` fires in the first run.
  - Numbers stay within -20..20, the set for which `NumericStrs` decides
    `isNaN` of a string.
- **Lessons 4 and 6: 4 top-level expressions.** This is enough to define x
  and y and use both, or to build a counter and call it. Lesson 5 uses 5, as
  in its script.
- **Calculators: inputs of up to 5 characters** over `0 1 2 + - * /` and
  space. This covers:
  - every operator over every pair of operands;
  - division by zero, giving ±Infinity and NaN;
  - Infinity fed to a further operator, as in `1 0 / 0 *`;
  - underflow, and leftover operands;
  - separators next to each other.
  Larger digits do not take any new path in the code. Inputs such as
  `12 +` already have multi-digit numbers. The postfix machine also takes
  the script's three tests, up to 17 characters, and the prefix run takes
  the note's four tests, up to 13 characters.
- **Parser: every string of up to 7 glyphs** over `( ) x 1` and space
  (97,656 strings), plus the strings of both scripts. Sequences of length 7
  are long enough for:
  - nesting two deep, `((x))`;
  - a list after an atom, `(x (1))`;
  - an empty list inside a list;
  - every misplaced space, including two spaces in a row;
  - an atom against a parenthesis, `(1(1))`;
  - two s-expressions in a row.
  The scripts add names of several characters, `+`, `*`, `set!`, `'hello`,
  and numerals of two and three digits.
- **Lists: a client of 6 values.** It starts with 1, 2 and null, or with
  the script's `p`, `foo` and `bar`, and makes three calls, with lists of arity 1 or 2. This reaches:
  - `rest` of a one-, two- and three-element array (the three branches at
    note-3.js 204-214);
  - `pair` onto a list and onto a number;
  - `first`/`rest` of null, which throw;
  - the script's `first(rest(rest(bar)))` and `rest` of a five-element array.

## 5. Fairness

The interpreters and calculators are one synchronous JS thread. Whenever a
step is enabled the thread takes it, so the `Spec` of `Evaluator` and the
calculators have `WF_vars(Next)`. MCLessons uses `LessonsFairSpec`, the
same weak fairness of the whole next-state relation of the three lessons,
to check `Termination`. Nothing else is assumed. The notes run checks only
safety properties, so its specification has no fairness.

## 6. Not modelled, and the plan

- **Jison grammars.** Out of scope: they are input to a parser generator,
  and the code generated from them is not in the repository. The lesson 7
  and lesson 4/6 models start from the AST.
- **Parser: strings and quotes inside `eval`.** A quote character inside the
  text, as in `(print 'hello world)`, is kept inside a quoted run. A string
  value that is indexed (`'x'[1]`) is not modelled, and no input reaches it
  (`ParseTypeOK`).
- **Console formatting.** `print` records its argument list.
- **Values the code does not track.** String concatenation and NaN from
  natives are one untracked value.
- **Postfix: multi-digit numbers.** Tokens are single characters, as in the
  file's examples. `"12"` is two operands. The reference semantics uses the
  same tokens, and `PostfixMultiDigitRejected` checks that such input is
  always rejected.
- **Duplicate parameter names.** `extendEnvironment` binds from the last
  parameter to the first, so the first of two equal names wins. `spec.md`
  does not say which binding wins, so no property constrains it.
- **Names outside the `isVariable` class of lessons 4-6.** The regex of
  lessons 4, 5 and 6 has no `? ! = > <`, so `(define done? 1)` binds `d`:
  `getDefinitionName` indexes the string. The model's names are atomic, no
  script uses such a name, and no run slot is left for a violation run.
- **What stays open.** Each item below is known and deliberately not checked:
  - The empty-list divergence (note-3.js:245) and the `isVariable` names of
    lessons 4-6 would each need a violation run of their own. All twelve
    run slots hold other questions.
  - Lesson 5's apply on a function defined inside another function. Lesson 5
    has no closures, so only top-level functions are in its pool.
