---------------------------- MODULE Interpreter ----------------------------
(***************************************************************************)
(* The Lisp interpreter over the objects: a client parses forms, evaluates *)
(* what was parsed in any order and as often as it likes, prints results   *)
(* and collects garbage.  Evaluation is one call, that is an operator from *)
(* memory to memory; what it may do half way shows in the next state.      *)
(* A source text is a tuple of texts, or a record with a type and a value. *)
(***************************************************************************)
EXTENDS ObjectHeap

CONSTANTS
    Texts,     \* the programs that may be parsed: sequences of forms
    MaxForms,  \* bound: nothing is parsed after so many forms
    MaxRuns    \* bound: evaluations

ASSUME BoundsAssumption == MaxForms \in Nat /\ MaxRuns \in Nat

VARIABLES
    mem,    \* objects, symbol tables, the error and the assertion
    text,   \* the forms that were parsed
    result, \* the object that the last call returned
    last    \* the last call, the last form that was run, and how many were

vars == <<mem, text, result, last>>

\* What rq_interpreter_builtin_core, _math and _string register.
Builtins == <<"setq", "if", "progn", "princ", "defun", "+", "-", "*", "/", "string-equal">>
-----------------------------------------------------------------------------
\* rq_interpreter_parse_object, rq_interpreter_parse_form and
\* rq_interpreter_parse_quote: a cons for each element, and then the element.
RECURSIVE ParseObject(_, _), ParseForm(_, _)
ParseObject(m, f) ==
    CASE f.type = "form" -> ParseForm(m, f.of)
      [] f.type = "quote" ->
            LET p == Alloc(m, Plain("nil"))
                id == Alloc(p.m, Named("id", "quote"))
                q == Alloc(id.m, Plain("nil"))
                o == ParseObject(q.m, f.of)
            IN Ret([o.m EXCEPT !.heap[q.val] = Pair(o.val, Nil),
                               !.heap[p.val] = Pair(id.val, q.val)], p.val)
      [] f.type = "id" /\ f.name = "t" -> Ret(m, True)
      [] f.type = "id" /\ f.name = "nil" -> Ret(m, Nil)
      [] OTHER -> Alloc(m, [Number(f.type, f.num) EXCEPT !.name = f.name])
ParseForm(m, fs) ==
    IF fs = <<>> THEN Ret(m, Nil)
    ELSE LET p == Alloc(m, Pair(Nil, Nil))
             o == ParseObject(p.m, Head(fs))
             rest == ParseForm(o.m, Tail(fs))
         IN Ret([rest.m EXCEPT !.heap[p.val] = Pair(o.val, rest.val)], p.val)
-----------------------------------------------------------------------------
Stopped(m) == m.halt # "" \/ m.err
SignalError(m) == Ret([m EXCEPT !.err = TRUE], Nil)

\* rq_object_list_size: -1 for what is no list, and -2 for a list that does not end
\* with nil, in which the assertion fails.
RECURSIVE ListSize(_, _)
ListSize(m, a) ==
    IF ~Is(m, a, "cons") THEN -1
    ELSE IF IsNil(m, Cdr(m, a)) THEN 1
    ELSE LET n == ListSize(m, Cdr(m, a)) IN IF n < 0 THEN -2 ELSE n + 1

RECURSIVE Eval(_, _), EvalFunc(_, _, _), BindArgs(_, _, _), Progn(_, _, _),
          Setq(_, _), Princ(_, _, _), PrincList(_, _), Arith(_, _, _, _, _)

\* The loop of rq_func_progn and of rq_interpreter_eval_func's body: the value of the
\* last, or what was there before.
Progn(m, list, val) ==
    IF m.halt # "" \/ IsNil(m, list) THEN Ret(m, val)
    ELSE IF ~Is(m, list, "cons") THEN Halt(m, "assert")
    ELSE LET r == Eval(m, Car(m, list)) IN Progn(r.m, Cdr(r.m, list), r.val)

\* The loop that binds the arguments: each is evaluated among those that are bound.
BindArgs(m, names, args) ==
    IF m.halt # "" \/ IsNil(m, names) \/ IsNil(m, args) THEN m
    ELSE IF ~Is(m, Car(m, names), "id") THEN Halt(m, "assert").m
    ELSE LET v == Eval(m, Car(m, args))
             b == IF v.m.halt # "" THEN v.m
                  ELSE SymbolSetLocal(v.m, v.m.heap[Car(v.m, names)].name, v.val)
         IN BindArgs(b, Cdr(b, names), Cdr(b, args))

\* Slip: the block of a call is not left.
EvalFunc_Leaves(m, f, args) ==
    IF ~Is(m, f, "cons") THEN Halt(m, "assert")
    ELSE IF ListSize(m, args) = ListSize(m, Car(m, Cdr(m, f)))
    THEN Progn(BindArgs(Push(m), Car(m, Cdr(m, f)), args), Cdr(m, Cdr(m, f)), Nil)
    ELSE SignalError(m)

\* rq_interpreter_eval_func.  A block that is entered with the wrong number of
\* arguments is not left.
EvalFunc(m, f, args) ==
    IF ~Is(m, f, "cons") THEN Halt(m, "assert")
    ELSE IF ~(Is(m, Car(m, f), "id") /\ m.heap[Car(m, f)].name = "lambda") THEN Ret(m, Nil)
    ELSE LET names == Car(m, Cdr(m, f))
             body == Cdr(m, Cdr(m, f))
         IN CASE ListSize(m, names) = -2 \/ ListSize(m, args) = -2 -> Halt(m, "assert")
              [] ListSize(m, names) # -2 /\ ListSize(m, args) # -2
                    /\ ListSize(m, names) # ListSize(m, args) -> SignalError(Push(m))
              [] OTHER -> LET r == Progn(BindArgs(Push(m), names, args), body, Nil)
                          IN IF r.m.halt # "" THEN r ELSE Ret(Pop(r.m), r.val)

\* rq_func_setq.  The list ends with the global nil, or is walked over its end.
Setq(m, p) ==
    IF m.halt # "" THEN Ret(m, Nil)
    ELSE IF ~Is(m, p, "cons") \/ ~Is(m, Cdr(m, p), "cons") THEN Halt(m, "assert")
    ELSE LET r == Eval(m, Car(m, Cdr(m, p)))
             c == IF r.m.halt # "" THEN r ELSE Clone(r.m, r.val)
             id == IF c.m.halt # "" THEN c ELSE CoerceText(c.m, Car(c.m, p), "id")
             next == Cdr(m, Cdr(m, p))
         IN CASE id.m.halt # "" -> id
              [] id.m.halt = "" /\ id.m.heap[Car(m, p)].type # "id" -> Halt(id.m, "null")
              [] OTHER -> LET s == SymbolSet(id.m, id.m.heap[Car(m, p)].name, c.val)
                          IN IF next = Nil THEN Ret(s, r.val) ELSE Setq(s, next)

\* rq_func_if: the first branch is for nil, and an else that is not there has a value
\* that was never set.
If(m, args) ==
    IF ~Is(m, args, "cons") \/ ~Is(m, Cdr(m, args), "cons") THEN Halt(m, "assert")
    ELSE LET r == Eval(m, Car(m, args))
             branches == Cdr(m, args)
         IN CASE r.m.halt # "" -> r
              [] r.m.halt = "" /\ r.val = Wild -> Halt(r.m, "wild")
              [] r.m.halt = "" /\ r.val # Wild /\ IsNil(r.m, r.val) -> Eval(r.m, Car(r.m, branches))
              [] OTHER -> Progn(r.m, Cdr(r.m, branches), Wild)

\* rq_func_defun: the function shares its parameters and its body with the text.
Defun(m, args) ==
    IF IsNil(m, args) THEN Ret(m, Nil)
    ELSE IF ~Is(m, args, "cons") THEN Halt(m, "assert")
    ELSE IF ~Is(m, Car(m, args), "id") THEN SignalError(m)
    ELSE IF ~Is(m, Cdr(m, args), "cons") THEN Ret(m, Nil)
    ELSE LET def == Cdr(m, args)
             id == Alloc(m, Named("id", "lambda"))
             body == Alloc(id.m, Pair(Car(m, def), Cdr(m, def)))
             f == Alloc(body.m, Pair(id.val, body.val))
         IN Ret(SymbolSet(f.m, m.heap[Car(m, args)].name, f.val), f.val)

\* rq_func_princ: what is printed is evaluated, and so is what is in a list, whose end
\* is taken for a cons.
Princ(m, p, val) ==
    IF m.halt # "" \/ IsNil(m, p) \/ ~Is(m, p, "cons") THEN Ret(m, val)
    ELSE LET r == Eval(m, Car(m, p))
         IN CASE r.m.halt # "" -> r
              [] r.m.halt = "" /\ r.val = Wild -> Halt(r.m, "wild")
              [] OTHER -> LET l == IF Is(r.m, r.val, "cons") THEN PrincList(r.m, r.val) ELSE r.m
                          IN IF l.halt # "" THEN Ret(l, Nil) ELSE Princ(l, Cdr(l, p), r.val)
PrincList(m, p) ==
    IF m.halt # "" THEN m
    ELSE IF ~Is(m, p, "cons") THEN Halt(m, "assert").m
    ELSE IF IsNil(m, Car(m, p)) THEN m
    ELSE LET r == Princ(m, Car(m, p), Nil).m
             rest == Cdr(r, p)
         IN PrincList(IF r.halt = "" /\ ~IsNil(r, rest) /\ ~Is(r, rest, "cons")
                      THEN Princ(r, rest, Nil).m ELSE r, rest)

Op(o, x, y) == CASE o = "+" -> x + y [] o = "-" -> x - y [] OTHER -> x * y

\* rq_func_add, rq_func_substract and rq_func_multiply, which is registered for "/"
\* too: every argument's object becomes a number, and the result's once one is a double.
Arith(m, op, args, res, first) ==
    IF m.halt # "" \/ IsNil(m, args) THEN Ret(m, res)
    ELSE IF ~Is(m, args, "cons") THEN Halt(m, "assert")
    ELSE LET v == Eval(m, Car(m, args))
             type == IF v.m.halt = "" /\ (Is(v.m, v.val, "double") \/ Is(v.m, res, "double"))
                     THEN "double" ELSE "int"
             c == IF v.m.halt # "" THEN v ELSE Coerce(v.m, v.val, type)
             was == m.heap[res].num
             n == IF op = "-" /\ first THEN c.val ELSE Op(op, was, c.val)
         IN IF c.m.halt # "" THEN Ret(c.m, Nil)
            ELSE Arith([c.m EXCEPT !.heap[res] = Number(type, n)], op, Cdr(c.m, args), res, FALSE)

\* rq_object_call_builtin.
Call(m, f, args) ==
    CASE f = "setq" -> Setq(m, args)
      [] f = "if" -> If(m, args)
      [] f = "progn" -> Progn(m, args, Wild)
      [] f = "princ" -> Princ(m, args, Nil)
      [] f = "defun" -> Defun(m, args)
      [] f = "string-equal" ->
            IF ~Is(m, args, "cons") \/ ~Is(m, Cdr(m, args), "cons") THEN Halt(m, "assert")
            ELSE LET r == Eval(m, Car(m, args))
                     s == IF r.m.halt # "" THEN r ELSE Eval(r.m, Car(r.m, Cdr(r.m, args)))
                 IN IF s.m.halt # "" \/ (r.val # Wild /\ s.val # Wild) THEN Ret(s.m, Nil)
                    ELSE Halt(s.m, "wild")
      [] OTHER -> LET r == Alloc(m, Number("int", 0)) IN Arith(r.m, f, args, r.val, TRUE)

\* rq_interpreter_eval.
Eval(m, a) ==
    IF Stopped(m) THEN Ret(m, Nil)
    ELSE CASE a = Wild -> Halt(m, "wild")
           [] Is(m, a, "cons") /\ Is(m, Car(m, a), "id") ->
                LET id == m.heap[Car(m, a)].name
                    f == SymbolFind(m, id)
                IN CASE Is(m, f, "builtin") -> Call(m, m.heap[f].name, Cdr(m, a))
                     [] ~Is(m, f, "builtin") /\ ~IsNil(m, f) -> EvalFunc(m, f, Cdr(m, a))
                     [] OTHER -> SignalError(m)
           [] Is(m, a, "cons") /\ ~Is(m, Car(m, a), "id") -> Ret(m, Nil)
           [] Is(m, a, "id") -> Ret(m, SymbolFind(m, m.heap[a].name))
           [] OTHER -> Ret(m, a)
-----------------------------------------------------------------------------
\* rq_interpreter_alloc, and the three functions that register what is built in.
Init ==
    /\ mem = [heap |-> <<Plain("nil"), Plain("true")>>
                       \o [i \in DOMAIN Builtins |-> Named("builtin", Builtins[i])],
              scopes |-> <<[n \in ToSet(Builtins) |->
                              True + (CHOOSE i \in DOMAIN Builtins : Builtins[i] = n)]>>,
              err |-> FALSE, halt |-> ""]
    /\ text = <<>>
    /\ result = Nil
    /\ last = [op |-> "init", form |-> 0, runs |-> 0]

\* rq_interpreter_parse of a stream with a list of forms, which forgets errors.
RECURSIVE ParseAll(_, _, _)
ParseAll(m, fs, done) ==
    IF fs = <<>> THEN Ret(m, done)
    ELSE LET o == ParseObject(m, Head(fs))
         IN ParseAll(Alloc(o.m, Pair(o.val, Nil)).m, Tail(fs), Append(done, o.val))

Parse(t) ==
    /\ mem.halt = "" /\ Len(text) < MaxForms
    /\ LET o == ParseAll([mem EXCEPT !.err = FALSE], t, <<>>)
       IN /\ mem' = o.m
          /\ text' = text \o o.val
    /\ last' = [last EXCEPT !.op = "parse"]
    /\ UNCHANGED result

\* rq_interpreter_eval of what was parsed.
Run(k) ==
    /\ mem.halt = "" /\ last.runs < MaxRuns
    /\ LET r == Eval(mem, text[k])
       IN /\ mem' = r.m
          /\ result' = IF r.m.halt = "" THEN r.val ELSE Nil
    /\ last' = [op |-> "run", form |-> k, runs |-> last.runs + 1]
    /\ UNCHANGED text

\* rq_object_coerce_string of a result, to show it.
Show ==
    /\ mem.halt = "" /\ last.op = "run"
    /\ mem' = CoerceText(mem, result, "string").m
    /\ last' = [last EXCEPT !.op = "show"]
    /\ UNCHANGED <<text, result>>

\* rq_interpreter_garbage_collect.
Collect ==
    /\ mem.halt = "" /\ Garbage(mem) # {}
    /\ mem' = Collected(mem)
    /\ last' = [last EXCEPT !.op = "collect"]
    /\ UNCHANGED <<text, result>>

Next ==
    \/ \E t \in Texts : Parse(t)
    \/ \E k \in DOMAIN text : Run(k)
    \/ Show
    \/ Collect

Spec == Init /\ [][Next]_vars
-----------------------------------------------------------------------------
Address == Wild .. Len(mem.heap)
Code == UNION {Tagged(mem, text[k]) : k \in DOMAIN text}
Variables(i) == DOMAIN mem.scopes[i] \ ToSet(Builtins)
Mentions(id) == \E a \in Code : Is(mem, a, "id") /\ mem.heap[a].name = id

\* What is bound, was parsed or returned is an object, and a list is made of objects.
TypeOK ==
    /\ \A i \in DOMAIN mem.scopes : \A n \in DOMAIN mem.scopes[i] : mem.scopes[i][n] \in Address \ {Wild}
    /\ ToSet(text) \subseteq Address \ {Wild} /\ result \in Address
    /\ \A a \in DOMAIN mem.heap : /\ ToSet(mem.heap[a].kids) \subseteq Address \ {Wild}
                                  /\ Is(mem, a, "cons") <=> mem.heap[a].kids # <<>>
    /\ mem.err \in BOOLEAN /\ mem.halt \in {"", "assert", "null", "wild", "freed"}

\* Two variables never have the same object, or lists that meet, except where both
\* are functions that are still what their texts say: setq copies what it stores.
BindingsApart ==
    TopScope(mem) = 1 =>
        \A x, y \in Variables(1) : x # y =>
            Tagged(mem, mem.scopes[1][x]) \cap Tagged(mem, mem.scopes[1][y])
                \subseteq Code \cup {Nil, True}

\* Evaluation leaves the stack of scopes as it was unless it ends with an error, and
\* then at most one block is left on it, however deep the calls were.
CallsBalanced ==
    mem'.halt = "" =>
        /\ TopScope(mem) <= TopScope(mem')
        /\ TopScope(mem') <= TopScope(mem) + 1
        /\ ~mem'.err => TopScope(mem') = TopScope(mem)

\* A program does not rewrite itself: the lists and the names of its text are never
\* changed, also when a function that shares them is called or defined again, or when
\* arguments are made numbers in place.
CodeKept ==
    mem'.halt # "freed" =>
        \A a \in Code \ {Nil, True} :
            mem.heap[a].type \in {"cons", "id"} => mem'.heap[a] = mem.heap[a]

\* What an evaluation leaves behind: the blocks of its caller, and the program.
EvaluationsClean == [][CallsBalanced /\ CodeKept]_vars

\* After (setq id literal) has run without an error, the name reads as the literal,
\* whatever blocks failed calls have left.
SetIsRead ==
    (last.op = "run" /\ ~mem.err /\ mem.halt = "") =>
        LET f == text[last.form]
            id == Car(mem, Cdr(mem, f))
            val == Car(mem, Cdr(mem, Cdr(mem, f)))
        IN (mem.heap[Car(mem, f)].name = "setq" /\ mem.heap[val].type \in {"int", "double", "string"})
               => mem.heap[SymbolFind(mem, mem.heap[id].name)] = mem.heap[val]

\* No variable is another's object, and what is set is read.
VariablesRight == BindingsApart /\ SetIsRead

\* What may halt the interpreter.  An assertion: a list was printed, a variable that is
\* no function was called, or a function was defined again, whose copied body no longer
\* ends with the one object nil that setq looks for.  A NULL: something was assigned
\* to that has no name.  A wild pointer: the value of an empty progn or a missing else.
Redefined ==
    \E i \in DOMAIN mem.scopes : \E n \in Variables(i) :
        LET f == mem.scopes[i][n]
        IN Is(mem, f, "cons") /\ Car(mem, Cdr(mem, f)) \notin Code \cup {Nil}
HaltCause ==
    /\ mem.halt = "assert" =>
          \/ Mentions("princ")
          \/ Redefined
          \/ LET id == Car(mem, text[last.form])
                 f == SymbolFind(mem, mem.heap[id].name)
             IN mem.heap[f].type \notin {"cons", "builtin", "nil"}
    /\ mem.halt = "null" => \E a \in Code : Is(mem, a, "cons") /\ Is(mem, Car(mem, a), "id")
                                /\ mem.heap[Car(mem, a)].name = "setq"
                                /\ Car(mem, Cdr(mem, a)) = Nil
    /\ mem.halt = "wild" => Mentions("if") \/ Mentions("progn")
    /\ mem.halt = "freed" => last.op = "collect"

\* Objects are what they should be, and only known mistakes of a program halt it.
Sane == TypeOK /\ HaltCause
=============================================================================
