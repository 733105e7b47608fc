------------------------------- MODULE OpenCLI -------------------------------
(***************************************************************************)
(* internal/tools/opencli: how a command of OpenCLI's catalogue becomes a  *)
(* tool with a schema, and how the arguments of a call become the command  *)
(* line that OpenCLI reads.  The provider keeps no state after the start,  *)
(* so this is an algorithm, held against what OpenCLI understands, and the *)
(* one variable it looks at is the life of the process that serves calls.  *)
(***************************************************************************)
EXTENDS ToolCalls, SequencesExt

CONSTANTS Sites,        \* names of sites
          CommandNames, \* names of commands
          HelpArguments,\* [name, type, default, choices, required], as the catalogue lists them
          MaxInputs,    \* bound: positionals and options of one command
          Values        \* [kind, text]: values a call may give; "huge" is an integer beyond int64

\* A name is the sequence of its words and what separates them.  A text, of a value
\* or on the command line, is the dashes it begins with, a name, and what follows.
Plain(word) == [dash |-> "", body |-> [words |-> <<word>>, sep |-> ""], tail |-> ""]
NoDefault == [kind |-> "none", text |-> [dash |-> "", body |-> [words |-> <<>>, sep |-> ""], tail |-> ""]]

\* A JSON boolean is true or false; a switch's default is one, where it has one.
True == [kind |-> "boolean", text |-> Plain("true")]
False == [kind |-> "boolean", text |-> Plain("false")]
Booleans == {True, False}
ASSUME CatalogueAssumption ==
    /\ MaxInputs \in Nat
    /\ \A v \in Values : v.kind = "boolean" => v \in Booleans
    /\ \A h \in HelpArguments :
         h.default # NoDefault /\ (h.type = "bool" \/ h.default.kind = "boolean") => h.default \in Booleans

HelpCommands ==
    UNION {[positionals : [1..l[1] -> HelpArguments], options : [1..l[2] -> HelpArguments]] :
             l \in {m \in (0..MaxInputs) \X (0..MaxInputs) : m[1] + m[2] <= MaxInputs}}

-----------------------------------------------------------------------------
(* Start-up: tools from the catalogue. *)

\* identifier: the words in lower case, whatever stands between them; joining two
\* identifiers with an underscore joins the sequences.
identifier(name) == name.words

\* inferredType
inferredType(value) == value.kind

\* schemaType: a string takes the type of its default, else of its first choice.
schemaType(a) ==
    CASE a.type = "int" -> "integer"
      [] a.type \in {"number", "bool"} -> IF a.type = "bool" THEN "boolean" ELSE "number"
      [] a.type = "str" /\ a.default # NoDefault -> inferredType(a.default)
      [] a.type = "str" /\ a.default = NoDefault /\ a.choices # <<>> -> inferredType(a.choices[1])
      [] OTHER -> "string"

\* buildArgument
buildArgument(a) == [property |-> identifier(a.name), cliName |-> a.name,
                     type |-> schemaType(a), required |-> a.required, default |-> a.default, choices |-> a.choices]

Inputs(c) == c.positionals \o c.options

\* buildTool refuses two inputs with one identifier.
Accepts(c) == \A i, j \in DOMAIN Inputs(c) : identifier(Inputs(c)[i].name) = identifier(Inputs(c)[j].name) => i = j

\* buildTool
buildTool(c) == [positionals |-> [i \in DOMAIN c.positionals |-> buildArgument(c.positionals[i])],
                 options |-> [i \in DOMAIN c.options |-> buildArgument(c.options[i])]]

ToolName(site, command) == identifier(site) \o identifier(command)

\* loadSite for every site: the start is refused if two commands give one tool name,
\* else p.commands leads from the name to the command.
Load(allowed) ==
    IF \E a, b \in allowed : a # b /\ ToolName(a.site, a.command) = ToolName(b.site, b.command)
    THEN [ok |-> FALSE]
    ELSE [ok |-> TRUE, commands |-> [n \in {ToolName(a.site, a.command) : a \in allowed} |->
                                       CHOOSE a \in allowed : ToolName(a.site, a.command) = n]]

-----------------------------------------------------------------------------
(* A call. *)

\* A JSON number without a fraction is an integer, whatever its size, and a number too.
Numeric(kind) == kind \in {"integer", "huge", "number"}
Fits(v, type) == \/ v.kind = type
                 \/ type = "integer" /\ v.kind = "huge"
                 \/ type = "number" /\ Numeric(v.kind)
Chosen(v, choices) == \E i \in DOMAIN choices :
    /\ v.text = choices[i].text
    /\ v.kind = choices[i].kind \/ (Numeric(v.kind) /\ Numeric(choices[i].kind))

\* ValidateArguments of the registry against the schema: no other properties, the
\* required ones, every value of its type and one of the choices, where there are any.
ValidArguments(spec) ==
    LET all == spec.positionals \o spec.options
        Property(S) == {all[i].property : i \in S}
        required == {i \in DOMAIN all : all[i].required}
        Typed(args) == \A i \in DOMAIN all : all[i].property \in DOMAIN args =>
                           LET v == args[all[i].property]
                           IN Fits(v, all[i].type) /\ (all[i].choices # <<>> => Chosen(v, all[i].choices))
    IN {args \in UNION {[Property(S) -> Values] : S \in {S \in SUBSET DOMAIN all : required \subseteq S}} :
            Typed(args)}

Given(args, a) == a.property \in DOMAIN args

\* The first omitted positional is followed by one that is given.
Gap(spec, args) == \E i, j \in DOMAIN spec.positionals :
                       i < j /\ ~Given(args, spec.positionals[i]) /\ Given(args, spec.positionals[j])

\* scalarText: it has no text for a boolean, nor for an integer beyond int64.
scalarText(v, type) == [ok |-> type # "boolean" /\ Fits(v, type) /\ ~(type = "integer" /\ v.kind = "huge"),
                        text |-> v.text]

\* The texts are put on the command line as they are, dashes and all, with no "--"
\* between the options and the positionals (:377, :401).
Flag(a) == [dash |-> "--", body |-> a.cliName, tail |-> ""]
Negated(a) == [dash |-> "--", body |-> a.cliName, tail |-> "=false"]

PositionalTokens(args, a) ==
    IF Given(args, a) THEN <<scalarText(args[a.property], a.type).text>> ELSE <<>>

OptionTokens(args, a) ==
    LET v == args[a.property]
    IN CASE ~Given(args, a) -> <<>>
         [] Given(args, a) /\ a.type # "boolean" -> <<Flag(a), scalarText(v, a.type).text>>
         [] Given(args, a) /\ a.type = "boolean" /\ v = True -> <<Flag(a)>>
         [] OTHER -> IF a.default = True THEN <<Negated(a)>> ELSE <<>>

Argv(spec, args) ==
    FlattenSeq([i \in DOMAIN spec.positionals |-> PositionalTokens(args, spec.positionals[i])])
    \o FlattenSeq([i \in DOMAIN spec.options |-> OptionTokens(args, spec.options[i])])

\* Every required positional is given, and every value that needs a text has one.
Compiles(spec, args) ==
    /\ \A i \in DOMAIN spec.positionals : LET a == spec.positionals[i]
         IN IF Given(args, a) THEN scalarText(args[a.property], a.type).ok ELSE ~a.required
    /\ \A i \in DOMAIN spec.options : LET a == spec.options[i]
         IN Given(args, a) /\ a.type # "boolean" => scalarText(args[a.property], a.type).ok

\* Mutant: a positional may follow an omitted one.
compileArguments_SkipsGaps(spec, args) ==
    IF Compiles(spec, args) THEN [ok |-> TRUE, argv |-> Argv(spec, args)] ELSE [ok |-> FALSE]

\* compileArguments
compileArguments(spec, args) ==
    IF Compiles(spec, args) /\ ~Gap(spec, args) THEN [ok |-> TRUE, argv |-> Argv(spec, args)] ELSE [ok |-> FALSE]

-----------------------------------------------------------------------------
(* What OpenCLI reads, and what was meant. *)

\* OpenCLI's own parser: what follows the flag of an option that is no switch is the
\* option's value, the other elements without a dash are the positionals in order, what
\* is not there has its default, and a switch without a default is off.
Understood(spec, argv) ==
    LET Valued(n) == \E i \in DOMAIN spec.options :
                         argv[n] = Flag(spec.options[i]) /\ spec.options[i].type # "boolean"
        free == {n \in DOMAIN argv : argv[n].dash = "" /\ ~(n > 1 /\ Valued(n - 1))}
        Nth(i) == CHOOSE n \in free : Cardinality({m \in free : m < n}) = i - 1
        At(token) == {n \in DOMAIN argv : argv[n] = token}
        Positional(i, a) == IF i <= Cardinality(free) THEN argv[Nth(i)] ELSE a.default.text
        Switch(a) == CASE At(Flag(a)) # {} -> True.text
                       [] At(Flag(a)) = {} /\ At(Negated(a)) # {} -> False.text
                       [] OTHER -> IF a.default = NoDefault THEN False.text ELSE a.default.text
        Option(a) == IF At(Flag(a)) = {} THEN a.default.text
                     ELSE argv[(CHOOSE n \in At(Flag(a)) : TRUE) + 1]
    IN [p |-> [i \in DOMAIN spec.positionals |-> Positional(i, spec.positionals[i])],
        o |-> [i \in DOMAIN spec.options |-> IF spec.options[i].type = "boolean"
                                             THEN Switch(spec.options[i]) ELSE Option(spec.options[i])]]

\* What the call says.
Meant(spec, args) ==
    LET Default(a) == IF a.type = "boolean" /\ a.default = NoDefault THEN False.text ELSE a.default.text
        Said(a) == IF Given(args, a) THEN args[a.property].text ELSE Default(a)
        Positional(a) == IF Given(args, a) THEN args[a.property].text ELSE a.default.text
    IN [p |-> [i \in DOMAIN spec.positionals |-> Positional(spec.positionals[i])],
        o |-> [i \in DOMAIN spec.options |-> Said(spec.options[i])]]

\* A given text begins with a dash: OpenCLI may take it for an option.
Dashed(args) == \E p \in DOMAIN args : args[p].text.dash # ""

\* A given integer is beyond int64.
TooLarge(spec, args) ==
    \E a \in Range(spec.positionals) \cup Range(spec.options) :
        Given(args, a) /\ a.type = "integer" /\ args[a.property].kind = "huge"

\* OpenCLI understands exactly the arguments that were given.
CallsUnderstood ==
    \A c \in HelpCommands : Accepts(c) =>
      LET spec == buildTool(c)
      IN \A args \in ValidArguments(spec) :
           LET r == compileArguments(spec, args)
           IN IF r.ok THEN ~Dashed(args) => Understood(spec, r.argv) = Meant(spec, args)
              ELSE \/ Gap(spec, args)
                   \/ TooLarge(spec, args)
                   \/ \E i \in DOMAIN spec.positionals : spec.positionals[i].type = "boolean"

\* A tool leads to the command it was made from.
ToolsNameCommands ==
    \A a, b \in [site : Sites, command : CommandNames] :
      LET r == Load({a, b}) IN r.ok => r.commands[ToolName(a.site, a.command)] = a

(***************************************************************************)
(* "Schema-generated OpenCLI website tools with deterministic argv         *)
(* compilation" (provider.go:114): once the registry serves calls, every   *)
(* call that passes its check against the tool's schema reaches the        *)
(* command whose tool it names, with exactly the arguments given, unless   *)
(* one of their texts begins with a dash: those are passed as they are     *)
(* (:377, :401), and what OpenCLI makes of them is its own affair.  The    *)
(* provider refuses a call only for a positional that follows an omitted   *)
(* one, for an integer beyond int64, or for a boolean positional, which it *)
(* has no text for.                                                        *)
(***************************************************************************)
ArgumentsSurvive == Serving => CallsUnderstood /\ ToolsNameCommands
=============================================================================
