----------------------------- MODULE MCToolset ------------------------------
(* Instances of Toolset and of OpenCLI: see the .cfg files and README.md, section 4. *)
EXTENDS Toolset, OpenCLI
CONSTANTS e1
OneEndpoint == <<e1>>

\* OpenCLI: four names, two of them with the same words.
Name(words, sep) == [words |-> words, sep |-> sep]
Query == Name(<<"query">>, "")
Lang == Name(<<"lang">>, "")
Max1 == Name(<<"max", "count">>, "-")
Max2 == Name(<<"max", "count">>, "_")
Value(kind, word) == [kind |-> kind, text |-> Plain(word)]
Ten == Value("integer", "10")
Half == Value("number", "0.5")
\* Two texts begin with a dash: a negative number, and one that reads as an option.
CallValues == {True, False, Ten, Half, Value("huge", "1e30"), Value("string", "cats"),
               [kind |-> "integer", text |-> [Plain("5") EXCEPT !.dash = "-"]],
               [kind |-> "string", text |-> [dash |-> "--", body |-> Lang, tail |-> ""]]}
Input(name, type, required, default) ==
    [name |-> name, type |-> type, required |-> required, default |-> default, choices |-> <<>>]
CatalogueArguments ==
    {Input(n, "str", r, NoDefault) : n \in {Query, Lang}, r \in BOOLEAN}
    \cup {Input(Lang, "bool", FALSE, d) : d \in {NoDefault, True, False}}
    \cup {Input(Max1, "str", FALSE, Ten), Input(Max2, "int", TRUE, NoDefault), Input(Max2, "number", FALSE, NoDefault),
          [Input(Max1, "str", FALSE, NoDefault) EXCEPT !.choices = <<Half, Ten>>]}
CatalogueSites == {Name(<<"news">>, ""), Name(<<"news", "top">>, "-")}
CatalogueCommands == {Name(<<"top", "list">>, "-"), Name(<<"list">>, ""), Name(<<"top", "list">>, "_")}
=============================================================================
