----------------------------- MODULE MCCommands -----------------------------
(* Handlers for TLC: with every class of argument, with a subcommand that   *)
(* comes after the arguments or instead of them, with a callable that       *)
(* decides instead of the name, and with two arguments of one name.         *)
EXTENDS Commands

Chars == {"!", "c", "C", "s", "v", " ", "\n"}

Texts(n) == UNION {[1..m -> Chars] : m \in 0..n}

\* Short texts, and those that begin like a command of two words.
MCBodies == Texts(2) \cup {<<"!", c>> \o s : c \in {"c", "C", "v"}, s \in Texts(4)}

Context(type, own, thread, plain) ==
    [type |-> type, own |-> own, thread |-> thread, plain |-> plain]

MCContexts == {Context("text", FALSE, FALSE, FALSE), Context("text", FALSE, TRUE, FALSE),
               Context("text", FALSE, FALSE, TRUE), Context("text", TRUE, FALSE, FALSE),
               Context("notice", FALSE, FALSE, FALSE)}

Argument(name, kind, required) ==
    [name |-> name, kind |-> kind, raw |-> FALSE, whole |-> TRUE, required |-> required,
     accepts |-> {<<"v">>, <<"v", "v">>}, refuses |-> "none",
     gives |-> CASE kind = "simple" -> "text" [] kind = "regex" -> "groups"
                 [] kind = "parser" -> "parsed"]

Simple(name) == Argument(name, "simple", TRUE)
Regex(name, required) == Argument(name, "regex", required)
Parser(name, refuses) == [Argument(name, "parser", FALSE) EXCEPT !.refuses = refuses]

\* Without a group around its alternatives, or without groups and with pass_raw.
Alternatives(name) == [Regex(name, FALSE) EXCEPT !.whole = FALSE]
Raw(a) == [a EXCEPT !.raw = TRUE, !.gives = "text"]

\* Named and given its arguments; every other option is the default.
Named(name, args) ==
    [CommandHandler EXCEPT !.name = name, !.aliases = {<<"v">>}, !.args = args]

Sub == Named(<<"s">>, <<Simple("a")>>)

MCRoots == {
    Named(<<"c">>, <<Regex("a", FALSE), Simple("b")>>),
    Named(<<"c">>, <<Alternatives("a"), Parser("b", "none")>>),
    [Named(<<"C">>, <<Parser("a", "usage"), Parser("a", "raise")>>) EXCEPT !.callable = TRUE],
    [Named(<<"c">>, <<Raw(Regex("a", TRUE)), Raw(Simple("b"))>>) EXCEPT !.consume = FALSE],
    [AddSubcommand(Named(<<"c">>, <<Simple("b")>>), Sub) EXCEPT !.types = {"text", "notice"}],
    [AddSubcommand(Named(<<"c">>, <<Regex("a", TRUE)>>), Sub) EXCEPT
        !.fallthrough = FALSE, !.required = FALSE],
    [AddSubcommand(Named(<<"c">>, <<Parser("b", "raise")>>), Sub) EXCEPT !.required = FALSE]}

\* These are declarations as the proofs about Commands expect them.
MCArguments == UNION {{h.args[k] : k \in DOMAIN h.args} : h \in MCRoots \cup {Sub}}

ASSUME MCDeclared == Declared(MCRoots \cup {Sub}, MCArguments)
=============================================================================
