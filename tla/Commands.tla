------------------------------ MODULE Commands ------------------------------
(***************************************************************************)
(* A message event on its way through one command handler of a plugin      *)
(* (handlers/command.py), and the responses its function sends             *)
(* (MaubotMessageEvent in matrix.py).                                      *)
(*                                                                         *)
(* Texts are sequences of characters, since what the code splits at (one   *)
(* blank for commands, any white space for arguments) is what the          *)
(* properties are about.  A regular expression or a parser is the set of   *)
(* texts it accepts, with what it makes of them and what it does with the  *)
(* others.  Arguments and handlers are records; the subcommands of a       *)
(* handler are handlers.                                                   *)
(***************************************************************************)
EXTENDS Naturals, Sequences, SequencesExt, FiniteSets, FiniteSetsExt

CONSTANTS
    Bodies,   \* the bodies of messages: sequences of characters
    Contexts, \* the rest of a message: its type, whether it is our own, whether
              \* it is in a thread, whether its client disables replies
    Roots,    \* the handlers made with new()
    Null

VARIABLES
    msg,      \* the event
    at,       \* the handler that runs
    pc,       \* where it is
    rest,     \* remaining_val
    next,     \* the index of the argument to parse next
    given,    \* call_args as it is filled: for each handler entered, its word and
              \* its values
    response  \* what respond() was asked for, and what it sent

commandVars == <<msg, at, pc, rest, next, given, response>>

-----------------------------------------------------------------------------
(* Texts                                                                   *)

Space == {" ", "\n"}

Lower(s) == [i \in DOMAIN s |-> IF s[i] = "C" THEN "c" ELSE s[i]]

\* str.strip()
Strip(s) ==
    LET I == {i \in DOMAIN s : s[i] \notin Space} IN
    IF I = {} THEN <<>> ELSE SubSeq(s, Min(I), Max(I))

\* The text before the first character of S, and after it.
SplitAt(s, S) ==
    LET I == {i \in DOMAIN s : s[i] \in S} IN
    IF I = {} THEN <<s, <<>>>> ELSE <<SubSeq(s, 1, Min(I) - 1), SubSeq(s, Min(I) + 1, Len(s))>>

\* _split_in_two(val, " ")
SplitInTwo(s) == SplitAt(s, {" "})

\* re.split(r"\s", val, 1)[0]
FirstWord(s) == SplitAt(s, Space)[1]

After(s, n) == SubSeq(s, n + 1, Len(s))

-----------------------------------------------------------------------------
(* Declarations                                                            *)

\* CommandHandler(func), before new() or subcommand() names it.
CommandHandler ==
    [name |-> <<>>, aliases |-> {}, callable |-> FALSE, args |-> <<>>, subs |-> <<>>,
     fallthrough |-> TRUE, required |-> TRUE, consume |-> TRUE, types |-> {"text"}]

\* @h.subcommand() on the function of sub: new() without message types, and the
\* handler it makes is the last subcommand of h.
AddSubcommand(h, sub) == [h EXCEPT !.subs = Append(@, sub)]

\* Decorators are applied last to first, and each argument() appends itself.
Applied(args) == Reverse(args)

\* Mutant: new() forgets that decorators are applied last to first.
UnreversedArguments(h) == Applied(h.args)

\* new() reverses the arguments, so that they are parsed as they are written.
Arguments(h) == Reverse(Applied(h.args))

\* __mb_is_command_match__: the name or an alias, or what a callable accepts that
\* was given for the aliases, which takes the place of the name too.
IsCommandMatch(h, word) == word \in h.aliases \/ (~h.callable /\ word = h.name)

\* The argument takes whole words.  '^' and '$' around the expression of a
\* RegexArgument bind to its first and its last alternative only, so that one
\* with alternatives may take the beginning of a word.
TakesWords(a) == a.kind = "simple" \/ (~a.raw /\ (a.kind = "parser" \/ a.whole))

\* What match() of the three classes of Argument looks at.
Seen(a, s) == IF a.raw THEN s ELSE FirstWord(s)

\* The lengths of what it may take of a text t that it sees.
MatchEnds(a, t) ==
    LET B == {n \in 0..Len(t) : SubSeq(t, 1, n) \in a.accepts} IN
    CASE a.kind = "simple" -> {Len(t)}
      [] a.kind # "simple" /\ TakesWords(a) -> B \cap {Len(t)}
      [] OTHER -> B

\* The value of a text: the text itself, the groups of the expression, or what
\* the parser makes of it.
Value(a, t) == [text |-> t, as |-> a.gives]

\* Mutant: a value that was matched stays in the text.
UnconsumedMatch(a, s) == {[rest |-> s, val |-> Value(a, FirstWord(s))]}

\* match(): what is left, and the value, None if there is none.  Of several
\* beginnings that it accepts, which one an expression takes is its own affair.
Match(a, s) ==
    LET t == Seen(a, s)
        E == MatchEnds(a, t) IN
    IF E = {} THEN {[rest |-> s, val |-> Null]}
    ELSE {[rest |-> After(s, n), val |-> Value(a, SubSeq(t, 1, n))] : n \in E}

\* The subcommand the text begins with, Null if none: the first that matches.
Subcommand(h, s) ==
    LET I == {i \in DOMAIN h.subs : IsCommandMatch(h.subs[i], SplitInTwo(Strip(s))[1])} IN
    IF I = {} THEN Null ELSE h.subs[Min(I)]

-----------------------------------------------------------------------------
(* __call__()                                                              *)

Enter(h, word, text) ==
    /\ at' = h /\ rest' = text /\ next' = 1
    /\ given' = Append(given, [handler |-> h, word |-> word, vals |-> <<>>])

\* The handler returns without calling the function of the plugin.
Return(how) == pc' = how /\ UNCHANGED <<msg, at, rest, next, given, response>>

Accepts(h) == ~msg.own /\ msg.type \in h.types

Ignore ==
    /\ pc = "call"
    /\ \/ ~Accepts(at)
       \/ msg.body = <<>>
       \/ msg.body # <<>> /\ Head(msg.body) # "!"
       \/ msg.body # <<>> /\ ~IsCommandMatch(at, Lower(SplitInTwo(Tail(msg.body))[1]))
    /\ Return("ignored")

Command ==
    /\ pc = "call"
    /\ Accepts(at) /\ msg.body # <<>> /\ Head(msg.body) = "!"
    /\ LET s == SplitInTwo(Tail(msg.body)) IN
       /\ IsCommandMatch(at, Lower(s[1]))
       /\ Enter(at, Lower(s[1]), s[2])
    /\ pc' = IF ~at.fallthrough /\ at.subs # <<>> THEN "subcommand" ELSE "arguments"
    /\ UNCHANGED <<msg, response>>

\* __call_subcommand__() finds one; it looks at the sender and the type again.
CallSubcommand ==
    /\ pc = "subcommand"
    /\ LET h == Subcommand(at, rest)
           s == SplitInTwo(Strip(rest)) IN
       /\ h # Null
       /\ Enter(h, s[1], s[2])
       /\ pc' = CASE ~Accepts(h) -> "unaccepted"
                  [] Accepts(h) /\ ~h.fallthrough /\ h.subs # <<>> -> "subcommand"
                  [] OTHER -> "arguments"
    /\ UNCHANGED <<msg, response>>

\* Mutant: without the subcommand it needs, the handler just returns.
SilentNoSubcommand ==
    /\ pc = "subcommand"
    /\ Subcommand(at, rest) = Null
    /\ Return(IF at.fallthrough /\ at.required THEN "ignored" ELSE "arguments")

\* It finds none: before the arguments go on with them, after them ask for help
\* or do without.
NoSubcommand ==
    /\ pc = "subcommand"
    /\ Subcommand(at, rest) = Null
    /\ pc' = CASE ~at.fallthrough -> "arguments"
               [] at.fallthrough /\ at.required -> "help"
               [] OTHER -> "consume"
    /\ UNCHANGED <<msg, at, rest, next, given, response>>

\* One round of __parse_args__().  An argument that does not match is answered
\* with the usage if it is required or its parser raises a ValueError; another
\* exception of the parser ends the call; else the value is None.  An empty text
\* does match a SimpleArgument.
ParseArgument ==
    /\ pc = "arguments" /\ next <= Len(at.args)
    /\ LET a == Arguments(at)[next] IN
       \E m \in Match(a, Strip(rest)) :
         IF m.val = Null /\ (a.required \/ a.refuses # "none")
         THEN /\ pc' = IF a.refuses = "raise" THEN "raised" ELSE "usage"
              /\ UNCHANGED <<rest, next, given>>
         ELSE /\ rest' = m.rest
              /\ given' = [given EXCEPT ![Len(given)].vals = Append(@, m.val)]
              /\ next' = next + 1
              /\ UNCHANGED pc
    /\ UNCHANGED <<msg, at, response>>

ParsedArguments ==
    /\ pc = "arguments" /\ next > Len(at.args)
    /\ Return(IF at.fallthrough /\ at.subs # <<>> THEN "subcommand" ELSE "consume")

Consume ==
    /\ pc = "consume"
    /\ Return(IF at.consume /\ Strip(rest) # <<>> THEN "help" ELSE "called")

-----------------------------------------------------------------------------
(* respond()                                                               *)

Requests == [edits : BOOLEAN, inThread : {TRUE, FALSE, Null}, reply : {"no", "yes", "force"}]

InThread(r) == r.inThread # FALSE /\ (r.inThread = TRUE \/ msg.thread)

\* Mutant: an edit may be a reply as well.
RepliedEdit(r) ==
    [edit |-> r.edits, thread |-> ~r.edits /\ InThread(r),
     reply |-> r.reply = "force" \/ (r.reply = "yes" /\ ~msg.plain),
     named |-> r.reply = "yes" /\ msg.plain]

\* What respond() sends: an edit, or something in the thread or not, a reply or
\* not.  A client that disables replies has the sender's name before the text.
Responded(r) ==
    [edit |-> r.edits, thread |-> ~r.edits /\ InThread(r),
     reply |-> ~r.edits /\ (r.reply = "force" \/ (r.reply = "yes" /\ ~msg.plain)),
     named |-> ~r.edits /\ r.reply = "yes" /\ msg.plain]

\* reply() and edit()
Reply == [edits |-> FALSE, inThread |-> Null, reply |-> "yes"]
Edit  == [edits |-> TRUE, inThread |-> Null, reply |-> "no"]

Send(r) ==
    /\ response' = [asked |-> r, sent |-> Responded(r)]
    /\ pc' = "answered"
    /\ UNCHANGED <<msg, at, rest, next, given>>

\* The handler replies with its usage or its help.
AnswerUsage == pc \in {"usage", "help"} /\ Send(Reply)

\* The function of the plugin calls respond(), reply() or edit().
Respond == pc = "called" /\ \E r \in Requests \cup {Reply, Edit} : Send(r)

-----------------------------------------------------------------------------
\* Any message reaches any handler.
CommandInit ==
    /\ \E h \in Roots, b \in Bodies, c \in Contexts :
         at = h /\ msg = [body |-> b, type |-> c.type, own |-> c.own,
                          thread |-> c.thread, plain |-> c.plain]
    /\ pc = "call" /\ rest = <<>> /\ next = 1 /\ given = <<>> /\ response = Null

CommandNext ==
    \/ Ignore \/ Command \/ CallSubcommand \/ NoSubcommand
    \/ ParseArgument \/ ParsedArguments \/ Consume \/ AnswerUsage \/ Respond

CommandSpec == CommandInit /\ [][CommandNext]_commandVars

\* The handler is a coroutine that never waits for anything but its replies.
FairCommandSpec == CommandSpec /\ WF_commandVars(CommandNext)

-----------------------------------------------------------------------------
(* What plugins declare                                                    *)

\* A text is a sequence of characters, a word one of them without white space.
AllTexts == Seq(STRING)
IsWord(w) == w \in AllTexts /\ w # <<>> /\ \A i \in DOMAIN w : w[i] \notin Space

Conversions == {"text", "groups", "parsed"}

ArgumentOK(a) ==
    /\ a.kind \in {"simple", "regex", "parser"} /\ a.gives \in Conversions
    /\ a.raw \in BOOLEAN /\ a.whole \in BOOLEAN /\ a.required \in BOOLEAN
    /\ a.refuses \in {"none", "usage", "raise"}

\* The values of arguments.
Values == [text : AllTexts, as : Conversions]

\* A handler is called by a word, also if a callable decides, and its subcommands
\* are declared with it.
HandlerOK(h, H, A) ==
    /\ IsWord(h.name) /\ \A w \in h.aliases : IsWord(w)
    /\ h.args \in Seq(A) /\ h.subs \in Seq(H)

\* H and A are sets of handlers and of arguments with which a plugin declares
\* the handlers in Roots.
Declared(H, A) ==
    /\ Roots \subseteq H /\ \A h \in H : HandlerOK(h, H, A)
    /\ \A a \in A : ArgumentOK(a)
    /\ Bodies \subseteq AllTexts
    /\ \A c \in Contexts : c.thread \in BOOLEAN /\ c.plain \in BOOLEAN
    /\ Null \notin Values /\ Null \notin H /\ Null # TRUE /\ Null # FALSE

-----------------------------------------------------------------------------
(* Properties                                                              *)

\* The words of a text by definition: its maximal runs without white space.
Words(s) ==
    LET Ends(i, j) == /\ i <= j /\ \A k \in i..j : s[k] \notin Space
                      /\ i = 1 \/ s[i - 1] \in Space
                      /\ j = Len(s) \/ s[j + 1] \in Space
        Begins == {i \in DOMAIN s : \E j \in DOMAIN s : Ends(i, j)}
        Nth(n) == CHOOSE i \in Begins : Cardinality({k \in Begins : k < i}) = n - 1 IN
    [n \in 1..Cardinality(Begins) |->
        LET i == Nth(n) IN SubSeq(s, i, CHOOSE j \in DOMAIN s : Ends(i, j))]

Text(v) == IF v = Null THEN <<>> ELSE v.text

\* call_args holds one value for each name: a later argument of the same name, of
\* this handler or of a subcommand, overwrites it.
Overwritten(n, k) ==
    \E m \in n..Len(given) : \E j \in DOMAIN given[m].vals :
        /\ m > n \/ j > k
        /\ given[m].handler.args[j].name = given[n].handler.args[k].name

\* All the handlers entered refuse text that is left, none takes part of a word,
\* and no value is overwritten.
Strict ==
    \A n \in DOMAIN given : LET h == given[n].handler IN
        /\ h.consume /\ \A k \in DOMAIN h.args : TakesWords(h.args[k])
        /\ \A k \in DOMAIN given[n].vals : ~Overwritten(n, k)

\* When the function of a plugin is called it has been given the whole message,
\* as long as its arguments take whole words: the commands and what the values
\* were made of, in the order of the declaration, are the words of the body, none
\* lost, split, repeated or swapped.
WholeMessage ==
    pc = "called" /\ Strict =>
        LET Of(g) == <<g.word>> \o FlattenSeq([k \in DOMAIN g.vals |-> Words(Text(g.vals[k]))])
            body == Words(Tail(msg.body)) IN
        FlattenSeq([n \in DOMAIN given |-> Of(given[n])]) = <<Lower(Head(body))>> \o Tail(body)

\* Each value a function is called with belongs to the argument of its name: one
\* that is required, or whose parser raises, is there; it was made by the matcher
\* of this argument, from a text that matcher accepts.
ValuesFit ==
    pc = "called" =>
        \A n \in DOMAIN given : \A k \in DOMAIN given[n].vals :
            LET a == given[n].handler.args[k]
                v == given[n].vals[k] IN
            /\ a.required \/ a.refuses # "none" => v # Null
            /\ v # Null => v.as = a.gives /\ (a.kind # "simple" => v.text \in a.accepts)

\* Someone who calls a command by its name is always answered if the handler
\* accepts the message: the function runs, or the usage or the help is sent.  The
\* name must be in lower case and compared at all, and there are two exceptions: a
\* subcommand, which has its own message types, and a parser that raises something
\* else than a ValueError.
Answered ==
    (/\ pc = "call" /\ Accepts(at)
     /\ ~at.callable /\ Lower(at.name) = at.name
     /\ IsPrefix(<<"!">> \o at.name \o <<" ">>, msg.body))
    ~> (\/ pc \in {"called", "answered", "raised"}
        \/ pc = "unaccepted" /\ msg.type \notin at.types)

\* respond() as its docstring has it, for a content that has no relation yet: an
\* edit has no other one; without in_thread the response is in a thread if the
\* message is, with False never, with True always.
RespondsAsDocumented ==
    response # Null =>
        LET r == response.asked
            c == response.sent IN
        /\ r.edits => c.edit /\ ~c.thread /\ ~c.reply /\ ~c.named
        /\ ~r.edits => /\ c.thread = (IF r.inThread = Null THEN msg.thread ELSE r.inThread)
                       /\ (c.reply \/ c.named) = (r.reply # "no")
=============================================================================
