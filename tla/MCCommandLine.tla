---------------------------- MODULE MCCommandLine ----------------------------
(***************************************************************************)
(* Files: every short text of the characters the scanners tell apart, in    *)
(* three alphabets so that each can be longer, and UPDATE with what may     *)
(* follow.  Arguments and lines: one or a few statements of each kind.      *)
(***************************************************************************)
EXTENDS CommandLine

Upto(tokens, n) == UNION {[1..m -> tokens] : m \in 0..n}

Drop   == <<"DROP", " ", "x">>
Update == <<"UPDATE", " ", "x">>
Where  == <<" ", "WHERE", " ", "x">>
Then(s, t) == s \o <<";">> \o t

Texts ==
  Upto({"'", "\"", "backtick", "-", "/", "*", ";", "\n", "x"}, 4)
    \cup Upto({"'", "\"", ";", "x"}, 6)
    \cup Upto({"-", "/", "*", ";", "\n", "x"}, 5)

Modifies == {Update \o t : t \in Upto({"'", "\"", "-", " ", "WHERE"}, 5)}

\* What may stand before a statement, and what may follow its first word.
Leads == {<<" ">>, <<"\r", "\n">>, <<"-", "-", "x", "\n">>, <<"/", "*", ";", "*", "/">>}
DropTexts ==
  {<<"DROP">> \o t :
     t \in {<<>>, <<"\n", "x">>, <<"(", "x">>, <<"\r", "\n", "x">>, <<"\"", "x", "\"">>}}

Arguments ==
  {<<>>, <<"x">>, <<"SELECT">>, <<"SHOW">>, Drop, Update, Update \o Where} \cup DropTexts
    \cup {l \o Drop : l \in Leads}

Files ==
  {Then(Drop, <<"x">>), Then(<<"SELECT">>, Drop)}
    \cup {Then(<<"x">>, l \o Drop) : l \in Leads}
    \cup {Then(<<"x">>, Then(d, <<"x">>)) : d \in DropTexts}

ShortLines ==
  {<<"BEGIN">>, <<"x">>, <<"COMMIT">>, <<"ROLLBACK">>, <<"SELECT">>, <<" ", "exit">>,
   <<>>, <<"-", "-", "x">>, Drop, Update, Update \o Where,
   Then(Drop, Then(<<"exit">>, <<" ">> \o Drop)), Then(<<"BEGIN">>, Then(<<"x">>, <<"COMMIT">>))}

Invoke(commands, forces, texts) ==
  [command : commands, force : forces, text : texts]

AllInvocations ==
  Invoke({"file"}, {FALSE}, Texts \cup Modifies)
    \cup Invoke({"file"}, BOOLEAN, Files)
    \cup Invoke({"exec", "query"}, BOOLEAN, Arguments)
    \cup Invoke({"shell"}, BOOLEAN, {<<>>})

Dropping == Invoke({"exec", "file"}, {FALSE}, Arguments \cup Files)

Shell == Invoke({"shell"}, {FALSE}, {<<>>})
=============================================================================
