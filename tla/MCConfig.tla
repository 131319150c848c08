------------------------------ MODULE MCConfig ------------------------------
(* Config for TLC: names, documents and bounds. *)
EXTENDS Config

level == <<"log", "level">>
port  == <<"port">>

MCNames == {level, port}

Node(path, node) == [path |-> path, node |-> node]

\* log: {level: word}, port: word, Port9: {port: num}
Nested == <<Node(<<>>, "tree"),
            Node(<< <<"log">> >>, "tree"), Node(<< <<"log">>, <<"level">> >>, "word"),
            Node(<< port >>, "word"),
            Node(<< <<"Port9">> >>, "tree"), Node(<< <<"Port9">>, port >>, "num")>>

\* "log.level": num, log: {level: tree}, port: num
Dotted == <<Node(<<>>, "tree"), Node(<< level >>, "num"),
            Node(<< <<"log">> >>, "tree"), Node(<< <<"log">>, <<"level">> >>, "tree"),
            Node(<< port >>, "num")>>

MCDocuments == {Nested, Dotted}
=============================================================================
