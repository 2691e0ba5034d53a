---------------------------- MODULE MCLifecycle -----------------------------
(* Both nodes from start to end.  The texts are every combination of an    *)
(* opening bracket, a host, a scope, a closing bracket and a tail.         *)
EXTENDS Lifecycle

Parts(S) == S \cup {<< >>}

MCAddrTexts ==
  {a \o b \o c \o d \o e :
     a \in Parts({<<"[">>}),
     b \in Parts(V6Texts \cup {<<"v4">>, <<"num">>, <<"x">>}),
     c \in Parts({<<"%", "eth">>, <<"%", "x">>}),
     d \in Parts({<<"]">>}),
     e \in Parts({<<":">>, <<":", "num">>, <<":", "big">>, <<":", "x">>,
                  <<"%">>, <<"]">>})}

MCPortTexts == {<< >>, <<"num">>, <<"big">>, <<"x">>}
=============================================================================
