-------------------------------- MODULE MCEditor --------------------------------
EXTENDS Editor

MCLowerCase == [n \in Names |-> IF n = "F" THEN "f" ELSE n]
MCResolve == [n \in Names |-> IF n = "M" THEN "a" ELSE NoDoc]
MCLines == {<<"local", "F", "=", "function", "(", "x", ")", "end">>,
            <<"f", "(", "{", "x", ",", "x", "}", ",", "M", ")">>,
            <<"f", "(", "M", ".", "f", "(", "x", ",", "x", ")", ",", "\"", ";", "\"", ",", "F", ")">>,
            <<"module", "(", "\"", "M", "\"", ")">>, <<"--", "require", "(", "\"", "M", "\"", ")">>}
MCOpeners == {<<"function", "f", "(", "x", ",", "M", ",", "F", ")">>, <<"local", "function", "f", "(", ")">>,
              <<"for", "x", ",", "x", "in", "f", "(", "x", ")", "do">>}
MCSettings == {[caseSensitive |-> TRUE], [caseSensitive |-> TRUE, modulePattern |-> FALSE]}
===============================================================================
