----------------------------- MODULE MCSelection ----------------------------
(***************************************************************************)
(* x below /user, its second life x2, u below it, y below that, and xy     *)
(* below /user.  They bear the names of guardians, so that a walk from a   *)
(* wrong place would find somebody: x is /user/system, u is called "user", *)
(* y "temp", and xy what is left of x's and y's names put together.        *)
(***************************************************************************)
EXTENDS Selection

CONSTANTS bigbang, root, user, sysm, temp, x, x2, u, y, xy

MCParent == [a \in Actor \ {bigbang} |->
                CASE a = root -> bigbang [] a \in TopLevel -> root
                  [] a = u -> x [] a = y -> u [] OTHER -> user]

MCName == [a \in Actor \ {bigbang} |->
              CASE a = root -> <<"root">> [] a \in {user, u} -> <<"user">>
                [] a \in {temp, y} -> <<"temp">> [] a = xy -> <<"system", "temp">>
                [] OTHER -> <<"system">>]

MCMsgType == [a \in Actor |-> CASE a \in Guardians -> "SystemMsg"
                                [] a = xy -> "Other" [] OTHER -> "Probe"]

(* By name, up and down, all children, from /user and from elsewhere, with *)
(* empty parts, beyond the root, with "/user/" again, and not valid.       *)
MCPaths == { <<"system">>, <<"system", "/">>, <<"*">>, <<"system", "/", "*">>, <<"..">>,
             <<"..", "/", "..">>, <<"..", "/", "..", "/", "..">>, <<"..", "/", "*">>,
             <<"..", "/", "system", "/", "user">>,
             <<"system", "/", "..", "/", "*", "/", "user">>,
             <<"/", "system">>, <<"/", "user">>, <<"/", "user", "/">>,
             <<"/", "user", "/", "*">>, <<"/", "user", "/", "system", "/", "user">>,
             <<"/", "user", "/", "system", "/", "..">>,
             <<"/", "user", "/", "system", "/", "user", "/", "temp">>,
             <<"..", "/", "user">>, <<"system", "/", "!">> }

=============================================================================
