---------------------------- MODULE MCOAuthTokens ----------------------------
(* The instance of OAuthTokens that TLC checks: two goroutines of one manager, *)
(* and one of another that does everything.                                    *)
EXTENDS OAuthTokens, TLC

CONSTANTS a1, a2, b

Goroutines == {a1, a2, b}
ManagerOfEach == a1 :> "A" @@ a2 :> "A" @@ b :> "B"
TasksOfEach == a1 :> {"refresh"} @@ a2 :> {"refresh"} @@ b :> Operations
==============================================================================
