--------------------------- MODULE MCDurableStore ---------------------------
(* DurableStore with a few operations of each kind and a reader. *)
EXTENDS DurableStore

CONSTANTS password, totp, checkout, reader, login, users, stripe

\* A password and a one-time code given for one account lock its login attempts and then the
\* users (userPassword.mjs, staged; totp.mjs, scoped), a checkout the billing queue; the
\* reader locks nothing.
MCNeeds == [op \in Ops |->
    IF op \in {password, totp} THEN <<login, users>>
    ELSE IF op = checkout THEN <<stripe>>
    ELSE <<>>]
=============================================================================
