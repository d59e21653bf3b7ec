------------------------------ MODULE MCMessages ------------------------------
(* A call with a user's language, one whose user has no locale, a page     *)
(* that opens a task of a user with another language, and one that lists.  *)
EXTENDS Messages, TLC

CONSTANTS a, b, c, d, en, de, ja

MCLocales == (a :> de) @@ (b :> NoLocale) @@ (c :> ja) @@ (d :> NoLocale)
MCJobs == (a :> "trigger") @@ (b :> "trigger") @@ (c :> "open") @@ (d :> "list")
=============================================================================
