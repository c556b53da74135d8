----------------------------- MODULE MCSubmission -----------------------------
(* Instances of Submission for TLC. *)
EXTENDS Submission, TLC

CONSTANTS ghana, nigeria, kenya, uganda, dollars

MCCorridorOf ==
  (ghana :> "GHS_GH") @@ (nigeria :> "NGN_NG") @@ (kenya :> "KES_KE")
    @@ (uganda :> "UGX_UG") @@ (dollars :> "USD_NG")

KenyaOnly == kenya :> "KES_KE"

MCOutages == SUBSET {"mtn_momo", "paystack"}

NoOutages == {{}}

AttemptSymmetry == Permutations(Attempts)

=============================================================================
