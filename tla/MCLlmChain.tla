----------------------------- MODULE MCLlmChain -----------------------------
(***************************************************************************)
(* Values for the constants of LlmChain: the paid provider before the free *)
(* one, as _build_provider_chain orders them.                              *)
(***************************************************************************)
EXTENDS LlmChain

MCChain == <<"primary", "fallback">>
=============================================================================
