-------------------------- MODULE MCProviderChain --------------------------
(* Small instances of ProviderChain for TLC. *)
EXTENDS ProviderChain, TLC

CONSTANTS openai, gemini

TwoProviders == <<openai, gemini>>
=============================================================================
