-------------------------- MODULE MCProviderChain --------------------------
(* ProviderChain with a bootstrap peer that has two addresses.             *)
EXTENDS ProviderChain

BootstrapNodes == {<<"p", "x">>, <<"p", "y">>, <<"q", "x">>}

=============================================================================
