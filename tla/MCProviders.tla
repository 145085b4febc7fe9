---------------------------- MODULE MCProviders ----------------------------
\* Providers, of each kind.
EXTENDS Providers, TLC

=============================================================================
