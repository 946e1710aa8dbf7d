---- MODULE MCIdentity ----
EXTENDS IdentityProviders
====
