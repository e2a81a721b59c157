----------------------------- MODULE MCDelivery -----------------------------
\* One developer, who goes on editing and committing while verify_local runs.
EXTENDS Delivery

MCKinds == [c \in Clone |-> {"push"}]
=============================================================================
