------------------------------ MODULE Senders ------------------------------
\* Who publishes and observes.  A source or an authority that restarts does so
\* under another incarnation.
CONSTANTS Sources, Incarnations
=============================================================================
