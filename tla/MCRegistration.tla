--------------------------- MODULE MCRegistration ---------------------------
\* One phone address, one REGISTER at a time, one nonce, one watcher, one message.
EXTENDS Registration
=============================================================================
