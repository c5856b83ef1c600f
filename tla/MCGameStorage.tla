--------------------------- MODULE MCGameStorage ---------------------------
EXTENDS GameStorage

MCGenesis == <<>>
=============================================================================
