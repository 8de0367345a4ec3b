--------------------------- MODULE MCReaderWriter ---------------------------
EXTENDS ReaderWriter
=============================================================================
