------------------------------- MODULE MCCodec -------------------------------
EXTENDS Codec

MCNames == {<<>>, <<1, 2>>}
MCPaths == {<<11>>, <<11, 12, 13>>}

=============================================================================
