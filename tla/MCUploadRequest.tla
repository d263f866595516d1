-------------------------- MODULE MCUploadRequest --------------------------
\* An instance of UploadRequest for TLC: limits below, at and above the sizes,
\* the default of 10 megabytes among them.
EXTENDS UploadRequest, TLC

AnySetting == {-1, 0, 1, Unset, NoNumber}
\* Around 0, 1 and 10 megabytes of 2 bytes.
EdgeSizes == {0, 1, 2, 3, 20, 21}
=============================================================================
