-------------------------- MODULE InstallerDevices --------------------------
(***************************************************************************)
(* The block devices the installer tells apart.                            *)
(***************************************************************************)

CONSTANTS
    Disks,      \* devices installer_supported_disk accepts
    Optical,    \* further devices installer_supported_install_media accepts
    None        \* no device: an empty cfg->disk or cfg->install_media, or a
                \* live system that runs from memory

Devices == Disks \cup Optical
=============================================================================
